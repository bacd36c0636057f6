---------------------------- MODULE IndexerProofs ----------------------------
(***************************************************************************)
(* The indexer skips nothing and loses no wake-up, for every length of the *)
(* history, page size, page cap and number of faults.                      *)
(***************************************************************************)
EXTENDS Indexer, SequenceTheorems, TLAPS

USE IndexerAssumption DEF chainVars, durableVars, fetchVars, socketVars

LivePhases == {"Subscribing", "Loading", "Collecting", "Applying", "Saving",
               "Listening", "Reconnecting"}
Fetching == {"Backfill", "BackfillPage"}

-----------------------------------------------------------------------------
(* Pages *)

\* A page lies between its bounds, reaches back to its cursor, and is empty only
\* where nothing is left.
LEMMA PageBounds ==
    ASSUME TypeOK, NEW cursor \in 0 .. Len(chain), NEW bound \in 0 .. Len(chain)
    PROVE  LET page == RawPage(cursor, bound)
               n    == NextBefore(cursor, bound)
           IN  /\ page \subseteq Positions
               /\ n \in 0 .. Len(chain)
               /\ n = 0 => page = {}
               /\ n # 0 => /\ n > bound
                           /\ page = n .. PageEnd(cursor)
               /\ page = {} => PageEnd(cursor) <= bound
               /\ DOMAIN Records(cursor, bound) = {t \in page : chain[t].ok}
               /\ \A t \in DOMAIN Records(cursor, bound) :
                      Records(cursor, bound)[t] = Form(indexed)
<1>1. Len(chain) \in Nat
  BY DEF TypeOK
<1>2. PageEnd(cursor) \in Int /\ PageEnd(cursor) <= Len(chain) /\ PageEnd(cursor) >= -1
  BY <1>1 DEF PageEnd
<1>3. PageStart(cursor, bound) \in Int /\ PageStart(cursor, bound) > bound
  BY <1>1, <1>2 DEF PageStart
<1>4. PageEnd(cursor) < PageStart(cursor, bound) => PageEnd(cursor) <= bound
  BY <1>1, <1>2 DEF PageStart
<1>5. DOMAIN Records(cursor, bound) = {t \in RawPage(cursor, bound) : chain[t].ok}
  BY DEF Records
<1>6. \A t \in DOMAIN Records(cursor, bound) :
          Records(cursor, bound)[t] = Form(indexed)
  BY DEF Records
<1>7. RawPage(cursor, bound) \subseteq Positions
  BY <1>1, <1>2, <1>3 DEF RawPage, Positions
<1>8. RawPage(cursor, bound) = {} <=> PageEnd(cursor) < PageStart(cursor, bound)
  BY <1>2, <1>3 DEF RawPage
<1> HIDE DEF PageEnd, PageStart
<1>9. QED
  BY <1>1, <1>2, <1>3, <1>4, <1>5, <1>6, <1>7, <1>8 DEF NextBefore, RawPage

-----------------------------------------------------------------------------
(* Type correctness *)

\* Entering a phase keeps the types when its cursors are positions.
LEMMA EnterType ==
    ASSUME TypeOK, NEW where \in Phases, NEW cursor \in 0 .. Len(chain),
           NEW bound \in 0 .. Len(chain), Enter(where, cursor, bound),
           UNCHANGED <<chain, indexed, archive>>
    PROVE  /\ phase' \in Phases
           /\ {before', next', until'} \subseteq 0 .. Len(chain')
           /\ pages' \in 0 .. MaxPages
           /\ DOMAIN work' = {}
BY DEF Enter, NoWork, TypeOK

\* Any action that leaves history alone keeps TypeOK if what it changes is typed.
LEMMA FrameType ==
    ASSUME TypeOK, UNCHANGED <<chain, archive>>,
           indexed' \in BOOLEAN,
           backfill' \in [before : 0 .. Len(chain), completed : BOOLEAN],
           live' \in [tx : 0 .. Len(chain), form : Forms],
           phase' \in Phases,
           {before', next', until', notified'} \subseteq 0 .. Len(chain),
           inbox' \in 0 .. notified', pages' \in 0 .. MaxPages,
           \A t \in DOMAIN work' :
               t \in Positions /\ chain[t].ok /\ work'[t] \in Forms,
           subscribed' \in BOOLEAN, caughtUp' \in BOOLEAN,
           faults' \in 0 .. MaxFaults
    PROVE  TypeOK'
BY DEF TypeOK, Positions, Stored

LEMMA FinalizeType ==
    ASSUME TypeOK, NEW later \in {0, 1}, NEW ok \in BOOLEAN, Finalize(later, ok)
    PROVE  /\ TypeOK'
           /\ Len(chain') = Len(chain) + 1
           /\ \A t \in Positions : chain'[t] = chain[t]
           /\ UNCHANGED <<archive, backfill, live, phase, before, next, until, work,
                          notified, inbox>>
<1> DEFINE newest == IF chain = <<>> THEN 0 ELSE chain[Len(chain)].slot
           entry  == [slot |-> newest + later, ok |-> ok]
<1>1. Len(chain) \in Nat /\ Len(chain) < MaxChain
  BY DEF TypeOK, Finalize
<1>2. newest \in Nat
  <2>1. CASE chain = <<>>
    BY <2>1
  <2>2. CASE chain # <<>>
    <3>1. chain \in [1 .. Len(chain) -> [slot : Nat, ok : BOOLEAN]]
      BY LenProperties DEF TypeOK
    <3>2. Len(chain) # 0
      BY <2>2, EmptySeq DEF TypeOK
    <3>3. chain[Len(chain)].slot \in Nat
      BY <3>1, <3>2, <1>1
    <3> QED
      BY <3>3, <2>2
  <2> QED
    BY <2>1, <2>2
<1>3. entry \in [slot : Nat, ok : BOOLEAN]
  BY <1>2
<1>4. chain' = Append(chain, entry)
  BY DEF Finalize
<1> HIDE DEF entry
<1>5. chain' \in Seq([slot : Nat, ok : BOOLEAN]) /\ Len(chain') = Len(chain) + 1
  BY <1>3, <1>4 DEF TypeOK
<1>6. \A t \in Positions : chain'[t] = chain[t]
  BY <1>1, <1>3, <1>4 DEF TypeOK, Positions
<1>7. UNCHANGED <<indexed, durableVars, phase, fetchVars, socketVars, caughtUp, faults>>
  BY DEF Finalize
<1>8. Positions \subseteq Positions' /\ 0 .. Len(chain) \subseteq 0 .. Len(chain')
  BY <1>1, <1>5 DEF Positions
<1>9. TypeOK'
  <2>1. \A t \in 1 .. MaxChain : Stored(t)' => t \in Positions' /\ chain'[t].ok
    BY <1>6, <1>7, <1>8 DEF TypeOK, Stored
  <2>2. \A t \in DOMAIN work' :
            t \in Positions' /\ chain'[t].ok /\ work'[t] \in Forms
    BY <1>6, <1>7, <1>8 DEF TypeOK
  <2>3. /\ backfill' \in [before : 0 .. Len(chain'), completed : BOOLEAN]
        /\ live' \in [tx : 0 .. Len(chain'), form : Forms]
    BY <1>7, <1>8 DEF TypeOK
  <2>4. {before', next', until', notified'} \subseteq 0 .. Len(chain')
    BY <1>7, <1>8 DEF TypeOK
  <2> QED
    BY <1>1, <1>5, <1>7, <2>1, <2>2, <2>3, <2>4 DEF TypeOK
<1>10. QED
  BY <1>5, <1>6, <1>7, <1>9

\* Storing a record of the work keeps the archive typed.
LEMMA WriteType ==
    ASSUME TypeOK, NEW t \in DOMAIN work, Write(t), UNCHANGED chain
    PROVE  /\ archive' \in [1 .. MaxChain -> Forms \cup {"Absent"}]
           /\ \A u \in 1 .. MaxChain : Stored(u)' <=> Stored(u) \/ u = t
           /\ t \in Positions /\ chain[t].ok
<1>1. t \in 1 .. MaxChain /\ work[t] \in Forms /\ t \in Positions /\ chain[t].ok
  BY DEF TypeOK, Positions
<1>2. archive' = [archive EXCEPT ![t] = work[t]]
  BY DEF Write
<1> QED
  BY <1>1, <1>2 DEF TypeOK, Forms, Stored

\* Storing keeps TypeOK when the work only shrinks.
LEMMA StoreType ==
    ASSUME TypeOK, NEW t \in DOMAIN work, Write(t), phase' \in Phases,
           work' = work \/ work' = WorkWithout(t),
           UNCHANGED <<chainVars, backfill, live, before, next, until, pages,
                       socketVars, caughtUp, faults>>
    PROVE  TypeOK'
<1>1. /\ archive' \in [1 .. MaxChain -> Forms \cup {"Absent"}]
      /\ \A u \in 1 .. MaxChain : Stored(u)' => u \in Positions /\ chain[u].ok
  BY WriteType DEF TypeOK
<1>2. \A u \in DOMAIN work' : u \in DOMAIN work /\ work'[u] = work[u]
  BY DEF WorkWithout
<1> QED
  BY <1>1, <1>2 DEF TypeOK, Positions

\* A subscription or a process that ends leaves nothing but the durable rows.
LEMMA StopType ==
    ASSUME TypeOK, BackOff \/ Exit, UNCHANGED <<chainVars, durableVars>>,
           faults' \in 0 .. MaxFaults
    PROVE  TypeOK'
<1>1. /\ phase' \in Phases
      /\ before' = 0 /\ next' = 0 /\ until' = 0 /\ notified' = 0 /\ inbox' = 0
      /\ pages' = 0 /\ work' = NoWork /\ subscribed' = FALSE
  BY DEF BackOff, Exit, Enter, Unsubscribed, Phases
<1>2. caughtUp' \in BOOLEAN
  BY DEF BackOff, Exit, TypeOK
<1>3. {before', next', until', notified'} \subseteq 0 .. Len(chain)
  BY <1>1 DEF TypeOK
<1>4. inbox' \in 0 .. notified' /\ pages' \in 0 .. MaxPages
  BY <1>1
<1>7. subscribed' \in BOOLEAN
  BY Zenon DEF BackOff, Exit, Unsubscribed
<1>5. DOMAIN work' = {}
  BY <1>1 DEF NoWork
<1>6. /\ backfill' \in [before : 0 .. Len(chain), completed : BOOLEAN]
      /\ live' \in [tx : 0 .. Len(chain), form : Forms]
      /\ indexed' \in BOOLEAN
  BY DEF TypeOK
<1> QED
  BY <1>1, <1>2, <1>3, <1>4, <1>5, <1>6, <1>7, FrameType

LEMMA TypeStep == TypeOK /\ [Next]_vars => TypeOK'
<1> SUFFICES ASSUME TypeOK, [Next]_vars PROVE TypeOK'
  OBVIOUS
<1>0. /\ 0 \in 0 .. Len(chain) /\ Len(chain) \in 0 .. Len(chain)
      /\ 0 \in 0 .. MaxPages /\ DOMAIN NoWork = {}
  BY DEF TypeOK, NoWork
<1>1. ASSUME NEW later \in {0, 1}, NEW ok \in BOOLEAN, Finalize(later, ok)
      PROVE  TypeOK'
  BY <1>1, FinalizeType
<1>2. CASE ReportIndexes
  BY <1>2, FrameType DEF ReportIndexes, TypeOK
<1>3. CASE Announce
  <2>1. notified' \in 0 .. Len(chain) /\ inbox' \in 0 .. notified'
    BY <1>3 DEF Announce, TypeOK
  <2> QED
    BY <1>3, <2>1, FrameType DEF Announce, TypeOK
<1>4. CASE Start
  BY <1>0, <1>4, FrameType DEF Start, Enter, TypeOK, Phases
<1>5. CASE FetchPage
  <2>1. before \in 0 .. Len(chain)
    BY DEF TypeOK
  <2>2. /\ next' \in 0 .. Len(chain)
        /\ \A t \in DOMAIN work' : t \in Positions /\ chain[t].ok /\ work'[t] \in Forms
    BY <1>0, <1>5, <2>1, PageBounds DEF FetchPage, Form, Forms
  <2>3. pages' \in 0 .. MaxPages
    BY <1>5 DEF FetchPage, TypeOK
  <2> QED
    BY <1>5, <2>2, <2>3, FrameType DEF FetchPage, TypeOK, Phases
<1>6. CASE BackfillCapped
  BY <1>0, <1>6, FrameType DEF BackfillCapped, Enter, TypeOK, Phases
<1>7. CASE ProcessPageRecord
  <2>1. PICK t \in DOMAIN work : Write(t) /\ work' = WorkWithout(t)
    BY <1>7 DEF ProcessPageRecord
  <2>2. phase' \in Phases
    BY <1>7 DEF ProcessPageRecord, TypeOK
  <2> QED
    BY <1>7, <2>1, <2>2, StoreType DEF ProcessPageRecord
<1>8. CASE SavePage
  <2>1. backfill' \in [before : 0 .. Len(chain), completed : BOOLEAN]
    BY <1>8 DEF SavePage, TypeOK
  <2> QED
    BY <1>0, <1>8, <2>1, FrameType DEF SavePage, Enter, TypeOK, Phases
<1>9. CASE Subscribe
  BY <1>0, <1>9, FrameType DEF Subscribe, TypeOK, Phases
<1>10. CASE LoadCheckpoint
  <2>1. CASE Enter("Collecting", 0, live.tx) /\ UNCHANGED live
    <3>1. live.tx \in 0 .. Len(chain)
      BY DEF TypeOK
    <3> QED
      BY <1>0, <1>10, <2>1, <3>1, FrameType DEF LoadCheckpoint, Enter, TypeOK, Phases
  <2>2. ASSUME NEW t \in LatestSources, live' = [tx |-> t, form |-> archive[t]],
               Enter("Collecting", 0, t)
        PROVE  TypeOK'
    <3>1. t \in Positions /\ Stored(t)
      BY DEF LatestSources, Positions
    <3>2. t \in 0 .. Len(chain) /\ archive[t] \in Forms
      BY <3>1 DEF TypeOK, Positions, Stored
    <3>3. live' \in [tx : 0 .. Len(chain), form : Forms]
      BY <2>2, <3>2
    <3>4. /\ phase' = "Collecting" /\ pages' = 0 /\ DOMAIN work' = {}
          /\ {before', next', until'} \subseteq 0 .. Len(chain)
      BY <1>0, <2>2, <3>2 DEF Enter
    <3>5. UNCHANGED <<chainVars, archive, backfill, socketVars, caughtUp, faults>>
      BY <1>10 DEF LoadCheckpoint
    <3> QED
      BY <1>0, <3>3, <3>4, <3>5, FrameType DEF TypeOK, Phases
  <2> QED
    BY <1>10, <2>1, <2>2 DEF LoadCheckpoint
<1>11. CASE CollectPage
  <2>1. before \in 0 .. Len(chain) /\ until \in 0 .. Len(chain)
    BY DEF TypeOK
  <2>2. /\ next' \in 0 .. Len(chain)
        /\ \A t \in DOMAIN Records(before, until) :
               t \in Positions /\ chain[t].ok /\ Records(before, until)[t] \in Forms
    BY <1>11, <2>1, PageBounds DEF CollectPage, Form, Forms
  <2>3. \A t \in DOMAIN work' : t \in Positions /\ chain[t].ok /\ work'[t] \in Forms
    BY <1>11, <2>2 DEF CollectPage, TypeOK
  <2>4. pages' \in 0 .. MaxPages
    BY <1>11 DEF CollectPage, TypeOK
  <2>5. before' \in 0 .. Len(chain) /\ phase' \in Phases
    BY <1>11, <2>1, <2>2 DEF CollectPage, TypeOK, Phases
  <2>6. UNCHANGED <<chainVars, durableVars, until, socketVars, caughtUp, faults>>
    BY <1>11 DEF CollectPage
  <2> QED
    BY <2>2, <2>3, <2>4, <2>5, <2>6, FrameType DEF TypeOK
<1>12. CASE ProcessGapRecord
  <2>1. PICK t \in DOMAIN work : Write(t)
    BY <1>12 DEF ProcessGapRecord
  <2>2. phase' \in Phases
    BY <1>12 DEF ProcessGapRecord, Phases
  <2> QED
    BY <1>12, <2>1, <2>2, StoreType DEF ProcessGapRecord
<1>13. CASE SaveLive
  <2>1. PICK t \in DOMAIN work : /\ live' \in {Record(t), live}
                                 /\ work' = WorkWithout(t)
    BY <1>13 DEF SaveLive
  <2>2. Record(t) \in [tx : 0 .. Len(chain), form : Forms]
    BY DEF TypeOK, Record, Positions
  <2>3. \A u \in DOMAIN work' : u \in DOMAIN work /\ work'[u] = work[u]
    BY <2>1 DEF WorkWithout
  <2>4. live' \in [tx : 0 .. Len(chain), form : Forms]
    BY <2>1, <2>2 DEF TypeOK
  <2> QED
    BY <1>13, <2>3, <2>4, FrameType DEF SaveLive, TypeOK, Phases
<1>14. CASE CaughtUp
  BY <1>0, <1>14, FrameType DEF CaughtUp, Enter, TypeOK, Phases
<1>15. CASE Wake
  <2>1. inbox' \in 0 .. notified'
    BY <1>15 DEF Wake, TypeOK
  <2> QED
    BY <1>15, <2>1, FrameType DEF Wake, TypeOK, Phases
<1>16. CASE Reconnect
  BY <1>16, FrameType DEF Reconnect, TypeOK, Phases
<1>17. CASE StreamEnds \/ RecoveryRefused \/ BackfillRefused
  <2>1. (BackOff \/ Exit) /\ UNCHANGED <<chainVars, durableVars, faults>>
    BY <1>17 DEF StreamEnds, RecoveryRefused, BackfillRefused
  <2>2. faults' \in 0 .. MaxFaults
    BY <2>1 DEF TypeOK
  <2> QED
    BY <2>1, <2>2, StopType
<1>18. CASE CallFails \/ Crash
  <2>1. (BackOff \/ Exit) /\ UNCHANGED <<chainVars, durableVars>>
    BY <1>18 DEF CallFails, Crash
  <2>2. faults' \in 0 .. MaxFaults
    BY <1>18 DEF CallFails, Crash, TypeOK
  <2> QED
    BY <2>1, <2>2, StopType
<1>19. CASE SocketDrops
  <2>1. faults' \in 0 .. MaxFaults
    BY <1>19 DEF SocketDrops, TypeOK
  <2> QED
    BY <1>19, <2>1, FrameType DEF SocketDrops, TypeOK
<1>20. CASE UNCHANGED vars
  BY <1>20, FrameType DEF vars, TypeOK
<1> QED
  BY <1>1, <1>2, <1>3, <1>4, <1>5, <1>6, <1>7, <1>8, <1>9, <1>10, <1>11, <1>12,
     <1>13, <1>14, <1>15, <1>16, <1>17, <1>18, <1>19, <1>20
     DEF Next, Work

\* No call leaves a cursor, a checkpoint or a row that names anything but a
\* finalized transaction (every step of main.rs, live.rs and pipeline.rs).
THEOREM TypeCorrect == Spec => []TypeOK
<1>1. Init => TypeOK
  <2> SUFFICES ASSUME Init PROVE TypeOK
    OBVIOUS
  <2>1. chain \in Seq([slot : Nat, ok : BOOLEAN]) /\ Len(chain) = 0
    BY EmptySeq DEF Init
  <2>2. \A t \in 1 .. MaxChain : ~Stored(t)
    BY DEF Init, Stored
  <2>3. /\ archive \in [1 .. MaxChain -> Forms \cup {"Absent"}]
        /\ backfill \in [before : 0 .. Len(chain), completed : BOOLEAN]
        /\ live \in [tx : 0 .. Len(chain), form : Forms]
    BY <2>1 DEF Init, NoCheckpoint, Forms
  <2>4. DOMAIN work = {}
    BY DEF Init, NoWork
  <2>5. indexed \in BOOLEAN /\ Len(chain) <= MaxChain
    BY <2>1 DEF Init
  <2>6. subscribed \in BOOLEAN /\ caughtUp \in BOOLEAN
    BY Zenon DEF Init
  <2>7. /\ phase \in Phases
        /\ {before, next, until, notified} \subseteq 0 .. Len(chain)
        /\ inbox \in 0 .. notified /\ pages \in 0 .. MaxPages /\ faults \in 0 .. MaxFaults
    BY <2>1 DEF Init, Phases
  <2> QED
    BY <2>1, <2>2, <2>3, <2>4, <2>5, <2>6, <2>7 DEF TypeOK
<1> QED
  BY <1>1, TypeStep, PTL DEF Spec

-----------------------------------------------------------------------------
(* The archive only grows *)

LEMMA ArchiveStep ==
    ASSUME TypeOK, [Next]_vars
    PROVE  \/ UNCHANGED archive
           \/ \E t \in DOMAIN work : Due(t) /\ Persists(t) /\ Write(t)
BY DEF Next, Work, Finalize, ReportIndexes, Announce, Start, FetchPage, BackfillCapped,
       ProcessPageRecord, SavePage, Subscribe, LoadCheckpoint, CollectPage,
       ProcessGapRecord, SaveLive, CaughtUp, Wake, Reconnect, StreamEnds,
       RecoveryRefused, BackfillRefused, CallFails, SocketDrops, Crash, vars

LEMMA StoredStays ==
    ASSUME TypeOK, [Next]_vars, NEW t \in 1 .. MaxChain, Stored(t)
    PROVE  archive'[t] = archive[t]
<1>1. CASE UNCHANGED archive
  BY <1>1
<1>2. ASSUME NEW u \in DOMAIN work, Persists(u), Write(u)
      PROVE  archive'[t] = archive[t]
  <2>1. u \in 1 .. MaxChain
    BY DEF TypeOK, Positions
  <2> QED
    BY <1>2, <2>1 DEF Persists, Write, Stored, TypeOK
<1> QED
  BY <1>1, <1>2, ArchiveStep

\* A row is written once: persist_transaction never rewrites one, whatever is
\* replayed after a failure or a restart.
THEOREM RowsStand == Spec => SourceAppendOnly
<1>1. TypeOK /\ [Next]_vars =>
          [\A t \in 1 .. MaxChain : Stored(t) => archive'[t] = archive[t]]_vars
  BY StoredStays
<1> QED
  BY <1>1, TypeCorrect, PTL DEF Spec, SourceAppendOnly

-----------------------------------------------------------------------------
(* Nothing is skipped: the inductive invariant *)

Successful == {t \in Positions : chain[t].ok}

\* What is stored, or waits in memory to be
Covered(t) == Stored(t) \/ t \in DOMAIN work

\* Live sync never overlaps the backfill.
BackfillFirst ==
    /\ phase \in LivePhases \/ live.tx # 0 => backfill.completed
    /\ phase \in Fetching => ~backfill.completed

\* The page of a backfill: it lies before the durable cursor and leaves no hole
\* down to its own; the empty page comes when nothing is left before it.
PageSound ==
    /\ phase \in Fetching => before = backfill.before
    /\ phase = "BackfillPage" =>
        /\ before # 0 => \A t \in DOMAIN work : t < before
        /\ next # 0 => \A i \in Successful, j \in Positions :
                           next <= i /\ i <= j /\ Covered(j) => Covered(i)
        /\ next = 0 => /\ DOMAIN work = {}
                       /\ before = 1 \/ \A t \in Positions : ~Stored(t)

\* The gap of a recovery: no hole above the page being fetched, then none at all
\* above the checkpoint; a record whose checkpoint is being saved is stored.
GapSound ==
    /\ phase = "Collecting" =>
        /\ until = live.tx
        /\ before = 0 => DOMAIN work = {}
        /\ before # 0 => \A i \in Successful, j \in DOMAIN work :
                             before <= i /\ i <= j => i \in DOMAIN work
    /\ phase \in {"Applying", "Saving"} =>
        \A i \in Successful, j \in DOMAIN work : i <= j => Covered(i)
    /\ phase = "Saving" => \A t \in DOMAIN work : Due(t) => Stored(t)

LiveStored == live.tx # 0 => Stored(live.tx)

SyncInv == BackfillFirst /\ PageSound /\ GapSound /\ LiveStored /\ NothingSkipped

\* Steps that leave the rows alone and enter a phase about which SyncInv says
\* nothing but that the backfill is over.
LEMMA QuietStep ==
    ASSUME TypeOK, SyncInv, UNCHANGED <<chain, durableVars>>,
           phase' \in Phases \ {"Backfill", "BackfillPage", "Collecting", "Applying",
                               "Saving"},
           phase' \in LivePhases => backfill.completed
    PROVE  SyncInv'
BY DEF SyncInv, BackfillFirst, PageSound, GapSound, LiveStored, NothingSkipped,
       Fetching, Stored, Unread, Positions

\* Steps that change nothing SyncInv speaks of.
LEMMA OutsideStep ==
    ASSUME TypeOK, SyncInv,
           UNCHANGED <<chain, durableVars, phase, before, next, until, work>>
    PROVE  SyncInv'
BY DEF SyncInv, BackfillFirst, PageSound, GapSound, LiveStored, NothingSkipped,
       Stored, Unread, Positions, Successful, Covered, Due

LEMMA FinalizeSync ==
    ASSUME TypeOK, SyncInv, NEW later \in {0, 1}, NEW ok \in BOOLEAN,
           Finalize(later, ok)
    PROVE  SyncInv'
<1>1. /\ TypeOK'
      /\ Len(chain') = Len(chain) + 1
      /\ \A t \in Positions : chain'[t] = chain[t]
      /\ UNCHANGED <<archive, backfill, live, phase, before, next, until, work>>
  BY FinalizeType
<1>2. Len(chain) \in Nat /\ live.tx \in 0 .. Len(chain)
  BY DEF TypeOK
<1>3. \A t : Covered(t)' <=> Covered(t)
  BY <1>1 DEF Covered, Stored
<1>4. \A t \in Positions' : Covered(t) \/ live.tx = t => t \in Positions
  <2>1. \A t \in Positions' : t \in 1 .. MaxChain
    <3>1. Len(chain') <= MaxChain
      BY <1>1 DEF TypeOK
    <3> QED
      BY <1>1, <1>2, <3>1 DEF Positions
  <2> QED
    BY <1>2, <2>1 DEF Covered, TypeOK, Positions
<1>5. \A i, j \in Positions' : i <= j /\ j \in Positions /\ chain'[i].ok =>
          i \in Positions /\ chain[i].ok
  BY <1>1, <1>2 DEF Positions
<1>6. NothingSkipped'
  BY <1>1, <1>3, <1>4, <1>5 DEF SyncInv, NothingSkipped, Covered, Stored, Unread
<1>7. BackfillFirst' /\ LiveStored'
  BY <1>1 DEF SyncInv, BackfillFirst, LiveStored, Stored
<1>8. PageSound'
  BY <1>1, <1>3, <1>4, <1>5 DEF SyncInv, PageSound, Covered, Stored, Successful
<1>9. \A j \in DOMAIN work : j \in Positions'
  BY <1>1, <1>2 DEF TypeOK, Positions
<1>10. GapSound'
  BY <1>1, <1>3, <1>4, <1>5, <1>9
     DEF SyncInv, GapSound, Covered, Stored, Successful, Due
<1> QED
  BY <1>6, <1>7, <1>8, <1>10 DEF SyncInv

-----------------------------------------------------------------------------
(* The steps of a backfill *)

LEMMA FetchPageSync ==
    ASSUME TypeOK, SyncInv, FetchPage
    PROVE  SyncInv'
<1> DEFINE page == DOMAIN Records(before, 0)
<1>1. /\ UNCHANGED <<chain, archive, backfill, live, before, until>>
      /\ work' = Records(before, 0) /\ next' = NextBefore(before, 0)
      /\ phase = "Backfill" /\ phase' = "BackfillPage"
  BY DEF FetchPage
<1>2. Len(chain) \in Nat /\ before \in 0 .. Len(chain) /\ before = backfill.before
  BY <1>1 DEF TypeOK, SyncInv, PageSound, Fetching
<1>3. /\ next' \in 0 .. Len(chain)
      /\ next' = 0 => RawPage(before, 0) = {} /\ PageEnd(before) <= 0
      /\ next' # 0 => RawPage(before, 0) = next' .. PageEnd(before)
      /\ DOMAIN work' = {t \in RawPage(before, 0) : chain[t].ok}
      /\ DOMAIN work' \subseteq 0 .. PageEnd(before)
  <2>1. 0 \in 0 .. Len(chain)
    BY <1>2
  <2>2. /\ next' \in 0 .. Len(chain)
        /\ next' = 0 => RawPage(before, 0) = {}
        /\ RawPage(before, 0) = {} => PageEnd(before) <= 0
        /\ next' # 0 => RawPage(before, 0) = next' .. PageEnd(before)
        /\ DOMAIN work' = {t \in RawPage(before, 0) : chain[t].ok}
    BY <1>1, <1>2, <2>1, PageBounds
  <2>3. next' # 0 => next' .. PageEnd(before) \subseteq 0 .. PageEnd(before)
    BY <1>2, <2>2
  <2> QED
    BY <2>2, <2>3
<1>4. PageEnd(before) = IF before = 0 THEN Len(chain) ELSE before - 1
  BY DEF PageEnd
<1>5. ~backfill.completed /\ live.tx = 0
  BY <1>1 DEF SyncInv, BackfillFirst, Fetching
<1>6. BackfillFirst' /\ GapSound' /\ LiveStored'
  BY <1>1, <1>5 DEF SyncInv, BackfillFirst, GapSound, LiveStored, LivePhases, Fetching
<1>7. NothingSkipped'
  BY <1>1 DEF SyncInv, NothingSkipped, Stored, Unread, Positions
<1>8. PageSound'
  <2>1. before' = backfill'.before
    BY <1>1, <1>2
  <2>2. ASSUME before' # 0, NEW t \in DOMAIN work' PROVE t < before'
    BY <1>1, <1>2, <1>3, <1>4, <2>2
  <2>3. ASSUME next' # 0, NEW i \in Successful, NEW j \in Positions,
               next' <= i, i <= j, Stored(j) \/ j \in DOMAIN work'
        PROVE  Stored(i) \/ i \in DOMAIN work'
    <3>1. i \in Nat /\ j \in Nat /\ i <= Len(chain) /\ chain[i].ok /\ i \in Positions
      BY <1>2 DEF Successful, Positions
    <3>2. CASE i <= PageEnd(before)
      BY <1>2, <1>3, <1>4, <2>3, <3>1, <3>2
    <3>3. CASE ~(i <= PageEnd(before))
      <4>1. before # 0 /\ i >= before /\ j \notin DOMAIN work'
        BY <1>2, <1>3, <1>4, <2>3, <3>1, <3>3
      <4>2. Stored(i) \/ Unread(i)
        BY <2>3, <3>1, <4>1 DEF SyncInv, NothingSkipped
      <4>3. ~Unread(i)
        BY <1>2, <3>1, <4>1 DEF Unread
      <4> QED
        BY <4>2, <4>3
    <3> QED
      BY <3>2, <3>3
  <2>4. ASSUME next' = 0
        PROVE  DOMAIN work' = {} /\ (before' = 1 \/ \A t \in Positions : ~Stored(t))
    <3>1. DOMAIN work' = {} /\ PageEnd(before) <= 0
      BY <1>3, <2>4
    <3>2. before # 0 => before = 1
      BY <1>2, <1>4, <3>1
    <3>3. before = 0 => Positions = {}
      BY <1>2, <1>4, <3>1 DEF Positions
    <3> QED
      BY <1>1, <3>1, <3>2, <3>3
  <2> QED
    BY <1>1, <2>1, <2>2, <2>3, <2>4
       DEF PageSound, Fetching, Covered, Stored, Successful, Positions
<1> QED
  BY <1>6, <1>7, <1>8 DEF SyncInv

LEMMA ProcessPageSync ==
    ASSUME TypeOK, SyncInv, ProcessPageRecord
    PROVE  SyncInv'
<1>1. PICK t \in DOMAIN work : Write(t) /\ work' = WorkWithout(t)
  BY DEF ProcessPageRecord
<1>2. /\ UNCHANGED <<chain, backfill, live, phase, before, next, until>>
      /\ phase = "BackfillPage"
  BY DEF ProcessPageRecord
<1>3. /\ \A u \in 1 .. MaxChain : Stored(u)' <=> Stored(u) \/ u = t
      /\ t \in Positions
  BY <1>1, <1>2, WriteType
<1>4. Positions \subseteq 1 .. MaxChain /\ Len(chain) \in Nat
  BY DEF TypeOK, Positions
<1>5. DOMAIN work' = DOMAIN work \ {t}
  BY <1>1 DEF WorkWithout
<1>6. \A u \in Positions : Covered(u)' <=> Covered(u)
  BY <1>3, <1>4, <1>5 DEF Covered
<1>7. ~backfill.completed /\ live.tx = 0 /\ before = backfill.before
  BY <1>2 DEF SyncInv, BackfillFirst, PageSound, Fetching
<1>8. before \in Nat
  BY <1>4 DEF TypeOK
<1>9. NothingSkipped'
  <2> SUFFICES ASSUME NEW i \in Positions, NEW j \in Positions, i <= j, chain[i].ok,
                      Stored(j)'
               PROVE  Stored(i)' \/ Unread(i)
    BY <1>2, <1>7 DEF NothingSkipped, Positions, Unread
  <2>1. CASE Stored(j)
    BY <1>3, <1>4, <2>1 DEF SyncInv, NothingSkipped
  <2>2. CASE j = t
    <3>1. before = 0 \/ t < before
      BY <1>2 DEF SyncInv, PageSound
    <3>2. i \in Nat /\ t \in Nat
      BY <1>3, <1>4 DEF Positions
    <3> QED
      BY <1>7, <1>8, <2>2, <3>1, <3>2 DEF Unread
  <2> QED
    BY <1>3, <1>4, <2>1, <2>2
<1>10. PageSound'
  <2>1. next = 0 => DOMAIN work = {}
    BY <1>2 DEF SyncInv, PageSound
  <2>2. next # 0
    BY <2>1
  <2>3. \A i \in Successful' : i \in Successful /\ i \in Positions
    BY <1>2 DEF Successful, Positions
  <2> QED
    BY <1>2, <1>5, <1>6, <2>2, <2>3 DEF SyncInv, PageSound, Positions
<1>11. BackfillFirst' /\ GapSound' /\ LiveStored'
  BY <1>2, <1>7 DEF SyncInv, BackfillFirst, GapSound, LiveStored
<1> QED
  BY <1>9, <1>10, <1>11 DEF SyncInv

LEMMA SavePageSync ==
    ASSUME TypeOK, SyncInv, SavePage
    PROVE  SyncInv'
<1>1. /\ UNCHANGED <<chain, archive, live>>
      /\ phase = "BackfillPage" /\ DOMAIN work = {}
      /\ backfill' = [before |-> IF next = 0 THEN before ELSE next, completed |-> next = 0]
  BY DEF SavePage
<1>2. ~backfill.completed /\ live.tx = 0 /\ before = backfill.before
  BY <1>1 DEF SyncInv, BackfillFirst, PageSound, Fetching
<1>3. Len(chain) \in Nat /\ next \in Nat /\ before \in Nat
  BY DEF TypeOK
<1>4. Positions' = Positions /\ \A t : Stored(t)' <=> Stored(t)
  BY <1>1 DEF Positions, Stored
<1>5. CASE next = 0
  <2>1. backfill'.completed
    BY <1>1, <1>5
  <2>2. phase' = "Subscribing"
    BY <1>5 DEF SavePage, Enter
  <2>3. BackfillFirst' /\ PageSound' /\ GapSound' /\ LiveStored'
    BY <1>1, <1>2, <2>1, <2>2
       DEF BackfillFirst, PageSound, GapSound, LiveStored, Fetching, LivePhases
  <2>4. NothingSkipped'
    <3> SUFFICES ASSUME NEW i \in Positions, NEW j \in Positions, i <= j, chain[i].ok,
                        Stored(j)
                 PROVE  Stored(i)
      BY <1>1, <1>2, <1>3, <1>4 DEF NothingSkipped, Positions
    <3>1. before = 1
      BY <1>1, <1>5 DEF SyncInv, PageSound
    <3>2. ~Unread(i)
      BY <1>2, <3>1 DEF Unread, Positions
    <3> QED
      BY <3>2 DEF SyncInv, NothingSkipped
  <2> QED
    BY <2>3, <2>4 DEF SyncInv
<1>6. CASE next # 0
  <2>1. backfill'.before = next /\ ~backfill'.completed
    BY <1>1, <1>6
  <2>2. phase' = "Backfill" /\ before' = next
    BY <1>6 DEF SavePage
  <2>3. BackfillFirst' /\ PageSound' /\ GapSound' /\ LiveStored'
    BY <1>1, <1>2, <2>1, <2>2
       DEF BackfillFirst, PageSound, GapSound, LiveStored, Fetching, LivePhases
  <2>4. NothingSkipped'
    <3> SUFFICES ASSUME NEW i \in Positions, NEW j \in Positions, i <= j, chain[i].ok,
                        Stored(j)
                 PROVE  Stored(i) \/ i < next
      BY <1>1, <1>2, <1>4, <2>1 DEF NothingSkipped, Positions, Unread
    <3>1. i \in Successful /\ i \in Nat
      BY DEF Successful, Positions
    <3>2. ~(i < next) => Covered(i)
      BY <1>1, <1>3, <1>6, <3>1 DEF SyncInv, PageSound, Covered
    <3> QED
      BY <1>1, <3>2 DEF Covered
  <2> QED
    BY <2>3, <2>4 DEF SyncInv
<1> QED
  BY <1>5, <1>6

-----------------------------------------------------------------------------
(* The steps of a recovery *)

LEMMA LoadCheckpointSync ==
    ASSUME TypeOK, SyncInv, LoadCheckpoint
    PROVE  SyncInv'
<1>1. /\ UNCHANGED <<chain, archive, backfill>>
      /\ phase = "Loading" /\ phase' = "Collecting"
      /\ before' = 0 /\ DOMAIN work' = {}
  BY DEF LoadCheckpoint, Enter, NoWork
<1>2. /\ until' = live'.tx
      /\ live' = live \/ \E t \in Positions : live'.tx = t /\ Stored(t)
  <2>1. CASE Enter("Collecting", 0, live.tx) /\ UNCHANGED live
    BY <2>1 DEF Enter
  <2>2. ASSUME NEW t \in LatestSources, live' = [tx |-> t, form |-> archive[t]],
               Enter("Collecting", 0, t)
        PROVE  until' = live'.tx /\ t \in Positions /\ live'.tx = t /\ Stored(t)
    BY <2>2 DEF Enter, LatestSources, Positions
  <2> QED
    BY <2>1, <2>2 DEF LoadCheckpoint
<1>3. backfill.completed
  BY <1>1 DEF SyncInv, BackfillFirst, LivePhases
<1>4. BackfillFirst' /\ PageSound' /\ LiveStored'
  BY <1>1, <1>2, <1>3
     DEF SyncInv, BackfillFirst, PageSound, LiveStored, Fetching, Stored
<1>5. GapSound'
  BY <1>1, <1>2 DEF GapSound
<1>6. NothingSkipped'
  BY <1>1, <1>2 DEF SyncInv, NothingSkipped, Stored, Unread, Positions
<1> QED
  BY <1>4, <1>5, <1>6 DEF SyncInv

\* While nothing is left to the backfill, the rows up to the checkpoint are full.
LEMMA FullUpToCheckpoint ==
    ASSUME TypeOK, SyncInv, backfill.completed, NEW t \in Successful, t <= live.tx
    PROVE  Stored(t)
<1>1. live.tx \in Positions
  BY DEF TypeOK, Positions, Successful
<1> QED
  BY <1>1 DEF SyncInv, NothingSkipped, Unread, Successful

LEMMA CollectPageSync ==
    ASSUME TypeOK, SyncInv, CollectPage
    PROVE  /\ SyncInv'
           /\ before = 0 => \A t \in Successful : t < before' \/ Covered(t)'
<1> DEFINE page == RawPage(before, until)
<1>1. /\ UNCHANGED <<chain, archive, backfill, live, until>>
      /\ phase = "Collecting"
      /\ DOMAIN work' = DOMAIN Records(before, until) \cup DOMAIN work
      /\ next' = NextBefore(before, until)
      /\ IF next' = 0 THEN phase' = "Applying" /\ before' = before
         ELSE phase' = "Collecting" /\ before' = next'
  BY DEF CollectPage
<1>2. /\ Len(chain) \in Nat /\ before \in 0 .. Len(chain) /\ until \in 0 .. Len(chain)
      /\ until = live.tx
  BY <1>1 DEF TypeOK, SyncInv, GapSound
<1>3. /\ next' \in 0 .. Len(chain)
      /\ next' = 0 => page = {}
      /\ page = {} => PageEnd(before) <= until
      /\ next' # 0 => page = next' .. PageEnd(before)
      /\ DOMAIN Records(before, until) = {t \in page : chain[t].ok}
  BY <1>1, <1>2, PageBounds
<1>4. PageEnd(before) = IF before = 0 THEN Len(chain) ELSE before - 1
  BY DEF PageEnd
<1>5. backfill.completed
  BY <1>1 DEF SyncInv, BackfillFirst, LivePhases
<1>6. \A t : Stored(t)' <=> Stored(t)
  BY <1>1 DEF Stored
<1>7. \A t \in DOMAIN work : t \in Positions
  BY DEF TypeOK
<1>8. /\ Positions' = Positions /\ Successful' = Successful
      /\ \A t \in Positions : t \in Nat /\ t <= Len(chain)
      /\ \A t \in Successful : t \in Positions /\ chain[t].ok
  BY <1>1, <1>2 DEF Positions, Successful
<1>9. BackfillFirst' /\ PageSound' /\ LiveStored'
  BY <1>1, <1>5, <1>6 DEF SyncInv, BackfillFirst, PageSound, LiveStored, Fetching, LivePhases
<1>10. NothingSkipped'
  BY <1>1, <1>6, <1>8 DEF SyncInv, NothingSkipped, Unread
<1> HIDE DEF page
<1>11. CASE next' = 0
  <2>1. DOMAIN work' = DOMAIN work
    BY <1>1, <1>3, <1>11
  <2>2. ASSUME NEW i \in Successful, NEW j \in DOMAIN work, i <= j
        PROVE  Stored(i) \/ i \in DOMAIN work
    <3>1. before # 0
      BY <1>1 DEF SyncInv, GapSound
    <3>2. CASE before <= i
      BY <1>1, <2>2, <3>1, <3>2 DEF SyncInv, GapSound
    <3>3. CASE ~(before <= i)
      <4>1. i <= until
        BY <1>2, <1>3, <1>4, <1>8, <1>11, <3>1, <3>3
      <4> QED
        BY <1>2, <1>5, <4>1, FullUpToCheckpoint
    <3> QED
      BY <3>2, <3>3
  <2>3. GapSound'
    BY <1>1, <1>6, <1>8, <1>11, <2>1, <2>2 DEF GapSound, Covered
  <2>4. ASSUME before = 0, NEW t \in Successful PROVE Covered(t)'
    <3>1. t <= live.tx
      BY <1>2, <1>3, <1>4, <1>8, <1>11, <2>4
    <3> QED
      BY <1>5, <1>6, <3>1, FullUpToCheckpoint DEF Covered
  <2> QED
    BY <1>9, <1>10, <2>3, <2>4 DEF SyncInv
<1>12. CASE next' # 0
  <2>1. \A t \in Successful : next' <= t /\ t <= PageEnd(before) => t \in DOMAIN work'
    BY <1>1, <1>2, <1>3, <1>4, <1>8, <1>12
  <2>2. ASSUME NEW i \in Successful, NEW j \in DOMAIN work', next' <= i, i <= j
        PROVE  i \in DOMAIN work'
    <3>1. CASE i <= PageEnd(before)
      BY <2>1, <2>2, <3>1
    <3>2. CASE ~(i <= PageEnd(before))
      <4>1. before # 0 /\ before <= i
        BY <1>2, <1>4, <1>8, <3>2
      <4>2. j \in DOMAIN work
        BY <1>1, <1>2, <1>3, <1>4, <1>8, <1>12, <2>2, <3>2, <4>1
      <4> QED
        BY <1>1, <2>2, <4>1, <4>2 DEF SyncInv, GapSound
    <3> QED
      BY <3>1, <3>2
  <2>3. GapSound'
    BY <1>1, <1>2, <1>8, <1>12, <2>2 DEF GapSound
  <2>4. ASSUME before = 0, NEW t \in Successful PROVE t < before' \/ Covered(t)'
    BY <1>1, <1>2, <1>3, <1>4, <1>8, <1>12, <2>1, <2>4 DEF Covered
  <2> QED
    BY <1>9, <1>10, <2>3, <2>4 DEF SyncInv
<1> QED
  BY <1>11, <1>12

LEMMA ProcessGapSync ==
    ASSUME TypeOK, SyncInv, ProcessGapRecord
    PROVE  /\ SyncInv'
           /\ \A u \in Positions : Covered(u) => Covered(u)'
<1>1. PICK t \in DOMAIN work : Due(t) /\ Write(t)
  BY DEF ProcessGapRecord
<1>2. /\ UNCHANGED <<chain, backfill, live, before, next, until, work>>
      /\ phase = "Applying" /\ phase' = "Saving"
  BY DEF ProcessGapRecord
<1>3. /\ \A u \in 1 .. MaxChain : Stored(u)' <=> Stored(u) \/ u = t
      /\ t \in Positions
  BY <1>1, <1>2, WriteType
<1>4. Positions \subseteq 1 .. MaxChain /\ Len(chain) \in Nat
  BY DEF TypeOK, Positions
<1>5. /\ Positions' = Positions /\ Successful' = Successful
      /\ \A u \in Successful : u \in Positions
      /\ \A u \in DOMAIN work : u \in Positions
      /\ \A u \in Positions : u \in Nat
  BY <1>2, <1>4 DEF Positions, Successful, TypeOK
<1>6. backfill.completed
  BY <1>2 DEF SyncInv, BackfillFirst, LivePhases
<1>7. \A u \in Positions : Covered(u) => Covered(u)'
  BY <1>2, <1>3, <1>4 DEF Covered
<1>8. BackfillFirst' /\ PageSound'
  BY <1>2, <1>6 DEF BackfillFirst, PageSound, Fetching
<1>9. LiveStored'
  <2>1. live.tx # 0 => live.tx \in Positions
    BY <1>4 DEF TypeOK, Positions
  <2> QED
    BY <1>2, <1>3, <1>4, <2>1 DEF SyncInv, LiveStored
<1>10. GapSound'
  <2>1. ASSUME NEW u \in DOMAIN work, Due(u) PROVE u = t
    BY <1>1, <1>5, <2>1 DEF Due
  <2> QED
    BY <1>2, <1>3, <1>4, <1>5, <1>7, <2>1 DEF SyncInv, GapSound, Due
<1>11. NothingSkipped'
  <2> SUFFICES ASSUME NEW i \in Positions, NEW j \in Positions, i <= j, chain[i].ok,
                      Stored(j)' \/ live.tx = j
               PROVE  Stored(i)'
    BY <1>2, <1>5 DEF NothingSkipped
  <2>1. CASE Stored(j) \/ live.tx = j
    BY <1>3, <1>4, <1>6, <2>1 DEF SyncInv, NothingSkipped, Unread
  <2>2. CASE j = t
    <3>1. i \in Successful
      BY DEF Successful
    <3>2. Covered(i)
      BY <1>2, <2>2, <3>1 DEF SyncInv, GapSound
    <3>3. i \in DOMAIN work => i = t
      BY <1>1, <1>5, <2>2 DEF Due
    <3> QED
      BY <1>3, <1>4, <3>2, <3>3 DEF Covered
  <2> QED
    BY <1>3, <1>4, <2>1, <2>2
<1> QED
  BY <1>7, <1>8, <1>9, <1>10, <1>11 DEF SyncInv

LEMMA SaveLiveSync ==
    ASSUME TypeOK, SyncInv, SaveLive
    PROVE  /\ SyncInv'
           /\ \A u \in Positions : Covered(u) => Covered(u)'
<1>1. PICK t \in DOMAIN work : /\ Due(t)
                               /\ live' \in {Record(t), live}
                               /\ work' = WorkWithout(t)
  BY DEF SaveLive
<1>2. /\ UNCHANGED <<chain, archive, backfill, before, next, until>>
      /\ phase = "Saving" /\ phase' = "Applying"
  BY DEF SaveLive
<1>3. live'.tx \in {t, live.tx}
  BY <1>1 DEF Record
<1>4. DOMAIN work' = DOMAIN work \ {t}
  BY <1>1 DEF WorkWithout
<1>5. Stored(t) /\ t \in Positions
  BY <1>1, <1>2 DEF SyncInv, GapSound, TypeOK
<1>6. \A u : Stored(u)' <=> Stored(u)
  BY <1>2 DEF Stored
<1>7. Positions' = Positions /\ Successful' = Successful
  BY <1>2 DEF Positions, Successful
<1>8. backfill.completed
  BY <1>2 DEF SyncInv, BackfillFirst, LivePhases
<1>9. \A u : Covered(u) => Covered(u)'
  BY <1>4, <1>5, <1>6 DEF Covered
<1>10. BackfillFirst' /\ PageSound'
  BY <1>2, <1>8 DEF BackfillFirst, PageSound, Fetching
<1>11. LiveStored'
  BY <1>3, <1>5, <1>6 DEF SyncInv, LiveStored
<1>12. GapSound'
  BY <1>2, <1>4, <1>7, <1>9 DEF SyncInv, GapSound
<1>13. NothingSkipped'
  BY <1>2, <1>3, <1>5, <1>6, <1>7, <1>8 DEF SyncInv, NothingSkipped, Unread
<1> QED
  BY <1>9, <1>10, <1>11, <1>12, <1>13 DEF SyncInv

-----------------------------------------------------------------------------
(* Every step *)

\* The steps that neither store, read a page nor move a checkpoint.
LEMMA QuietSteps ==
    ASSUME TypeOK, SyncInv,
           \/ BackfillCapped \/ Subscribe \/ CaughtUp \/ Wake \/ Reconnect \/ StreamEnds
           \/ RecoveryRefused \/ BackfillRefused \/ CallFails \/ Crash
    PROVE  SyncInv'
<1>1. UNCHANGED <<chain, durableVars>>
  BY DEF BackfillCapped, Subscribe, CaughtUp, Wake, Reconnect, StreamEnds,
         RecoveryRefused, BackfillRefused, CallFails, Crash
<1>2. \/ phase' = "Down"
      \/ /\ phase' \in {"Subscribing", "Loading", "Listening", "Reconnecting"}
         /\ phase \in LivePhases
  BY DEF BackfillCapped, Subscribe, CaughtUp, Wake, Reconnect, StreamEnds,
         RecoveryRefused, BackfillRefused, CallFails, Crash, Enter, BackOff, Exit,
         LivePhases
<1>3. phase' \in LivePhases => backfill.completed
  BY <1>2 DEF SyncInv, BackfillFirst, LivePhases
<1> QED
  BY <1>1, <1>2, <1>3, QuietStep DEF Phases, LivePhases

LEMMA StartSync ==
    ASSUME TypeOK, SyncInv, Start
    PROVE  SyncInv'
<1>1. UNCHANGED <<chain, durableVars>>
  BY DEF Start
<1>2. CASE backfill.completed
  BY <1>1, <1>2, QuietStep DEF Start, Enter, Phases
<1>3. CASE ~backfill.completed
  <2>1. phase' = "Backfill" /\ before' = backfill.before
    BY <1>3 DEF Start, Enter
  <2> QED
    BY <1>1, <1>3, <2>1
       DEF SyncInv, BackfillFirst, PageSound, GapSound, LiveStored, NothingSkipped,
           Fetching, LivePhases, Stored, Unread, Positions
<1> QED
  BY <1>2, <1>3

LEMMA SyncStep == TypeOK /\ SyncInv /\ [Next]_vars => SyncInv'
<1> SUFFICES ASSUME TypeOK, SyncInv, [Next]_vars PROVE SyncInv'
  OBVIOUS
<1>1. ASSUME NEW later \in {0, 1}, NEW ok \in BOOLEAN, Finalize(later, ok)
      PROVE  SyncInv'
  BY <1>1, FinalizeSync
<1>2. CASE ReportIndexes \/ Announce \/ SocketDrops \/ UNCHANGED vars
  <2>1. UNCHANGED <<chain, durableVars, phase, before, next, until, work>>
    BY <1>2 DEF ReportIndexes, Announce, SocketDrops, vars
  <2> QED
    BY <2>1, OutsideStep
<1>3. CASE \/ BackfillCapped \/ Subscribe \/ CaughtUp \/ Wake \/ Reconnect \/ StreamEnds
           \/ RecoveryRefused \/ BackfillRefused \/ CallFails \/ Crash
  BY <1>3, QuietSteps
<1>4. CASE Start \/ FetchPage \/ ProcessPageRecord \/ SavePage
  BY <1>4, StartSync, FetchPageSync, ProcessPageSync, SavePageSync
<1>5. CASE LoadCheckpoint \/ CollectPage \/ ProcessGapRecord \/ SaveLive
  BY <1>5, LoadCheckpointSync, CollectPageSync, ProcessGapSync, SaveLiveSync
<1> QED
  BY <1>1, <1>2, <1>3, <1>4, <1>5 DEF Next, Work

LEMMA SyncInvariant == Spec => []SyncInv
<1>1. Init => SyncInv
  BY DEF Init, SyncInv, BackfillFirst, PageSound, GapSound, LiveStored, NothingSkipped,
         NoCheckpoint, Fetching, LivePhases, Positions, Stored
<1> QED
  BY <1>1, TypeCorrect, SyncStep, PTL DEF Spec

\* Whatever fails or stops between two calls, neither the archive nor the live
\* checkpoint ever passes a transaction that the backfill has no right to owe.
THEOREM HistoryWhole == Spec => []NothingSkipped
<1>1. SyncInv => NothingSkipped
  BY DEF SyncInv
<1> QED
  BY <1>1, SyncInvariant, PTL

-----------------------------------------------------------------------------
(* No wake-up is lost *)

\* What was announced is stored or in memory, is still to be collected, or has a
\* notification waiting.
Announced ==
    inbox = 0 =>
        \A t \in Successful : t <= notified =>
            /\ phase = "Collecting" /\ before # 0 => t < before \/ Covered(t)
            /\ phase \in {"Applying", "Saving"} => Covered(t)
            /\ phase = "Listening" => Stored(t)

LEMMA AnnouncedStep == TypeOK /\ SyncInv /\ Announced /\ [Next]_vars => Announced'
<1> SUFFICES ASSUME TypeOK, SyncInv, Announced, [Next]_vars PROVE Announced'
  OBVIOUS
<1>1. Len(chain) \in Nat /\ notified \in 0 .. Len(chain) /\ inbox \in Nat
  BY DEF TypeOK
<1>2. \A t \in Successful : t \in Positions /\ t \in Nat /\ chain[t].ok
  BY <1>1 DEF Successful, Positions
<1>3. ASSUME NEW later \in {0, 1}, NEW ok \in BOOLEAN, Finalize(later, ok)
      PROVE  Announced'
  <2>1. /\ Len(chain') = Len(chain) + 1
        /\ \A t \in Positions : chain'[t] = chain[t]
        /\ UNCHANGED <<archive, backfill, live, phase, before, next, until, work,
                       notified, inbox>>
    BY <1>3, FinalizeType
  <2>2. \A t \in Successful' : t <= notified => t \in Successful
    BY <1>1, <2>1 DEF Successful, Positions
  <2> QED
    BY <2>1, <2>2 DEF Announced, Covered, Stored
<1>4. CASE Announce
  <2>1. /\ UNCHANGED <<chain, archive, phase, before, work>>
        /\ notified' = notified + 1
        /\ inbox' = IF chain[notified + 1].ok THEN inbox + 1 ELSE inbox
    BY <1>4 DEF Announce
  <2>2. ASSUME inbox' = 0 PROVE inbox = 0 /\ ~chain[notified + 1].ok
    BY <1>1, <2>1, <2>2
  <2>3. ASSUME inbox' = 0, NEW t \in Successful, t <= notified' PROVE t <= notified
    BY <1>1, <1>2, <2>1, <2>2, <2>3
  <2> QED
    BY <2>1, <2>2, <2>3 DEF Announced, Successful, Positions, Covered, Stored
<1>5. CASE ReportIndexes \/ SocketDrops \/ UNCHANGED vars
  BY <1>5 DEF ReportIndexes, SocketDrops, vars, Announced, Successful, Positions,
              Covered, Stored
<1>6. CASE \/ Start \/ FetchPage \/ BackfillCapped \/ ProcessPageRecord \/ SavePage
           \/ Subscribe \/ Reconnect \/ StreamEnds \/ RecoveryRefused
           \/ BackfillRefused \/ CallFails \/ Crash
  <2>1. phase' \notin {"Collecting", "Applying", "Saving", "Listening"}
    BY <1>6 DEF Start, FetchPage, BackfillCapped, ProcessPageRecord, SavePage, Subscribe,
                Reconnect, StreamEnds, RecoveryRefused, BackfillRefused, CallFails,
                Crash, Enter, BackOff, Exit
  <2> QED
    BY <2>1 DEF Announced
<1>7. CASE LoadCheckpoint
  <2>1. phase' = "Collecting" /\ before' = 0
    BY <1>7 DEF LoadCheckpoint, Enter
  <2> QED
    BY <2>1 DEF Announced
<1>8. CASE CollectPage
  <2>1. /\ UNCHANGED <<chain, archive, notified, inbox>>
        /\ DOMAIN work \subseteq DOMAIN work'
        /\ phase = "Collecting"
        /\ next' = NextBefore(before, until)
        /\ IF next' = 0 THEN phase' = "Applying" /\ before' = before
           ELSE phase' = "Collecting" /\ before' = next'
    BY <1>8 DEF CollectPage
  <2>2. Successful' = Successful
    BY <2>1 DEF Successful, Positions
  <2>3. CASE before = 0
    <3>1. \A t \in Successful : t < before' \/ Covered(t)'
      BY <1>8, <2>3, CollectPageSync
    <3>2. before' \in Nat
      BY TypeStep DEF TypeOK
    <3>3. next' = 0 => \A t \in Successful : Covered(t)'
      BY <1>2, <2>1, <2>3, <3>1
    <3> QED
      BY <2>1, <2>2, <3>1, <3>3 DEF Announced
  <2>4. CASE before # 0
    <3>1. SyncInv' /\ TypeOK'
      BY <1>8, CollectPageSync, TypeStep
    <3>2. \A t \in Positions : Covered(t) => Covered(t)'
      BY <2>1 DEF Covered, Stored
    <3>3. ASSUME NEW t \in Successful, t < before
          PROVE  IF next' = 0 THEN Stored(t) ELSE t < next' \/ Covered(t)'
      <4>1. /\ before \in 0 .. Len(chain) /\ until \in 0 .. Len(chain) /\ until = live.tx
            /\ backfill.completed
        BY <2>1 DEF TypeOK, SyncInv, GapSound, BackfillFirst, LivePhases
      <4>2. PageEnd(before) = before - 1
        BY <2>4 DEF PageEnd
      <4>3. /\ next' \in Nat
            /\ next' = 0 => PageEnd(before) <= until
            /\ next' # 0 => RawPage(before, until) = next' .. PageEnd(before)
            /\ DOMAIN Records(before, until) = {u \in RawPage(before, until) : chain[u].ok}
        <5>1. /\ next' \in 0 .. Len(chain)
              /\ next' = 0 => RawPage(before, until) = {}
              /\ RawPage(before, until) = {} => PageEnd(before) <= until
              /\ next' # 0 => RawPage(before, until) = next' .. PageEnd(before)
              /\ DOMAIN Records(before, until) =
                     {u \in RawPage(before, until) : chain[u].ok}
          BY <2>1, <4>1, PageBounds
        <5> QED
          BY <1>1, <5>1
      <4>4. DOMAIN Records(before, until) \subseteq DOMAIN work'
        BY <1>8 DEF CollectPage
      <4>5. CASE next' = 0
        <5>1. t <= live.tx
          BY <1>1, <1>2, <3>3, <4>1, <4>2, <4>3, <4>5
        <5> QED
          BY <4>1, <4>5, <5>1, FullUpToCheckpoint
      <4>6. CASE next' # 0
        <5>1. t < next' \/ t \in next' .. PageEnd(before)
          BY <1>1, <1>2, <3>3, <4>1, <4>2, <4>3
        <5> QED
          BY <1>2, <4>3, <4>4, <4>6, <5>1 DEF Covered
      <4> QED
        BY <4>5, <4>6
    <3>4. \A t \in Successful : Stored(t) => Covered(t)'
      BY <2>1 DEF Covered, Stored
    <3> QED
      BY <1>2, <2>1, <2>2, <2>4, <3>2, <3>3, <3>4 DEF Announced
  <2> QED
    BY <2>3, <2>4
<1>9. CASE ProcessGapRecord \/ SaveLive
  <2>1. /\ UNCHANGED <<chain, notified, inbox>>
        /\ {phase, phase'} \subseteq {"Applying", "Saving"}
    BY <1>9 DEF ProcessGapRecord, SaveLive
  <2>2. \A t \in Positions : Covered(t) => Covered(t)'
    BY <1>9, ProcessGapSync, SaveLiveSync
  <2>3. Successful' = Successful
    BY <2>1 DEF Successful, Positions
  <2> QED
    BY <1>2, <2>1, <2>2, <2>3 DEF Announced
<1>10. CASE CaughtUp
  <2>1. /\ UNCHANGED <<chain, archive, notified, inbox>>
        /\ phase = "Applying" /\ phase' = "Listening" /\ DOMAIN work = {}
    BY <1>10 DEF CaughtUp, Enter
  <2> QED
    BY <2>1 DEF Announced, Successful, Positions, Covered, Stored
<1>11. CASE Wake
  <2>1. phase' = "Loading"
    BY <1>11 DEF Wake
  <2> QED
    BY <2>1 DEF Announced
<1> QED
  BY <1>3, <1>4, <1>5, <1>6, <1>7, <1>8, <1>9, <1>10, <1>11 DEF Next, Work

\* A process that waits with an empty buffer has archived all that its
\* subscription announced, because the catch-up starts after the subscription.
THEOREM WakeUpsKept == Spec => []NoLostWakeUp
<1>1. Init => Announced
  BY DEF Init, Announced
<1>2. TypeOK /\ Announced => NoLostWakeUp
  <2> SUFFICES ASSUME TypeOK, Announced, phase = "Listening", inbox = 0,
                      NEW t \in 1 .. notified, chain[t].ok
               PROVE  Stored(t)
    BY DEF NoLostWakeUp
  <2>1. Len(chain) \in Nat /\ notified \in 0 .. Len(chain)
    BY DEF TypeOK
  <2>2. t \in Successful /\ t <= notified
    BY <2>1 DEF Successful, Positions
  <2> QED
    BY <2>2 DEF Announced
<1> QED
  BY <1>1, <1>2, TypeCorrect, SyncInvariant, AnnouncedStep, PTL DEF Spec
=============================================================================
