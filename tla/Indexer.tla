------------------------------ MODULE Indexer ------------------------------
(***************************************************************************)
(* The indexer process beside a growing finalized chain: a historical      *)
(* backfill that walks backwards page by page, then live sync, in which a  *)
(* log subscription only wakes an HTTP recovery of everything after the    *)
(* durable checkpoint.  Each step is one call that can fail on its own: an *)
(* RPC page, the SQL transaction of one record, one checkpoint save.  The  *)
(* process may stop between any two of them; only archive, backfill and    *)
(* live, the PostgreSQL rows, survive.                                     *)
(*                                                                         *)
(* A transaction is its position in the chain, which is also the order its *)
(* slot and its index in the slot give.                                    *)
(***************************************************************************)
EXTENDS Integers, Sequences

CONSTANTS
    PageLimit,      \* SIGNATURE_PAGE_LIMIT
    MaxPages,       \* MAX_PAGES_PER_RUN
    MaxChain,       \* bound: the length of the finalized history
    MaxFaults,      \* bound: failed calls, dropped sockets and crashes
    FirstIndexed    \* whether the endpoint may start with indices or without

ASSUME IndexerAssumption ==
    /\ PageLimit \in Nat \ {0}
    /\ MaxPages \in Nat \ {0}
    /\ MaxChain \in Nat
    /\ MaxFaults \in Nat
    /\ FirstIndexed \subseteq BOOLEAN

VARIABLES
    chain,      \* finalized transactions that mention the program: slot, success
    indexed,    \* the endpoint reports transaction_index
    archive,    \* chain_transactions: stored without its index, or with it
    backfill,   \* the backfill_checkpoints row; before is 0 while unset
    live,       \* the live_checkpoints row; tx is 0 while there is none
    phase,      \* where the process is
    before,     \* the cursor of the page being fetched, 0 for the newest page
    next,       \* next_before of the page just fetched, 0 at the end of history
    until,      \* the exclusive lower bound of a recovery, 0 for none
    pages,      \* pages fetched in this run
    work,       \* [transaction -> form]: signature records still to process
    subscribed, \* the log subscription is up
    notified,   \* the newest transaction the subscription has announced
    inbox,      \* notifications the PubSub client has buffered
    caughtUp,   \* HealthState::caught_up
    faults      \* faults so far

chainVars   == <<chain, indexed>>
durableVars == <<archive, backfill, live>>
fetchVars   == <<before, next, until, pages, work>>
socketVars  == <<subscribed, notified, inbox>>
vars == <<chainVars, durableVars, phase, fetchVars, socketVars, caughtUp, faults>>

Phases == {"Down", "Backfill", "BackfillPage", "Subscribing", "Loading",
           "Collecting", "Applying", "Saving", "Listening", "Reconnecting"}

Stored(tx) == archive[tx] # "Absent"

NoWork == [t \in {} |-> "Bare"]  \* the function of no transaction

\* Whether the record of a transaction carries its index in the slot
Forms == {"Bare", "Indexed"}
Form(withIndex) == IF withIndex THEN "Indexed" ELSE "Bare"

-----------------------------------------------------------------------------
\* fetch_signature_page_with_bounds: the newest PageLimit transactions between
\* the two exclusive bounds, failed executions included, as their positions.
PageEnd(cursor) == IF cursor = 0 THEN Len(chain) ELSE cursor - 1
PageStart(cursor, bound) ==
    LET oldest == PageEnd(cursor) - PageLimit + 1
    IN  IF oldest > bound THEN oldest ELSE bound + 1

RawPage(cursor, bound) == PageStart(cursor, bound) .. PageEnd(cursor)

\* Mutant of Records: the failed executions are processed as well
RecordsUnfiltered(cursor, bound) == [t \in RawPage(cursor, bound) |-> Form(indexed)]

\* build_signature_page: failed executions are filtered out.
Records(cursor, bound) ==
    [t \in {u \in RawPage(cursor, bound) : chain[u].ok} |-> Form(indexed)]

\* Mutant of NextBefore: the cursor is read after the filter
NextBeforeFiltered(cursor, bound) ==
    LET ok == DOMAIN Records(cursor, bound)
    IN  IF ok = {} THEN 0 ELSE CHOOSE t \in ok : \A u \in ok : t <= u

\* Its cursor is the last raw entry, a failed execution or not.
NextBefore(cursor, bound) ==
    IF RawPage(cursor, bound) = {} THEN 0 ELSE PageStart(cursor, bound)

\* The next record: pages are turned oldest first, older pages go in front.
Due(t) == t \in DOMAIN work /\ \A u \in DOMAIN work : t <= u

Record(t) == [tx |-> t, form |-> work[t]]
WorkWithout(t) == [u \in DOMAIN work \ {t} |-> work[u]]

\* decide_update: may this position replace the stored checkpoint?  Signatures
\* are identities; only a slot, or two indices in one slot, prove an order.
Decide(stored, incoming) ==
    CASE stored.tx = incoming.tx ->
             IF stored.form = "Bare" /\ incoming.form = "Indexed"
             THEN "Replace" ELSE "Keep"
      [] chain[incoming.tx].slot > chain[stored.tx].slot -> "Replace"
      [] chain[incoming.tx].slot < chain[stored.tx].slot -> "Backward"
      [] stored.form = "Bare" \/ incoming.form = "Bare" -> "AmbiguousSameSlot"
      [] incoming.tx > stored.tx -> "Replace"
      [] OTHER -> "Backward"

NoCheckpoint == [tx |-> 0, form |-> "Bare"]

\* load_latest_source_position: the newest slot; in it the known indices before
\* the missing ones, which leave the choice to the text of the signatures.
LatestSources ==
    LET rows   == {t \in 1 .. Len(chain) : Stored(t)}
        newest == {t \in rows : \A u \in rows : chain[u].slot <= chain[t].slot}
        known  == {t \in newest : archive[t] = "Indexed"}
    IN  IF known = {} THEN newest
        ELSE {t \in known : \A u \in known : u <= t}

-----------------------------------------------------------------------------
Init ==
    /\ chain = <<>>
    /\ indexed \in FirstIndexed
    /\ archive = [t \in 1 .. MaxChain |-> "Absent"]
    /\ backfill = [before |-> 0, completed |-> FALSE]
    /\ live = NoCheckpoint
    /\ phase = "Down"
    /\ before = 0 /\ next = 0 /\ until = 0 /\ pages = 0 /\ work = NoWork
    /\ subscribed = FALSE /\ notified = 0 /\ inbox = 0
    /\ caughtUp = FALSE
    /\ faults = 0

\* The cluster finalizes a transaction, in the newest slot or in a later one.
Finalize(later, ok) ==
    /\ Len(chain) < MaxChain
    /\ LET newest == IF chain = <<>> THEN 0 ELSE chain[Len(chain)].slot
       IN  chain' = Append(chain, [slot |-> newest + later, ok |-> ok])
    /\ UNCHANGED <<indexed, durableVars, phase, fetchVars, socketVars, caughtUp, faults>>

\* The endpoint is upgraded and reports transaction_index from now on.
ReportIndexes ==
    /\ ~indexed
    /\ indexed' = TRUE
    /\ UNCHANGED <<chain, durableVars, phase, fetchVars, socketVars, caughtUp, faults>>

\* The subscription announces the next transaction; notification_to_wakeup
\* drops the failed executions.
Announce ==
    /\ subscribed
    /\ notified < Len(chain)
    /\ notified' = notified + 1
    /\ inbox' = IF chain[notified + 1].ok THEN inbox + 1 ELSE inbox
    /\ UNCHANGED <<chainVars, durableVars, phase, fetchVars, subscribed, caughtUp, faults>>

-----------------------------------------------------------------------------
\* Entering a phase with a fresh page controller
Enter(where, cursor, bound) ==
    /\ phase' = where
    /\ before' = cursor
    /\ next' = 0
    /\ until' = bound
    /\ pages' = 0
    /\ work' = NoWork

Unsubscribed ==
    /\ subscribed' = FALSE
    /\ notified' = 0
    /\ inbox' = 0

\* main and run_backfill up to the first page: the durable row decides whether
\* history is still to be read.
Start ==
    /\ phase = "Down"
    /\ IF backfill.completed THEN Enter("Subscribing", 0, 0)
       ELSE Enter("Backfill", backfill.before, 0)
    /\ UNCHANGED <<chainVars, durableVars, socketVars, caughtUp, faults>>

\* run_pages: the next page, or the cap, after which the process returns
FetchPage ==
    /\ phase = "Backfill"
    /\ pages < MaxPages
    /\ work' = Records(before, 0)
    /\ next' = NextBefore(before, 0)
    /\ pages' = pages + 1
    /\ phase' = "BackfillPage"
    /\ UNCHANGED <<chainVars, durableVars, before, until, socketVars, caughtUp, faults>>

BackfillCapped ==
    /\ phase = "Backfill"
    /\ pages = MaxPages
    /\ Enter("Down", 0, 0)
    /\ UNCHANGED <<chainVars, durableVars, socketVars, caughtUp, faults>>

\* Mutant of Persists: an upsert that takes the newer row
PersistsAnyReplay(t) == work[t] \in Forms

\* persist_transaction: a new row, or the exact replay of a stored one.
\* The SQL transaction of any other replay is rolled back.
Persists(t) == archive[t] \in {"Absent", work[t]}
Write(t) == archive' = [archive EXCEPT ![t] = work[t]]

\* process_signature on a record of a backfill page
ProcessPageRecord ==
    /\ phase = "BackfillPage"
    /\ \E t \in DOMAIN work :
           /\ Due(t)
           /\ Persists(t)
           /\ Write(t)
           /\ work' = WorkWithout(t)
    /\ UNCHANGED <<chainVars, backfill, live, phase, before, next, until, pages,
                   socketVars, caughtUp, faults>>

\* save_backfill_checkpoint, the last mutation of a page.  The terminal page is
\* empty: it keeps the previous cursor, and main goes on to live sync.
SavePage ==
    /\ phase = "BackfillPage"
    /\ DOMAIN work = {}
    /\ backfill' = [before |-> IF next = 0 THEN before ELSE next,
                    completed |-> next = 0]
    /\ IF next = 0 THEN Enter("Subscribing", 0, 0)
       ELSE /\ before' = next
            /\ phase' = "Backfill"
            /\ UNCHANGED <<next, until, pages, work>>
    /\ UNCHANGED <<chainVars, archive, live, socketVars, caughtUp, faults>>

\* run_log_subscription connects and subscribes before on_ready catches up:
\* what is finalized from here on is announced.
Subscribe ==
    /\ phase = "Subscribing"
    /\ subscribed' = TRUE
    /\ notified' = Len(chain)
    /\ inbox' = 0
    /\ phase' = "Loading"
    /\ UNCHANGED <<chainVars, durableVars, fetchVars, caughtUp, faults>>

\* load_or_initialize_live_checkpoint: the stored checkpoint wins, then the
\* newest archived transaction, which is saved; an empty archive gives none.
LoadCheckpoint ==
    /\ phase = "Loading"
    /\ \/ /\ live # NoCheckpoint \/ LatestSources = {}
          /\ Enter("Collecting", 0, live.tx)
          /\ UNCHANGED live
       \/ /\ live = NoCheckpoint
          /\ \E t \in LatestSources :
                /\ live' = [tx |-> t, form |-> archive[t]]
                /\ Enter("Collecting", 0, t)
    /\ UNCHANGED <<chainVars, archive, backfill, socketVars, caughtUp, faults>>

\* collect_gap_pages: nothing is processed before the empty page that confirms
\* the boundary.
CollectPage ==
    /\ phase = "Collecting"
    /\ pages < MaxPages
    /\ pages' = pages + 1
    /\ LET older == Records(before, until)
       IN  work' = [t \in DOMAIN older \cup DOMAIN work |->
                       IF t \in DOMAIN work THEN work[t] ELSE older[t]]
    /\ next' = NextBefore(before, until)
    /\ IF next' = 0
       THEN phase' = "Applying" /\ UNCHANGED before
       ELSE before' = next' /\ UNCHANGED phase
    /\ UNCHANGED <<chainVars, durableVars, until, socketVars, caughtUp, faults>>

\* process_gap_records: the record first, its checkpoint after it
ProcessGapRecord ==
    /\ phase = "Applying"
    /\ \E t \in DOMAIN work : Due(t) /\ Persists(t) /\ Write(t)
    /\ phase' = "Saving"
    /\ UNCHANGED <<chainVars, backfill, live, fetchVars, socketVars, caughtUp, faults>>

Refused(r) ==
    /\ live # NoCheckpoint
    /\ Decide(live, r) \notin {"Keep", "Replace"}

SaveLive ==
    /\ phase = "Saving"
    /\ \E t \in DOMAIN work :
           /\ Due(t)
           /\ ~Refused(Record(t))
           /\ live' = IF live = NoCheckpoint \/ Decide(live, Record(t)) = "Replace"
                      THEN Record(t) ELSE live
           /\ work' = WorkWithout(t)
    /\ phase' = "Applying"
    /\ UNCHANGED <<chainVars, archive, backfill, before, next, until, pages,
                   socketVars, caughtUp, faults>>

\* Mutant of CaughtUp: the subscription only starts after the catch-up
CaughtUpThenSubscribe ==
    /\ phase = "Applying"
    /\ DOMAIN work = {}
    /\ caughtUp' = TRUE
    /\ Enter("Listening", 0, 0)
    /\ notified' = Len(chain) /\ inbox' = 0
    /\ UNCHANGED <<chainVars, durableVars, subscribed, faults>>

\* The gap is closed.  on_ready marks the process ready; a wake-up comes after
\* an on_ready that did, so it finds the bit set.
CaughtUp ==
    /\ phase = "Applying"
    /\ DOMAIN work = {}
    /\ caughtUp' = TRUE
    /\ Enter("Listening", 0, 0)
    /\ UNCHANGED <<chainVars, durableVars, socketVars, faults>>

\* Mutant of Wake: a process that is caught up takes no notice
WakeUnlessReady ==
    /\ phase = "Listening"
    /\ inbox > 0
    /\ inbox' = inbox - 1
    /\ phase' = IF caughtUp THEN "Listening" ELSE "Loading"
    /\ UNCHANGED <<chainVars, durableVars, fetchVars, subscribed, notified, caughtUp, faults>>

\* on_wakeup: one recovery for each notification, in turn
Wake ==
    /\ phase = "Listening"
    /\ inbox > 0
    /\ inbox' = inbox - 1
    /\ phase' = "Loading"
    /\ UNCHANGED <<chainVars, durableVars, fetchVars, subscribed, notified, caughtUp, faults>>

-----------------------------------------------------------------------------
\* The outer loop on a subscription that returned: back off for a while, ...
BackOff ==
    /\ Enter("Reconnecting", 0, 0)
    /\ Unsubscribed
    /\ UNCHANGED caughtUp

\* ... then withdraw readiness and try again.
Reconnect ==
    /\ phase = "Reconnecting"
    /\ caughtUp' = FALSE
    /\ phase' = "Subscribing"
    /\ UNCHANGED <<chainVars, durableVars, fetchVars, socketVars, faults>>

\* notifications.next() yields None once the buffer is drained
StreamEnds ==
    /\ phase = "Listening"
    /\ ~subscribed
    /\ inbox = 0
    /\ BackOff
    /\ UNCHANGED <<chainVars, durableVars, faults>>

\* A recovery that fails closed by itself: the gap needs more pages than the
\* cap, the archive holds the record in another form, or its order is unknown.
RecoveryRefused ==
    /\ \/ phase = "Collecting" /\ pages = MaxPages
       \/ phase = "Applying" /\ \E t \in DOMAIN work : Due(t) /\ ~Persists(t)
       \/ phase = "Saving" /\ \E t \in DOMAIN work : Due(t) /\ Refused(Record(t))
    /\ BackOff
    /\ UNCHANGED <<chainVars, durableVars, faults>>

Exit ==
    /\ Enter("Down", 0, 0)
    /\ Unsubscribed
    /\ caughtUp' = FALSE

\* The same conflict in a backfill page propagates out of main.
BackfillRefused ==
    /\ phase = "BackfillPage"
    /\ \E t \in DOMAIN work : Due(t) /\ ~Persists(t)
    /\ Exit
    /\ UNCHANGED <<chainVars, durableVars, faults>>

-----------------------------------------------------------------------------
\* The call in flight fails: RPC, decoder or database.  Its effect is absent.
CallFails ==
    /\ faults < MaxFaults
    /\ faults' = faults + 1
    /\ \/ phase \in {"Backfill", "BackfillPage"} /\ Exit
       \/ /\ phase \in {"Subscribing", "Loading", "Collecting", "Applying", "Saving"}
          /\ BackOff
    /\ UNCHANGED <<chainVars, durableVars>>

\* The WebSocket breaks; what was buffered can still be read.
SocketDrops ==
    /\ subscribed
    /\ faults < MaxFaults
    /\ faults' = faults + 1
    /\ subscribed' = FALSE
    /\ UNCHANGED <<chainVars, durableVars, phase, fetchVars, notified, inbox, caughtUp>>

\* The process stops anywhere: a crash, a signal or an eviction.
Crash ==
    /\ phase # "Down"
    /\ faults < MaxFaults
    /\ faults' = faults + 1
    /\ Exit
    /\ UNCHANGED <<chainVars, durableVars>>

Work ==
    \/ Start \/ FetchPage \/ BackfillCapped \/ ProcessPageRecord \/ SavePage
    \/ Subscribe \/ LoadCheckpoint \/ CollectPage \/ ProcessGapRecord \/ SaveLive
    \/ CaughtUp \/ Wake \/ Reconnect \/ StreamEnds
    \/ RecoveryRefused \/ BackfillRefused

Next ==
    \/ \E later \in {0, 1}, ok \in BOOLEAN : Finalize(later, ok)
    \/ ReportIndexes
    \/ Announce
    \/ Work
    \/ CallFails
    \/ SocketDrops
    \/ Crash

Spec == Init /\ [][Next]_vars

\* The process runs whenever it can, its supervisor starts it again, and a
\* subscription that is up announces what is finalized.
FairSpec == Spec /\ WF_vars(Work) /\ WF_vars(Announce)

-----------------------------------------------------------------------------
Positions == 1 .. Len(chain)

\* Every variable keeps its type; cursors, checkpoints, records and rows name
\* finalized transactions, records and rows successful ones.
TypeOK ==
    /\ chain \in Seq([slot : Nat, ok : BOOLEAN])
    /\ Len(chain) <= MaxChain
    /\ indexed \in BOOLEAN
    /\ archive \in [1 .. MaxChain -> Forms \cup {"Absent"}]
    /\ \A t \in 1 .. MaxChain : Stored(t) => t \in Positions /\ chain[t].ok
    /\ backfill \in [before : 0 .. Len(chain), completed : BOOLEAN]
    /\ live \in [tx : 0 .. Len(chain), form : Forms]
    /\ phase \in Phases
    /\ {before, next, until, notified} \subseteq 0 .. Len(chain)
    /\ inbox \in 0 .. notified
    /\ pages \in 0 .. MaxPages
    /\ \A t \in DOMAIN work : t \in Positions /\ chain[t].ok /\ work[t] \in Forms
    /\ subscribed \in BOOLEAN
    /\ caughtUp \in BOOLEAN
    /\ faults \in 0 .. MaxFaults

\* A transaction the unfinished backfill has still to reach
Unread(t) == ~backfill.completed /\ (backfill.before = 0 \/ t < backfill.before)

\* Nothing is skipped: whatever the archive or the live checkpoint reaches,
\* every successful transaction before it is archived too, or lies where the
\* unfinished backfill has yet to read.  "The opposite order could permanently
\* skip an unpersisted transaction" (live.rs).
NothingSkipped ==
    \A i, j \in Positions :
        (i <= j /\ chain[i].ok /\ (Stored(j) \/ live.tx = j)) => Stored(i) \/ Unread(i)

\* No wake-up is lost: a process that waits for the socket with nothing buffered
\* has archived all that its subscription has announced or could not announce
\* because it came earlier (main.rs subscribes before it catches up).
NoLostWakeUp ==
    (phase = "Listening" /\ inbox = 0) =>
        \A t \in 1 .. notified : chain[t].ok => Stored(t)

\* Source rows are append-only: a row is never rewritten, not even by a replay
\* that knows more than it did (writer.rs: a conflicting row rolls back).
SourceAppendOnly ==
    [][\A t \in 1 .. MaxChain : Stored(t) => archive'[t] = archive[t]]_vars

\* The health endpoint does not answer ready while the process has no
\* subscription and waits to try again: mark_not_ready "removes readiness while
\* reconnecting or recovering from an error".
NotReadyWhileReconnecting == phase = "Reconnecting" => ~caughtUp

\* Every finalized successful transaction is archived in the end, whatever calls
\* failed and wherever the process stopped, once faults cease.
EveryTransactionArchived ==
    \A t \in 1 .. MaxChain : (t \in Positions /\ chain[t].ok) ~> Stored(t)

============================================================================
