# Tidebook: specification and verification

Tidebook is an on-chain central limit order book for Solana (an Anchor program)
with a second kind of market, binary prediction questions; an indexer service
that archives the program's transactions in PostgreSQL; and a web client that
plans transactions. This directory models the parts whose correctness depends
on state and order, checks them with TLC on small instances, and proves the
main results with TLAPS for every value of the constants.

## 1. Inventory

| part | state it keeps | operations | how it meets the others |
|---|---|---|---|
| Matching and fee arithmetic (`matching.rs`, `fees.rs`) | none | crossing, fill size, settlement, taker fee | pure; called by every match |
| Shared trading core (`shared_trading.rs`, `state/shared.rs`, `instructions/shared_*.rs`) | book root, four lists of price levels, FIFO queues of order accounts, fees | place (append or new level), cancel, match, split, merge, redeem, create, close, withdraw fees | locks and moves claims of the wallet; reads the market's status |
| Shared asset wallet (`asset_wallet.rs`) | free and locked balance per owner and mint, one vault per mint | create, deposit, withdraw, migrate | one balance backs orders of all books |
| Prediction resolution (`prediction_resolution.rs`, `prediction_config.rs`) | status, phase, proposal, final outcome, the published clocks | create, open, freeze, propose, correct, advance (4 permissionless moves) | decides when trading ends and what contracts are worth |
| Administrators (`add_admin.rs`, `manage_admin.rs`, `remove_admin.rs`) | one record per administrator, the super-admin's key | add, disable, enable, remove | gate creators and resolvers |
| Switches (`pause.rs`, `unpause.rs`, `set_taker_fee.rs`) | market status, fee rate | pause, unpause, set rate | read by placement and matching |
| Indexer sync (`services/indexer`) | archive, backfill cursor, live checkpoint; a readiness bit | backfill, subscribe, recover, checkpoint | reads finalized history by RPC |
| Legacy spot book (`append_limit_order.rs`, `insert_limit_order.rs`, `cancel_limit_order.rs`, `match_limit_order.rs`, `deposit.rs`, `withdraw.rs`) | one market with its own vaults, ledgers, levels and orders | append, insert, cancel, match, deposit, withdraw, withdraw fees | free claims move to the wallet by migration |
| Legacy prediction book (`place_`, `append_`, `insert_`, `cancel_`, `match_prediction_order.rs`, `prediction_orders.rs`, `prediction_complete_set.rs`, deposits and withdrawals of collateral) | per question: four price lists, one position per trader, vault, fees | place, append, insert, cancel, match, split, merge, redeem, deposit, withdraw | the vault, the supplies and the reserve are those the shared complete sets work on; cash moves to the wallet by migration |
| Market creation and closure (`initialize.rs`, `close.rs`), metadata, faucet | root market, labels, cooldowns | create, close, label, mint | close needs every book closed and every vault empty |
| Web planners (`app/lib`) | none (snapshots) | plan matches and placements | send instructions that may be stale |
| Web interface, RPC proxy, scripts | display state | – | – |

What is hard about each part, and what makes it correct:

- **Trading core.** The lists are threaded through accounts that the *caller*
  supplies, so the program sees only a few of them per instruction and must
  reject every wrong one. Transactions are serial but planned concurrently:
  most plans are stale when they run. Correct means: the links always spell the
  sorted lists and queues, fills respect price and time, locks are exactly what
  open orders hold, the vault is exactly what is owed, nothing is stranded.
- **Legacy spot book.** The same index under other rules: an order may rest
  across the opposite best, the client names both neighbours of a new level, and
  a lock of nothing can be cancelled. The market account can be closed while
  ledgers and order accounts stay; correct means in addition that a closed market
  owes nothing and that migration moves a claim and its tokens together.
- **Legacy prediction book.** The same index once more, with a third way in (an
  empty side, a tail, two named neighbours), four lists in one root, and an
  exact-backing check on every maker. The question's vault, supplies and reserve
  are shared with the newer design: sets may be made with cash of a position,
  traded, and redeemed into the shared wallet. Correct means that both vaults and
  every contract stay backed, and that cancellation stays possible in every
  phase, because it is the only way out of an order.
- **Arithmetic.** Prices are per whole base unit, amounts are floored. Partial
  fills must never cost a maker more than was locked, and the last one returns
  the dust.
- **Complete sets.** A reserve must pay every outstanding contract whatever the
  outcome, also `Invalid`, which pays half to each side.
- **Resolution.** Two resolvers, windows on a clock, corrections, an activation
  and a timeout that anybody may send, administrators who come and go. Correct
  means that no proposal is made or replaced outside its window and that no
  silence locks collateral for ever; and the super-admin, who may himself be a
  market's resolver, can never be left without a record that lets him act.
- **Indexer.** Network calls, SQL transactions and checkpoints fail or stop
  between any two of them; pages arrive newest first; sockets lose messages.
  Correct means that no checkpoint ever passes a transaction that is not stored,
  and that every transaction is stored in the end.

`PROJECT.json` lists every component with its sources and status, and every
hazard with its line and the properties that would notice it.

## 2. Modules

| module | models | state and actions |
|---|---|---|
| `Matching` | `matching.rs`, `fees.rs`, `order_terms`, `quote_amount` | operators only: `QuoteAmount`, `Collateral`, `FillBase`, `Settlement`, `TakerFee` |
| `PredictionLifecycle` | the life of a market as trading sees it | the relation `CanMove` between phases |
| `SharedTrading` | the shared trading core and wallet | one action per instruction, see below |
| `SharedProperties` | – | its properties and the map to `PriorityBook` |
| `LegacySpot` | the legacy spot book, its ledgers and the market account | one action per instruction |
| `LegacyProperties` | – | its properties and its map to `PriorityBook` |
| `LegacyPrediction` | one question of the legacy design: book, positions, vault, complete sets of both designs, redemption | one action per instruction |
| `LegacyPredictionProperties` | – | its properties and its map to `PriorityBook` |
| `PriorityBook` | – (abstract specification) | per list a queue for each price: enter at the tail, leave from anywhere, fill the head of the best price; implemented by all three books |
| `Resolution` | resolution, terms and administrators of one question | one action per instruction, and `Tick` |
| `Indexer` | the sync process, its database rows and its socket | one action per call that can fail |
| `MCSharedSpot`, `MCSharedPrediction`, `MCSharedWallet`, `MCLegacySpot`, `MCLegacyPrediction`, `MCResolution` | – | the constants of the runs |
| `LinkedLists` | lists of accounts that name their neighbours | the operator `Walk` |
| `DataProofs` | – | theorems about the operators: amounts, sums, lists and queues |
| `SharedProofs`, `OrderProofs`, `CustodyProofs`, `LegacySpotProofs`, `LegacyPredictionProofs`, `ResolutionProofs`, `IndexerProofs` | – | theorems |

**SharedTrading.** `book` holds the `SharedBook` roots, `level` and `order` the
accounts by price and by id, `claim` the `AssetBalance`s and prediction
positions, `vault` and `wallet` the token accounts, `market` what trading reads
of a market. An instruction is atomic and a failed `require!` undoes it, so
every check is a conjunct of the action's guard. Accounts that the code compares
with a stored link are that link (any other account makes the instruction
fail); where the code only checks relations – the neighbour a new level is
inserted after – every choice of the client is tried. Order accounts outlive
their orders, as on chain: a book that is closed and created again starts from
id 1 and meets them. `AdvanceMarket` lets the market take any step of
`PredictionLifecycle!CanMove`; that the real clock and resolvers stay within it
is what the run `resolution` checks and `LifecycleImplemented` proves, so the
two modules compose through that relation.

**LegacySpot.** `market` is the `Market` account and `live` whether it exists;
`order`, `level`, `ledgers` with `balance`, `fees`, `vault` and `wallet` are the
accounts of one market. `migrated` and `asset_vault` are what
`migrate_spot_asset` added on the wallet's side; what happens to it there is
`SharedTrading`'s. Both neighbours a client may name for a new level are tried,
and so is leaving them out. `CloseMarket` deletes the market, its fee record and
its vaults and nothing else; `InitializeMarket` may create it again under the
same mints. Its ids then start at 1 and meet the old order accounts, whose
`init` fails: a market that placed an order once takes no new ones after being
recreated, and what the model checks is that the old accounts win. The faucet and the
shared book of the market are taken to be closed when the market is; both are
unused addresses here.

**LegacyPrediction.** `market` holds the phase, the supplies, the reserve and the
order counter of the question, `book` the four heads and the next id, `position`
the free and locked cash and contracts of a trader, `vault` the question's
tokens. `shared` and `asset_vault` are the free cash and the vault of the shared
wallet as far as this question moves them. Contracts are whole and prices are
atoms per contract, so nothing but the fee is rounded and the code insists on an
*exact* lock (`ExactlyBacked`). `SplitShared`, `MergeShared` and `Redeem` are the
instructions of the shared design on the same position accounts; `Redeem` is the
only redemption there is. `AdvanceMarket` takes any step of `CanMove`, as in
`SharedTrading`. A client names the two neighbours of a new price freely, `None`
included, and every choice is tried. The two designs keep separate orders, so
the shared book's orders on the same question are `SharedTrading`'s alone.

**PriorityBook** is parameterised by what keeps an order out of a list:
`Crosses` for the shared book and the legacy prediction book, which refuse an
order that could trade, and nothing for the legacy spot book, which lets it
rest. The prediction book maps every outcome to its own pair of lists, so the
refinement also says that YES orders never meet NO orders.

**Resolution.** Times are small integers up to `MaxTs`, which stands for
`i64::MAX`, so the overflow checks of the terms really bite. `Init` takes every
term record of `Terms` that `validate_prediction_market_config` accepts. `role`
are the records of the market's creator and of its fallback resolver, `super`
who holds the protocol's super-admin key: one of the two, or somebody else.
`DisableAdmin` refuses the super-admin's own record and `RemoveAdmin` asks for a
disabled one, and that is the whole of his protection.

**Indexer.** A transaction is its position in the finalized chain, which carries
its slot and whether it succeeded. `archive`, `backfill` and `live` are the SQL
rows and survive `Crash`; everything else is process memory. The gap between
`ProcessGapRecord` and `SaveLive` is the gap between two SQL commits. The order
of signatures as text, which breaks ties of a bootstrap, is a free choice.
`indexed` says whether the endpoint reports `transaction_index`, and may change.
`work` maps the transactions still to be applied to the form of their record;
`Due` takes the oldest, which is what reversing pages that are sorted inside
amounts to. Keeping it a function rather than a queue is what lets the proofs
do without induction over sequences.

Every mutant definition stands just before the definition it spoils and is used
by no specification.

## 3. Runs

| run | question | bounds | result |
|---|---|---|---|
| `spot_links` | do the links of a spot book always spell its lists, and does it implement `PriorityBook`? | 3 orders, 3 prices, 2 traders, quantities 1 and 2 | holds |
| `shared_money` | does custody equal claims plus fees, is a locked balance what the orders of *all* books lock, are orders funded, is history never overwritten? | 2 books on one quote balance, 1 order each, 1 decimal, prices 5 and 15, fee 10 %, quantities 1 to 3 | holds |
| `spot_exit` | can every open spot order be cancelled? | 3 orders, prices 5 and 10 | **violated**, see 5 |
| `prediction` | is the reserve exact, are supplies held, can open orders be recovered? | 2 orders, payout 10, quantities 1 and 2, fee 10 %, all outcomes | holds |
| `legacy_links` | does the legacy index describe its open orders, and does it implement `PriorityBook`? | 3 orders, 3 prices, 2 traders, quantities 1 and 2, no fee | holds |
| `legacy_money` | do vaults and locks match, can every order be cancelled, does a closed market owe nothing, is history kept? | 2 orders, 1 decimal, prices 5 and 15, fee 10 %, quantities 1 to 3, transfers of 1 and 3 | holds |
| `legacy_prediction_links` | does the index of a question describe its open orders, and does it implement `PriorityBook`? | 3 orders, 3 prices and quantities 1 and 2 on YES, one price and one contract on NO, 2 traders with 3 sets and 4 atoms each, no fee | holds |
| `legacy_prediction_money` | are both vaults and all contracts backed, is the reserve exact, are locks exact, can every order be cancelled in every phase? | 2 orders on either outcome, payout 4, price 2, quantities 1 and 2, fee 10 %, transfers of 2 | holds |
| `resolution` | are proposals and finals made in their windows; is the lifecycle implemented; is the super-admin never locked out; does a market with a deadline resolve? | 7 seconds, all combinations of optional terms, every choice of super-admin | holds |
| `indexer` | is nothing skipped, no wake-up lost, no row rewritten? | 4 transactions, pages of 1, cap 3, 2 faults, with and without indices | holds |
| `indexer_live` | is everything archived in the end? | 3 transactions, pages of 1, cap 4, 2 faults | holds |
| `indexer_readiness` | is readiness withdrawn while reconnecting? | 2 transactions, 1 fault | **violated**, see 5 |

Why the bounds are enough to be interesting:

- Three prices and three orders give a list a head, a middle and a tail, so a level
  is inserted and removed at each of them, and a queue all three places; two
  traders are a maker and a taker. A book may be closed and created again within
  these bounds, and in the spot books the seller has atoms enough to offer at
  every price.
- Priority between the orders of a question needs asks of both outcomes, several
  of them, fills in parts, and the tokens for all that. `legacy_prediction_links`
  therefore starts in `TradingInit`, a state in the middle of `Spec`'s runs: both
  traders have deposited sixteen atoms and made three sets, and the market has
  just opened, which `Spec` reaches by two positions created, eight deposits, one
  opening and four sets. From there only orders are placed, cancelled and
  matched; deposits, sets and the lifecycle touch no order, no level and no head.
  Three asks or three bids at up to three prices, queues of them, a fill that
  leaves one contract of two, and an order that would cross one of the other
  outcome are within its bounds (`FewNoOrders` is one of them: all the NO orders need
  is to be there). That both properties hold beyond them, from `Init` and with
  every action, is `IndexStays` and `PriorityKept`.
- With one decimal, one base atom at price 5 is worth half a quote atom and at
  price 15 one and a half: floors, dust, fills worth nothing (refused) and
  debits below the proportional lock all occur with quantities of at most 3.
- The legacy runs use the same ideas: three prices exercise each place of a
  list; a bid for 3 at price 5 locks 1 and is left with a lock of nothing by a
  fill of 2, a bid for 2 at 15 locks 3 and is all the buyer has. Within the
  bounds a market is closed after a fill and created again.
- In `shared_money` one order per book is enough for the questions about
  amounts: it is filled in parts, cancelled with a remainder and closed with, and
  the two books compete for one quote balance. What several orders do to each
  other is the question of `spot_links`.
- The payout of 10 is the smallest even one with a price strictly inside it
  that is a multiple of the tick, so `Invalid` pays 5 a side. In the legacy
  question the tick is 2 and the payout 4: a pair costs two thirds of a trader's
  tokens, so that a trader can make a set and still bid, and either trader can be
  maker and taker on either outcome. A partial fill needs two contracts, which
  two traders' sets or two of one trader provide.
- Both legacy-prediction configurations declare the traders symmetric: their
  tokens are equal, no definition names one of them, and the properties checked
  there are invariants and a safety refinement, for which symmetry is sound.
- Seven seconds leave room for close, earliest, the fallback window, a deadline
  and a maturity after each, and for terms that overflow.
- With pages of one signature every gap of two spans pages, and a cap of three
  pages is exceeded by a backfill and by a gap of three; one of the four transactions can
  fail on chain, all of a page can. Two faults are a crash during the recovery from a
  crash.

`CHECK_DEADLOCK FALSE` appears in the indexer's configurations, where a caught-up
process with the bounded chain finalized and announced waits for ever, and in
those of the legacy question, which after its resolution has nothing left to do
once every contract is redeemed and all cash is out (and whose run of orders alone
stops when its ids are used up). In every other run some step is always possible and TLC checks that.

**Fairness.** `resolution` assumes, for `OpenedMarketsResolve`, weak fairness of the clock, of
`Finalize` and of `TimeOutInvalid`: the last two take no authority in
`handle_advance_prediction`, so anyone who holds contracts can send them, and
they stay enabled until someone does. Nothing is assumed of resolvers, creator
or administrators. `indexer_live` assumes that the process takes its next step
when it has one (one serial task, restarted by `restart: unless-stopped` in
`compose.yaml` and by the Kubernetes deployment) and that a live subscription
delivers; the number of faults is bounded, so the property speaks of what
happens once they cease. It is checked where indices are known and gaps stay
below the page cap; outside, the code stops on purpose
(`AmbiguousSameSlot`, `PageLimitReached`, `TransactionConflict`).

## 4. Proofs

All are checked by `tlapm` down to the last leaf, from the assumptions on the
constants that the modules name (`SharedTradingAssumption`,
`LegacySpotAssumption`, `LegacyPredictionAssumption`, `ResolutionAssumption`,
`IndexerAssumption`).

- `DataProofs` holds what the other proofs need of the operators. Amounts:
  `FeeWithinQuote`, `SettlementKeepsFunded`, which rests on `FloorsSplit`
  (floors of parts never exceed the floor of the whole). Sums over a finite
  set, walks along links and ranks are folds and recursive functions, and the
  library's induction cannot be instantiated for them; each fact about them is
  proved by a smallest counterexample instead, a least number in a set of
  naturals: `SumRemove` and `SumOneChanged` (what changing one or two entries
  does to a sum), `SumExceeds`, `ChainWalk` (a walk along links that join
  neighbours by rank meets every member in rank order).
  Two layers serve the shared book and both legacy books. *Balances*: one change of one trader's balance
  moves one sum and one lock (`BalanceChanged`, `BalanceLocked`). *The index*:
  `IndexIs` says of the accounts of a book, whatever their records hold besides,
  that the links of an open order name the open orders of its level whose ids
  come just before and after its own, those of a level the next better and worse
  price that exists, and the root the ends. A step disturbs one level and its
  neighbours (`IndexStep`); that entering at the tail, leaving from any place, a
  partial fill and the insertion or closure of a price restore the neighbours
  is `OrderAppended`, `LevelInserted`, `OrderTaken` and `OrderReduced`.
  `QueueWalk` and `ListWalk` turn the local form into the walks the properties
  speak of, `QueueShape` and `ListShape` into what one order or level sees of its
  neighbours, which is what the handlers check. No bound on orders, prices or
  books is used.
- `SharedProofs!TypeCorrect`: `Spec => []TypeOK`. The work is in the naturals:
  every checked subtraction of the code appears as a difference whose sign
  has to follow from a guard. For a fill this needs that the taker fee is at
  most the gross quote, that the maker's debit is at most its lock, and that a
  bid taker who pays the maker's price and the fee can afford it.
- `OrderProofs`: `HistoryStands` and `OrdersStayFunded` follow from what one
  step may do to one order (`OrderStep`: nothing, create it, relink it, fill it
  in part or finish it), established once per action. `CountsHold` adds that
  the root counts its open orders, so that a book with one is not closed.
  `PricesStayLinked` and `QueuesStayLinked` speak of walks from a root, which
  one relinked account in the middle may change everywhere; they are not
  inductive. `LinksInv` is local: it is `DataProofs!IndexIs` of the book.
  `Cancelable` is all that `cancel_shared_order` and `remove_order` ask of an
  order: its account, its level and its head mark, its neighbours in the queue and
  those of its level in the list, the counter and the owner's lock.
  `OnlyDustIsStuck` joins types, counts, index, funded orders and exact locks
  (`CustodyProofs!LocksStayBacked`): an open order passes all of it unless its own
  lock or that of an order beside it in its queue is zero, for `remove_order`
  checks the neighbours with `order()` too. The dust of finding 1 is thus
  the only way to be stuck, for itself and for its neighbours, and
  `WholePricesRecoverable` says where there is none: where no price is below
  the scale, which holds of every question. Its hypothesis is about the
  constants; `spot_exit` shows the conclusion fails without it.
- `CustodyProofs`: `CustodyStaysBacked`, `SuppliesStayHeld`, `LocksStayBacked`
  and `ReserveStaysExact`. A step is one of a few kinds (a transfer between a
  wallet and a vault, a lock or its return, a fill that touches two traders,
  a set made or broken, a withdrawal of fees, or nothing that money knows of),
  and each kind changes one or two terms of the sums. `CustodyInv` adds
  `ClosedOwesNoFees`: closing a book forgets its fee counter, so the vault stays
  backed only because a book that owes fees is never closed. The reserve's two
  delicate steps are the moment of resolution, where equal supplies make either
  outcome, and the even split of `Invalid`, worth one full payout per pair
  (`OutcomeWorth`), and redemption, where a payout must split additively
  (`PayoutSplits`).
- `ResolutionProofs`: `TypeCorrect`, `ProposalsKeepTheirWindow`,
  `FinalOutcomesJustified` from one inductive invariant, the conjunction of the
  three; `ProposalsStand`, which asks the acting resolver's record to be `Active`
  too, and `LifecycleImplemented` are action properties proved from it. The window bounds must be in the invariant: a proposal that
  was not known to be made before `available` could mature in another phase.
  `SuperAdminNeverLockedOut` adds one fact to the types: a super-admin who is
  creator or fallback has an `Active` record, which only `DisableAdmin`'s
  refusal keeps true.
- `LegacySpotProofs` proves every invariant and the action property that the
  two legacy spot runs check. For `TypeCorrect` the guards that matter are those
  of a fill: the maker's debit is at most its lock (`MatchParts`), and the taker
  can afford price and fee. `HistoryStays` rests on `init`: a placement asks for
  an account that was never created. `BookInv` is the index in its local form,
  with what the root counts; `OrdersCounted` says in addition that there is no
  open order without a market, which `close_market` secures by asking for a
  count of zero and which a new market, whose heads are empty again, needs to
  start from (`NewMarketLinks`). `NextMoney` shows of every step that what a vault
  holds beyond the claims on it stays what it was, that the locks stand or one
  balance moves with one order's lock, and that nothing changes for a trader
  without a ledger (`MoneyStep`); for the last fill it needs that the debit is
  the whole lock (`LastFill`). It is true only where `MoneyAtRest` holds: a market
  that is created zeroes its fees and vaults and a ledger that is created its
  balances, which would forget money if there were any. `VaultsStayBacked` and
  `LocksStayBacked` are consequences, `OpenOrdersStayCancelable` joins index,
  counts and locks, and `ClosedStaysEmpty` turns empty vaults into empty ledgers
  (`NothingHeld`: naturals that add up to nothing) and a count of zero into absent
  levels.
- `LegacyPredictionProofs`: `TypeCorrect` again turns every checked subtraction
  into a difference whose sign follows from a guard; for a fill, four changes of
  two positions are affordable because the maker's lock is exactly what its
  remainder needs (`MatchParts`, `BackingSplits`) and the fee is at most the
  notional. `ReserveStaysExact` is the argument of `CustodyProofs` for the
  question both designs share: `PairWorth` at the moment of resolution,
  `WorthSplits` at a redemption. `OrdersStayBacked` shows that the exact lock
  survives any sequence of fills, since backing distributes over a split of the
  quantity; it is inductive given the types. `BookInv` is the index in its local
  form, with the count of open orders and the fact that ids are given away in
  order; `IndexStays` follows from it. `NextMoney` shows of every step that the
  difference between a vault and the claims on it stays what it was, and that the
  locks stand or one bucket moves with one order's lock (`MoneyStep`);
  `VaultsStayBacked`, `SuppliesStayHeld` and `LocksStayBacked` are its
  consequences. `OpenOrdersStayCancelable` joins all of them: the
  checks of a cancellation compare the order with its neighbours, its level,
  the levels around it, its lock and the counter, and each is a part of one of
  those invariants. `PriorityKept` is the refinement of `PriorityBook`. A queue as
  the walk spells it is the enumeration of its ids in order (`QueueEnumerates`),
  and there is only one (`EnumerationUnique`), so what a step does to the set
  of open ids at one price is what it does to the queue: an id above all others
  is an append (`OrderEnters`), one that closes a removal (`OrderLeaves`), the smallest one
  that shrinks or closes at the best price a fill. Every step is one of these or
  leaves all queues alone (`NextQueues`).
- `IndexerProofs`: `TypeCorrect`, `RowsStand` (a stored row changes only by an
  exact replay), `HistoryWhole` and `WakeUpsKept`. `NothingSkipped` alone is not
  inductive: between the calls the truth lies in process memory. `SyncInv` adds
  four facts. `BackfillFirst`: nothing is live before the backfill is completed.
  `PageSound`: the page in hand lies before the durable cursor and leaves no
  successful transaction from its own cursor on that is neither stored nor in
  the work. `GapSound`: nor does what a recovery has collected above its cursor,
  and in the end above the checkpoint; a record whose checkpoint is being saved
  is stored. The work is applied oldest first, so no step leaves a hole behind
  it. `LiveStored`: the live checkpoint
  names a stored row. That a page of failed executions still moves the cursor is
  `PageBounds`, a fact about intervals. `WakeUpsKept` adds `Announced`: what the
  subscription has announced is stored, in the work, still to be collected, or
  has a wake-up in the buffer.

About constants the proofs assume what deployment gives: finitely many traders,
books and prices (accounts on a chain), fee and payout bounds the code checks, and
that a position account belongs to one side of one question (its seeds).

Only model-checked: that the shared book and the legacy spot book implement
`PriorityBook` (`PriceTimePriority` of `SharedProperties` and `LegacyProperties`),
for which the lemmas behind `PriorityKept` wait in `DataProofs`; and liveness
(`OpenedMarketsResolve`, `EveryTransactionArchived`), which is out of TLAPS' reach
here. Every invariant that a run expected to pass checks is proved, and every
other action property and refinement.

## 5. Findings

1. **An open spot bid that cannot be cancelled or filled** (`spot_exit`).
   `rules::order` requires `locked_collateral > 0`
   (`shared_trading.rs:324`). A bid for 3 atoms at price 5 and scale 10 locks
   1 quote atom; a fill of 2 atoms costs 1; the remaining atom is worth 0 and
   the order stays `Open` with nothing locked. Both cancel and match reject it
   for ever, it keeps the head of its queue, and `open_order_count` never
   returns to zero. The comment of `handle_cancel_shared_order` and
   `docs/architecture.md:264` promise otherwise. Prediction books are not
   affected: their scale is 1, so nothing rounds (`prediction`). Nor are the legacy
   books: the spot one asks no such thing of a cancellation (`legacy_money`,
   `OpenOrdersCancelable`), the prediction one never rounds
   (`legacy_prediction_money`, `OrdersStayBacked`).
2. **Ready while reconnecting** (`indexer_readiness`). `main` sleeps for the
   back-off delay before the top of the loop calls `mark_not_ready`, so the
   endpoint answers ready for up to 30 seconds without a subscription;
   `health.rs:56` says that readiness is removed while reconnecting.

## 6. Not modelled

- Overflow of `u64`: balances and amounts are unbounded naturals; the code's
  checked arithmetic fails the instruction instead. Time in `Resolution` is
  bounded, because there the bounds are part of the rules.
- Tokens sent to a vault by a plain transfer. They are nobody's claim; they would
  only keep a legacy market from closing.
- Rent, account sizes, signatures and address derivation: an account that is not
  the one the seeds derive fails the instruction.
- The orders of the two designs on one question at the same time. They share the
  question's market and position accounts but lock through different
  instructions; each module has the orders of one design and the complete sets
  and redemption of both, or (`SharedTrading`) of the shared one.
- A withdrawal of legacy prediction fees: they accrue, and no instruction takes
  them out (`docs/prediction-market-design.md:911`, `docs/architecture.md:380`).
- One view of the chain: the endpoint that answers RPC pages has seen what the
  subscription announces. Two nodes that lag each other could delay an archive
  until the next wake-up.
- One indexer per database, as `services/indexer/README.md` requires.
- Event bytes and their decoder (`decoder.rs`): stateless between transactions and
  a matter of layout; what the sync process needs of it, that a decoding either
  succeeds with its transaction or fails the call, is in `Indexer`.
- The web planners: a plan is a function of a snapshot. When its transactions
  execute the snapshot may be stale, and the program then takes or refuses each
  instruction by the guards that the trading modules model; those modules try
  every input a stale or a fresh plan can lead to. The planners' own arithmetic
  is display and estimation.
- `set_taker_fee`, metadata, the faucet, entry points, error texts, the web
  interface and scripts: no state that another part's correctness rests on. The
  fee is any legal rate at every fill.

## 7. Plan

What is left, the most valuable first:

1. The shared book and the legacy spot book implement `PriorityBook`, by the
   lemmas of `DataProofs` that prove it of the legacy prediction book.
2. `InvocationLog`: `extract_program_data`'s invocation stack against a reference
   definition over bounded logs; `MatchPlan`: the web client's matching plan
   against the program's matcher on snapshots.
