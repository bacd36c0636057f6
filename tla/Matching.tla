------------------------------ MODULE Matching ------------------------------
(***************************************************************************)
(* The deterministic settlement arithmetic of the program: matching.rs,    *)
(* fees.rs and quote_amount of shared_trading.rs.  Amounts are raw atoms.  *)
(* The code computes in u128 and fails when a result does not fit u64; a   *)
(* failed instruction changes nothing, so the operators work on unbounded  *)
(* naturals and the models keep every amount far below 2^64.               *)
(***************************************************************************)
EXTENDS Integers

Sides == {"Bid", "Ask"}

\* slot ^ 1: the side a taker of side s trades against.
OppositeSide(s) == IF s = "Bid" THEN "Ask" ELSE "Bid"

\* A is a strictly better resting price than B on side s.
BetterPrice(s, a, b) == IF s = "Bid" THEN a > b ELSE a < b

\* prices_cross: the taker's limit accepts the resting maker price.
PricesCross(takerSide, limit, makerPrice) ==
    IF takerSide = "Bid" THEN limit >= makerPrice ELSE limit <= makerPrice

\* quote_amount: floor(price * quantity / 10^base_decimals).
QuoteAmount(scale, price, quantity) == (price * quantity) \div scale

\* Mutant: the price of one atom is rounded before it is multiplied.
LockPerAtom(scale, side, price, quantity) ==
    IF side = "Bid" THEN quantity * QuoteAmount(scale, price, 1) ELSE quantity

\* What a new order of this size has to lock: quote for a bid, base for an ask.
Collateral(scale, side, price, quantity) ==
    IF side = "Bid" THEN QuoteAmount(scale, price, quantity) ELSE quantity

BASIS_POINTS_DENOMINATOR == 10000
MAX_TAKER_FEE_BPS == 1000

\* calculate_taker_fee: the fee is rounded up, and is nothing at rate zero.
TakerFee(quote, bps) ==
    IF quote = 0 \/ bps = 0
    THEN 0
    ELSE (quote * bps + BASIS_POINTS_DENOMINATOR - 1) \div BASIS_POINTS_DENOMINATOR

(***************************************************************************)
(* calculate_settlement for one fill of `want` base atoms against a maker  *)
(* with `remaining` base atoms and `locked` collateral.  Settles holds     *)
(* exactly when the code returns Ok; Settlement is then its plan.          *)
(***************************************************************************)
FillBase(want, remaining) == IF want <= remaining THEN want ELSE remaining

\* Mutant: the last fill of a bid leaves its rounding remainder locked.
DebitWithoutRemainder(makerSide, base, quote, full, locked) ==
    IF makerSide = "Ask" THEN base ELSE quote

\* A finished bid gives up its whole lock, a partial fill what it cost.
MakerDebit(makerSide, base, quote, full, locked) ==
    CASE makerSide = "Ask"           -> base
      [] makerSide = "Bid" /\ full   -> locked
      [] makerSide = "Bid" /\ ~full  -> quote

Settlement(scale, makerSide, makerPrice, want, remaining, locked) ==
    LET base  == FillBase(want, remaining)
        quote == QuoteAmount(scale, makerPrice, base)
        full  == base = remaining
        debit == MakerDebit(makerSide, base, quote, full, locked)
    IN  [base         |-> base,
         quote        |-> quote,
         debit        |-> debit,
         refund       |-> IF makerSide = "Ask" THEN 0 ELSE debit - quote,
         fully_filled |-> full]

Settles(scale, takerSide, limit, makerSide, makerPrice, want, remaining, locked) ==
    LET plan == Settlement(scale, makerSide, makerPrice, want, remaining, locked)
    IN  /\ takerSide # makerSide
        /\ PricesCross(takerSide, limit, makerPrice)
        /\ plan.base > 0
        /\ plan.quote > 0
        /\ IF makerSide = "Ask"
           THEN locked = remaining
           ELSE plan.debit >= plan.quote /\ locked >= plan.debit
=============================================================================
