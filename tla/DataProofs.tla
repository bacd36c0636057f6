------------------------------ MODULE DataProofs ------------------------------
(***************************************************************************)
(* What the data of the models guarantee, whatever the program does with   *)
(* them: settlement for every price, quantity, scale and fee rate, sums of *)
(* balances over every finite set of accounts, sorted lists linked in both *)
(* directions, and the sequences such lists are.                           *)
(***************************************************************************)
EXTENDS Matching, LinkedLists, Functions, FiniteSetTheorems, Sequences, SequenceTheorems,
        TLAPS

\* A quote amount is a natural number.
LEMMA QuoteAmountType ==
    ASSUME NEW s \in Nat \ {0}, NEW p \in Nat, NEW q \in Nat
    PROVE  QuoteAmount(s, p, q) \in Nat
<1>1. p * q \in Nat
  OBVIOUS
<1> QED
  BY <1>1 DEF QuoteAmount

\* Rounding down is kind to the maker: the two parts of a quantity never cost
\* more than the whole (quote_amount before and after a partial fill).
LEMMA FloorsSplit ==
    ASSUME NEW s \in Nat \ {0}, NEW p \in Nat, NEW r \in Nat, NEW f \in Nat, f <= r
    PROVE  QuoteAmount(s, p, f) + QuoteAmount(s, p, r - f) <= QuoteAmount(s, p, r)
<1> DEFINE x == (p * f) \div s
           y == (p * (r - f)) \div s
           z == (p * r) \div s
<1>1. p * f + p * (r - f) = p * r /\ p * f \in Nat /\ p * (r - f) \in Nat /\ p * r \in Nat
  OBVIOUS
<1>2. x \in Nat /\ y \in Nat /\ z \in Nat
  BY <1>1
<1>3. s * x <= p * f /\ s * y <= p * (r - f) /\ p * r < s * (z + 1)
  BY <1>1
<1> HIDE DEF x, y, z
<1>4. s * (x + y) < s * (z + 1)
  BY <1>1, <1>2, <1>3
<1>5. x + y < z + 1
  BY <1>2, <1>4
<1> QED
  BY <1>2, <1>5 DEF QuoteAmount, x, y, z

\* The taker's fee is rounded up, and still never exceeds what is traded, so the
\* checked subtraction of an ask taker's proceeds cannot fail.
THEOREM FeeWithinQuote ==
    ASSUME NEW q \in Nat, NEW bps \in 0 .. MAX_TAKER_FEE_BPS
    PROVE  TakerFee(q, bps) \in 0 .. q
<1> DEFINE n == q * bps + 9999
<1>1. n \in Nat /\ n <= q * 1000 + 9999
  <2>1. q * bps <= q * 1000 /\ q * bps \in Nat
    BY DEF MAX_TAKER_FEE_BPS
  <2> QED
    BY <2>1
<1> HIDE DEF n
<1>2. q # 0 => n < 10000 * (q + 1)
  BY <1>1
<1>3. n \div 10000 \in Nat /\ (q # 0 => n \div 10000 < q + 1)
  BY <1>1, <1>2
<1>4. q * bps + 10000 - 1 = n
  BY DEF n, MAX_TAKER_FEE_BPS
<1> QED
  BY <1>3, <1>4 DEF TakerFee, BASIS_POINTS_DENOMINATOR

\* What a maker's order has to hold for quantity r.
Funded(s, side, p, r, locked) ==
    IF side = "Bid" THEN locked >= QuoteAmount(s, p, r) ELSE locked = r

\* One settlement of a funded maker: the amounts are naturals within what the
\* order has, the refund completes the payment, and what is left is funded
\* again (calculate_settlement with the caller's two subtractions).
THEOREM SettlementKeepsFunded ==
    ASSUME NEW s \in Nat \ {0}, NEW side \in Sides, NEW p \in Nat,
           NEW want \in Nat \ {0}, NEW r \in Nat \ {0}, NEW locked \in Nat,
           Funded(s, side, p, r, locked)
    PROVE  LET plan == Settlement(s, side, p, want, r, locked)
           IN  /\ plan.base \in 1 .. r
               /\ plan.quote \in Nat
               /\ plan.debit \in 0 .. locked
               /\ plan.refund \in Nat
               /\ side = "Bid" => plan.debit = plan.quote + plan.refund
               /\ side = "Ask" => plan.debit = plan.base
               /\ r - plan.base = 0 => locked - plan.debit = 0
               /\ Funded(s, side, p, r - plan.base, locked - plan.debit)
<1> DEFINE plan == Settlement(s, side, p, want, r, locked)
           B == plan.base
           Q == plan.quote
           D == plan.debit
           R == plan.refund
           before == QuoteAmount(s, p, r)
           after  == QuoteAmount(s, p, r - B)
<1>1. /\ B = FillBase(want, r)
      /\ Q = QuoteAmount(s, p, B)
      /\ side = "Ask" => D = B /\ R = 0
      /\ side = "Bid" => /\ D = IF B = r THEN locked ELSE Q
                         /\ R = D - Q
  BY DEF Settlement, MakerDebit, Sides
<1>2. B \in 1 .. r /\ B \in Nat /\ r - B \in Nat
  BY <1>1 DEF FillBase
<1>3. Q \in Nat /\ after \in Nat /\ before \in Nat
  BY <1>1, <1>2, QuoteAmountType
<1>4. Q + after <= before
  BY <1>1, <1>2, FloorsSplit
<1>5. side = "Bid" => locked >= before
  BY DEF Funded
<1>6. side = "Ask" => locked = r
  BY DEF Funded, Sides
<1>7. (r - B = 0) <=> (B = r)
  BY <1>2
<1>8. B = r => after = 0
  BY <1>7 DEF QuoteAmount
<1> HIDE DEF plan, B, Q, D, R, before, after
<1>9. /\ D \in 0 .. locked
      /\ R \in Nat
      /\ side = "Bid" => D = Q + R
      /\ side = "Ask" => D = B
      /\ B = r => locked - D = 0
      /\ side = "Bid" => locked - D >= after
      /\ side = "Ask" => locked - D = r - B
  BY <1>1, <1>2, <1>3, <1>4, <1>5, <1>6, <1>8 DEF Sides
<1>10. Funded(s, side, p, r - B, locked - D)
  BY <1>9 DEF Funded, Sides, after
<1> QED
  BY <1>2, <1>3, <1>7, <1>9, <1>10 DEF plan, B, Q, D, R

-----------------------------------------------------------------------------
(* Finite sums.  SumFunction is a fold whose order CHOOSE decides; what it *)
(* computes follows by induction over finite sets, each time as the        *)
(* absence of a smallest counterexample.                                   *)

\* g gives every subset of S its sum of f, in the order CHOOSE takes elements.
Sums(f, S, g) ==
    g = [s \in SUBSET S |->
            IF s = {} THEN 0
            ELSE f[CHOOSE x \in s : TRUE] + g[s \ {CHOOSE x \in s : TRUE}]]

\* Among subsets of a finite set that are bad there is one without a bad part.
LEMMA SmallestSubset ==
    ASSUME NEW S, IsFiniteSet(S), NEW Bad \in SUBSET SUBSET S, Bad # {}
    PROVE  \E m \in Bad : \A s \in SUBSET m : s # m => s \notin Bad
<1>1. SUBSET S = FiniteSubsetsOf(S)
  BY FS_FiniteSubsetsOfFinite, Zenon
<1>2. IsWellFoundedOn(StrictSubsetOrdering(S), SUBSET S)
  BY <1>1, FS_StrictSubsetOrderingWellFounded, Zenon
<1>3. PICK m \in Bad : \A y \in Bad : <<y, m>> \notin StrictSubsetOrdering(S)
  BY <1>2, WFMin, Zenon
<1>4. QED
  BY <1>3 DEF StrictSubsetOrdering

\* The fold of the library is the recursion Sums.
LEMMA SumIsRecursive ==
    ASSUME NEW f, NEW S
    PROVE  SumFunctionOnSet(f, S) = (CHOOSE g : Sums(f, S, g))[S]
BY DEF SumFunctionOnSet, FoldFunctionOnSet, MapThenFoldSet, Sums

\* The element the fold takes next is one of the set.
LEMMA ChosenElement ==
    ASSUME NEW s, s # {}
    PROVE  (CHOOSE x \in s : TRUE) \in s
OBVIOUS

\* The recursion has at most one solution, whatever set it is started on.
LEMMA SumsAgree ==
    ASSUME NEW f, NEW S, IsFiniteSet(S), NEW T \in SUBSET S, NEW g, NEW h,
           Sums(f, S, g), Sums(f, T, h)
    PROVE  \A s \in SUBSET T : g[s] = h[s]
<1> DEFINE Bad == {s \in SUBSET T : g[s] # h[s]}
<1> SUFFICES ASSUME Bad # {} PROVE FALSE
  OBVIOUS
<1>1. PICK m \in Bad : \A s \in SUBSET m : s # m => s \notin Bad
  <2>1. Bad \in SUBSET SUBSET S
    OBVIOUS
  <2> HIDE DEF Bad
  <2>2. QED
    BY <2>1, SmallestSubset
<1>2. m \in SUBSET T /\ m \in SUBSET S
  OBVIOUS
<1> DEFINE x == CHOOSE y \in m : TRUE
<1>3. CASE m = {}
  <2>1. g[m] = 0
    BY <1>2, <1>3 DEF Sums
  <2>2. h[m] = 0
    BY <1>2, <1>3 DEF Sums
  <2>3. QED
    BY <2>1, <2>2
<1>4. CASE m # {}
  <2>1. x \in m
    BY <1>4, ChosenElement
  <2>2. g[m] = f[x] + g[m \ {x}]
    BY <1>2, <1>4 DEF Sums
  <2>3. h[m] = f[x] + h[m \ {x}]
    BY <1>2, <1>4 DEF Sums
  <2>4. m \ {x} \in SUBSET m /\ m \ {x} # m /\ m \ {x} \in SUBSET T
    BY <1>2, <2>1
  <2>5. g[m \ {x}] = h[m \ {x}]
    BY <1>1, <2>4
  <2>6. QED
    BY <2>2, <2>3, <2>5
<1>5. QED
  BY <1>3, <1>4

\* The recursion has a solution.
LEMMA SumsExist ==
    ASSUME NEW f, NEW S, IsFiniteSet(S)
    PROVE  \E g : Sums(f, S, g)
<1> DEFINE Bad == {s \in SUBSET S : ~ \E g : Sums(f, s, g)}
<1> SUFFICES ASSUME Bad # {} PROVE FALSE
  OBVIOUS
<1>1. PICK m \in Bad : \A s \in SUBSET m : s # m => s \notin Bad
  <2>1. Bad \in SUBSET SUBSET S
    OBVIOUS
  <2> HIDE DEF Bad
  <2>2. QED
    BY <2>1, SmallestSubset
<1>2. m \in SUBSET S /\ IsFiniteSet(m)
  <2>1. m \in SUBSET S
    OBVIOUS
  <2>2. QED
    BY <2>1, FS_Subset
<1> DEFINE G(s) == CHOOSE g : Sums(f, s, g)
           x(s) == CHOOSE y \in s : TRUE
           new  == [s \in SUBSET m |->
                       IF s = {} THEN 0 ELSE f[x(s)] + G(s \ {x(s)})[s \ {x(s)}]]
<1>3. ASSUME NEW s \in SUBSET m, s # m
      PROVE  Sums(f, s, G(s)) /\ IsFiniteSet(s)
  <2>1. \E g : Sums(f, s, g)
    BY <1>1, <1>2, <1>3
  <2>2. QED
    BY <2>1, <1>2, FS_Subset
<1>4. ASSUME NEW s \in SUBSET m, s # m
      PROVE  new[s] = G(s)[s]
  <2>1. CASE s = {}
    <3>1. G(s)[s] = 0
      <4> HIDE DEF G
      <4>1. Sums(f, s, G(s))
        BY <1>3, <1>4
      <4>2. QED
        BY <4>1, <2>1 DEF Sums
    <3>2. QED
      BY <3>1, <2>1
  <2>2. CASE s # {}
    <3> DEFINE r == s \ {x(s)}
    <3>1. x(s) \in s
      BY <2>2, ChosenElement
    <3>2. r \in SUBSET s /\ r # m /\ r \in SUBSET m
      BY <1>4, <3>1
    <3>3. G(s)[s] = f[x(s)] + G(s)[r]
      <4> HIDE DEF G
      <4>1. Sums(f, s, G(s))
        BY <1>3, <1>4
      <4>2. QED
        BY <4>1, <2>2 DEF Sums
    <3>4. G(s)[r] = G(r)[r]
      <4> HIDE DEF G
      <4>1. Sums(f, s, G(s)) /\ Sums(f, r, G(r)) /\ IsFiniteSet(s)
        BY <1>3, <1>4, <3>2
      <4> HIDE DEF r
      <4>2. QED
        BY <4>1, <3>2, SumsAgree
    <3>5. new[s] = f[x(s)] + G(r)[r]
      BY <1>4, <2>2
    <3>6. QED
      BY <3>3, <3>4, <3>5
  <2>3. QED
    BY <2>1, <2>2
<1>5. Sums(f, m, new)
  <2>1. ASSUME NEW s \in SUBSET m, s # {}
        PROVE  new[s] = f[x(s)] + new[s \ {x(s)}]
    <3> DEFINE r == s \ {x(s)}
    <3>1. x(s) \in s
      BY <2>1, ChosenElement
    <3>2. r \in SUBSET m /\ r # m
      BY <3>1
    <3>3. new[r] = G(r)[r]
      BY <1>4, <3>2
    <3>4. new[s] = f[x(s)] + G(r)[r]
      BY <2>1
    <3>5. QED
      BY <3>3, <3>4
  <2>2. new[{}] = 0
    OBVIOUS
  <2>3. new = [s \in SUBSET m |-> IF s = {} THEN 0 ELSE f[x(s)] + new[s \ {x(s)}]]
    <3>1. \A s \in SUBSET m : new[s] = IF s = {} THEN 0 ELSE f[x(s)] + new[s \ {x(s)}]
      <4> TAKE s \in SUBSET m
      <4>1. CASE s = {}
        BY <2>2, <4>1
      <4>2. CASE s # {}
        <5> HIDE DEF new
        <5>1. QED
          BY <2>1, <4>2
      <4>3. QED
        BY <4>1, <4>2
    <3>2. new = [s \in SUBSET m |-> new[s]]
      OBVIOUS
    <3> HIDE DEF new
    <3>3. QED
      BY <3>1, <3>2
  <2>4. QED
    BY <2>3 DEF Sums
<1>6. QED
  BY <1>1, <1>5

\* A solution gives the sum over every subset.
LEMMA SumsAreSums ==
    ASSUME NEW f, NEW S, IsFiniteSet(S), NEW g, Sums(f, S, g)
    PROVE  \A s \in SUBSET S : g[s] = SumFunctionOnSet(f, s)
<1> TAKE s \in SUBSET S
<1>1. IsFiniteSet(s)
  BY FS_Subset
<1>2. PICK h : Sums(f, s, h) /\ SumFunctionOnSet(f, s) = h[s]
  <2>1. \E h : Sums(f, s, h)
    BY <1>1, SumsExist
  <2>2. Sums(f, s, CHOOSE h : Sums(f, s, h))
    BY <2>1
  <2>3. QED
    BY <2>2, SumIsRecursive
<1>3. QED
  BY <1>2, SumsAgree

\* Nothing sums to zero.
LEMMA SumEmpty == \A f : SumFunctionOnSet(f, {}) = 0
<1> TAKE f
<1>1. PICK g : Sums(f, {}, g)
  BY SumsExist, FS_EmptySet
<1>2. g[{}] = 0
  BY <1>1 DEF Sums
<1>3. QED
  BY <1>1, <1>2, SumsAreSums, FS_EmptySet

\* A sum is some element's value and the sum over the others.
LEMMA SumChosen ==
    ASSUME NEW f, NEW S, IsFiniteSet(S), S # {}
    PROVE  \E x \in S :
              SumFunctionOnSet(f, S) = f[x] + SumFunctionOnSet(f, S \ {x})
<1>1. PICK g : Sums(f, S, g)
  BY SumsExist
<1> DEFINE x == CHOOSE y \in S : TRUE
<1>2. x \in S
  BY ChosenElement
<1>3. g[S] = f[x] + g[S \ {x}]
  BY <1>1 DEF Sums
<1>4. g[S] = SumFunctionOnSet(f, S) /\ g[S \ {x}] = SumFunctionOnSet(f, S \ {x})
  <2>1. S \in SUBSET S /\ S \ {x} \in SUBSET S
    OBVIOUS
  <2>2. \A s \in SUBSET S : g[s] = SumFunctionOnSet(f, s)
    BY <1>1, SumsAreSums
  <2>3. QED
    BY <2>1, <2>2
<1>5. QED
  BY <1>2, <1>3, <1>4

\* Integers sum to an integer.
LEMMA SumType ==
    ASSUME NEW f, NEW S, IsFiniteSet(S), \A x \in S : f[x] \in Int
    PROVE  SumFunctionOnSet(f, S) \in Int
<1> DEFINE Bad == {s \in SUBSET S : SumFunctionOnSet(f, s) \notin Int}
<1> SUFFICES ASSUME Bad # {} PROVE FALSE
  OBVIOUS
<1>1. PICK m \in Bad : \A s \in SUBSET m : s # m => s \notin Bad
  <2>1. Bad \in SUBSET SUBSET S
    OBVIOUS
  <2> HIDE DEF Bad
  <2>2. QED
    BY <2>1, SmallestSubset
<1>2. m \in SUBSET S /\ SumFunctionOnSet(f, m) \notin Int
  OBVIOUS
<1>3. IsFiniteSet(m)
  BY <1>2, FS_Subset
<1>4. m # {}
  BY <1>2, SumEmpty
<1>5. PICK x \in m : SumFunctionOnSet(f, m) = f[x] + SumFunctionOnSet(f, m \ {x})
  BY <1>3, <1>4, SumChosen
<1>6. SumFunctionOnSet(f, m \ {x}) \in Int
  BY <1>1, <1>2
<1>7. QED
  BY <1>2, <1>5, <1>6

\* Any element may be taken out first.
LEMMA SumRemove ==
    ASSUME NEW f, NEW S, IsFiniteSet(S), \A x \in S : f[x] \in Int
    PROVE  \A x \in S :
              SumFunctionOnSet(f, S) = f[x] + SumFunctionOnSet(f, S \ {x})
<1> DEFINE Bad == {s \in SUBSET S : \E x \in s :
                      SumFunctionOnSet(f, s) # f[x] + SumFunctionOnSet(f, s \ {x})}
<1> SUFFICES ASSUME Bad # {} PROVE FALSE
  OBVIOUS
<1>1. PICK m \in Bad : \A s \in SUBSET m : s # m => s \notin Bad
  <2>1. Bad \in SUBSET SUBSET S
    OBVIOUS
  <2> HIDE DEF Bad
  <2>2. QED
    BY <2>1, SmallestSubset
<1>2. m \in SUBSET S
  OBVIOUS
<1>3. PICK x \in m : SumFunctionOnSet(f, m) # f[x] + SumFunctionOnSet(f, m \ {x})
  OBVIOUS
<1>4. IsFiniteSet(m)
  BY <1>2, FS_Subset
<1>5. PICK y \in m : SumFunctionOnSet(f, m) = f[y] + SumFunctionOnSet(f, m \ {y})
  BY <1>3, <1>4, SumChosen
<1>6. x # y
  BY <1>3, <1>5
<1>7. SumFunctionOnSet(f, m \ {y}) = f[x] + SumFunctionOnSet(f, (m \ {y}) \ {x})
  <2>1. m \ {y} \in SUBSET m /\ m \ {y} # m /\ x \in m \ {y} /\ m \ {y} \in SUBSET S
    BY <1>2, <1>6
  <2>2. m \ {y} \notin Bad
    BY <1>1, <2>1
  <2>3. QED
    BY <2>1, <2>2
<1>8. SumFunctionOnSet(f, m \ {x}) = f[y] + SumFunctionOnSet(f, (m \ {x}) \ {y})
  <2>1. m \ {x} \in SUBSET m /\ m \ {x} # m /\ y \in m \ {x} /\ m \ {x} \in SUBSET S
    BY <1>2, <1>6
  <2>2. m \ {x} \notin Bad
    BY <1>1, <2>1
  <2>3. QED
    BY <2>1, <2>2
<1>9. (m \ {x}) \ {y} = (m \ {y}) \ {x}
  OBVIOUS
<1>10. SumFunctionOnSet(f, (m \ {y}) \ {x}) \in Int
  <2>1. (m \ {y}) \ {x} \in SUBSET S
    BY <1>2
  <2>2. QED
    BY <2>1, FS_Subset, SumType
<1>11. f[x] \in Int /\ f[y] \in Int
  BY <1>2
<1>12. SumFunctionOnSet(f, m \ {x}) = f[y] + SumFunctionOnSet(f, (m \ {y}) \ {x})
  BY <1>8, <1>9, Zenon
<1> DEFINE all   == SumFunctionOnSet(f, m)
           rest  == SumFunctionOnSet(f, (m \ {y}) \ {x})
           lessX == SumFunctionOnSet(f, m \ {x})
           lessY == SumFunctionOnSet(f, m \ {y})
<1>13. /\ all = f[y] + lessY /\ lessY = f[x] + rest /\ lessX = f[y] + rest
       /\ rest \in Int /\ all # f[x] + lessX
  BY <1>3, <1>5, <1>7, <1>10, <1>12
<1> HIDE DEF all, rest, lessX, lessY
<1>14. QED
  BY <1>11, <1>13

\* A sum depends on the values summed only.
LEMMA SumSame ==
    ASSUME NEW f, NEW g, NEW S, IsFiniteSet(S),
           \A x \in S : f[x] \in Int /\ g[x] = f[x]
    PROVE  SumFunctionOnSet(g, S) = SumFunctionOnSet(f, S)
<1> DEFINE Bad == {s \in SUBSET S : SumFunctionOnSet(g, s) # SumFunctionOnSet(f, s)}
<1> SUFFICES ASSUME Bad # {} PROVE FALSE
  OBVIOUS
<1>1. PICK m \in Bad : \A s \in SUBSET m : s # m => s \notin Bad
  <2>1. Bad \in SUBSET SUBSET S
    OBVIOUS
  <2> HIDE DEF Bad
  <2>2. QED
    BY <2>1, SmallestSubset
<1>2. m \in SUBSET S /\ SumFunctionOnSet(g, m) # SumFunctionOnSet(f, m)
  OBVIOUS
<1>3. IsFiniteSet(m)
  BY <1>2, FS_Subset
<1>4. m # {}
  BY <1>2, SumEmpty
<1>5. PICK x \in m : SumFunctionOnSet(g, m) = g[x] + SumFunctionOnSet(g, m \ {x})
  BY <1>3, <1>4, SumChosen
<1>6. SumFunctionOnSet(f, m) = f[x] + SumFunctionOnSet(f, m \ {x})
  <2>1. \A z \in m : f[z] \in Int
    BY <1>2
  <2>2. QED
    BY <1>3, <2>1, SumRemove
<1>7. SumFunctionOnSet(g, m \ {x}) = SumFunctionOnSet(f, m \ {x})
  BY <1>1, <1>2
<1>8. QED
  BY <1>2, <1>5, <1>6, <1>7

\* What a change of one value does to the sum.
LEMMA SumChange ==
    ASSUME NEW f, NEW g, NEW S, IsFiniteSet(S), NEW x \in S,
           \A y \in S : f[y] \in Int, g[x] \in Int,
           \A y \in S \ {x} : g[y] = f[y]
    PROVE  SumFunctionOnSet(g, S) = SumFunctionOnSet(f, S) + (g[x] - f[x])
<1>1. SumFunctionOnSet(f, S) = f[x] + SumFunctionOnSet(f, S \ {x})
  BY SumRemove
<1>2. SumFunctionOnSet(g, S) = g[x] + SumFunctionOnSet(g, S \ {x})
  <2>1. \A y \in S : g[y] \in Int
    OBVIOUS
  <2>2. QED
    BY <2>1, SumRemove
<1>3. IsFiniteSet(S \ {x})
  BY FS_Subset
<1>4. SumFunctionOnSet(g, S \ {x}) = SumFunctionOnSet(f, S \ {x})
  BY <1>3, SumSame
<1>5. SumFunctionOnSet(f, S \ {x}) \in Int
  BY <1>3, SumType
<1>6. QED
  BY <1>1, <1>2, <1>4, <1>5

\* Zeros sum to zero.
LEMMA SumZero ==
    ASSUME NEW f, NEW S, IsFiniteSet(S), \A x \in S : f[x] = 0
    PROVE  SumFunctionOnSet(f, S) = 0
<1> DEFINE Bad == {s \in SUBSET S : SumFunctionOnSet(f, s) # 0}
<1> SUFFICES ASSUME Bad # {} PROVE FALSE
  OBVIOUS
<1>1. PICK m \in Bad : \A s \in SUBSET m : s # m => s \notin Bad
  <2>1. Bad \in SUBSET SUBSET S
    OBVIOUS
  <2> HIDE DEF Bad
  <2>2. QED
    BY <2>1, SmallestSubset
<1>2. m \in SUBSET S /\ SumFunctionOnSet(f, m) # 0
  OBVIOUS
<1>3. IsFiniteSet(m) /\ m # {}
  BY <1>2, FS_Subset, SumEmpty
<1>4. PICK x \in m : SumFunctionOnSet(f, m) = f[x] + SumFunctionOnSet(f, m \ {x})
  BY <1>3, SumChosen
<1>5. f[x] = 0 /\ SumFunctionOnSet(f, m \ {x}) = 0
  BY <1>1, <1>2
<1>6. QED
  BY <1>2, <1>4, <1>5

\* The sum of a function: adding up the accounts of a finite set.
LEMMA SumFunctionType ==
    ASSUME NEW S, IsFiniteSet(S), NEW f \in [S -> Int]
    PROVE  /\ SumFunction(f) = SumFunctionOnSet(f, S)
           /\ SumFunction(f) \in Int
<1>1. DOMAIN f = S
  OBVIOUS
<1>2. SumFunction(f) = SumFunctionOnSet(f, S)
  BY <1>1 DEF SumFunction
<1> QED
  BY <1>2, SumType

\* The balance of one account changes the sum by as much.
LEMMA SumOneChanged ==
    ASSUME NEW S, IsFiniteSet(S)
    PROVE  \A f, g \in [S -> Int], x \in S :
              (\A y \in S : y # x => g[y] = f[y])
                  => SumFunction(g) = SumFunction(f) + (g[x] - f[x])
<1> TAKE f, g \in [S -> Int], x \in S
<1> HAVE \A y \in S : y # x => g[y] = f[y]
<1>1. SumFunctionOnSet(g, S) = SumFunctionOnSet(f, S) + (g[x] - f[x])
  <2>1. /\ \A y \in S : f[y] \in Int
        /\ g[x] \in Int
        /\ \A y \in S \ {x} : g[y] = f[y]
    OBVIOUS
  <2> QED
    BY <2>1, SumChange
<1> QED
  BY <1>1, SumFunctionType

\* Accounts of nothing hold nothing.
LEMMA SumAllZero ==
    ASSUME NEW S, IsFiniteSet(S), NEW f \in [S -> Int], \A x \in S : f[x] = 0
    PROVE  SumFunction(f) = 0
BY SumFunctionType, SumZero

\* One summand moved by d.
LEMMA SumMoved ==
    ASSUME NEW S, IsFiniteSet(S), NEW f \in [S -> Int], NEW g \in [S -> Int],
           NEW x \in S, NEW d \in Int, g[x] = f[x] + d,
           \A y \in S : y # x => g[y] = f[y]
    PROVE  SumFunction(g) = SumFunction(f) + d
<1>1. SumFunction(g) = SumFunction(f) + (g[x] - f[x])
  BY SumOneChanged
<1>2. f[x] \in Int
  OBVIOUS
<1>3. g[x] - f[x] = d
  BY <1>2
<1> QED
  BY <1>1, <1>3

-----------------------------------------------------------------------------
(* Balances: what each of the traders T has free and locked in each of the *)
(* assets A.                                                               *)

\* Balances on the way through an instruction; they are natural at its end.
BalancesOf(T, A) == [T -> [A -> [free : Int, locked : Int]]]

\* What the traders hold of an asset, free or locked.
HeldOf(T, c, a) == SumFunction([t \in T |-> c[t][a].free + c[t][a].locked])

\* The balances c after t's balance of asset a changed by these amounts.
Changed(c, t, a, free, locked) ==
    [c EXCEPT ![t][a] = [free |-> @.free + free, locked |-> @.locked + locked]]

\* d where x is a, nothing elsewhere.
At(x, a, d) == IF x = a THEN d ELSE 0

\* k in one trader's balance of one asset, nothing in any other.
AtBalance(u, x, t, a, k) == IF u = t /\ x = a THEN k ELSE 0

\* The sum of an asset is a number.
LEMMA BalanceSum ==
    ASSUME NEW T, IsFiniteSet(T), NEW A, NEW c \in BalancesOf(T, A), NEW a \in A
    PROVE  HeldOf(T, c, a) \in Int
<1> DEFINE f == [t \in T |-> c[t][a].free + c[t][a].locked]
<1>1. f \in [T -> Int]
  BY DEF BalancesOf
<1> HIDE DEF f
<1>2. SumFunction(f) \in Int
  BY <1>1, SumFunctionType
<1> QED
  BY <1>2 DEF f, HeldOf

\* One change of one balance: the sum of its asset moves by as much, and a lock
\* by what was added to it.
LEMMA BalanceChanged ==
    ASSUME NEW T, IsFiniteSet(T), NEW A, NEW c \in BalancesOf(T, A),
           NEW t \in T, NEW a \in A, NEW f \in Int, NEW k \in Int
    PROVE  /\ Changed(c, t, a, f, k) \in BalancesOf(T, A)
           /\ \A x \in A :
                  HeldOf(T, Changed(c, t, a, f, k), x) = HeldOf(T, c, x) + At(x, a, f + k)
           /\ \A u \in T, x \in A :
                  Changed(c, t, a, f, k)[u][x].locked =
                      c[u][x].locked + AtBalance(u, x, t, a, k)
<1> DEFINE n == Changed(c, t, a, f, k)
<1>1. /\ n \in BalancesOf(T, A)
      /\ n[t][a].free = c[t][a].free + f /\ n[t][a].locked = c[t][a].locked + k
      /\ \A u \in T, x \in A : u # t \/ x # a => n[u][x] = c[u][x]
  BY DEF Changed, BalancesOf
<1>2. /\ \A u \in T, x \in A : c[u][x].free \in Int /\ c[u][x].locked \in Int
      /\ \A u \in T, x \in A : n[u][x].free \in Int /\ n[u][x].locked \in Int
  BY <1>1 DEF BalancesOf
<1> HIDE DEF n
<1>3. ASSUME NEW x \in A
      PROVE  HeldOf(T, n, x) = HeldOf(T, c, x) + At(x, a, f + k)
  <2> DEFINE before == [u \in T |-> c[u][x].free + c[u][x].locked]
             after  == [u \in T |-> n[u][x].free + n[u][x].locked]
  <2>1. before \in [T -> Int] /\ after \in [T -> Int]
    BY <1>2
  <2>2. \A u \in T : u # t => after[u] = before[u]
    BY <1>1
  <2>3. after[t] - before[t] = At(x, a, f + k)
    <3>1. CASE x = a
      BY <1>1, <1>2, <3>1 DEF At
    <3>2. CASE x # a
      BY <1>1, <1>2, <3>2 DEF At
    <3> QED
      BY <3>1, <3>2
  <2>4. HeldOf(T, n, x) = SumFunction(after) /\ HeldOf(T, c, x) = SumFunction(before)
    BY DEF HeldOf
  <2> HIDE DEF before, after
  <2>5. SumFunction(after) = SumFunction(before) + (after[t] - before[t])
    BY <2>1, <2>2, SumOneChanged
  <2> QED
    BY <2>3, <2>4, <2>5
<1>4. ASSUME NEW u \in T, NEW x \in A
      PROVE  n[u][x].locked = c[u][x].locked + AtBalance(u, x, t, a, k)
  BY <1>1, <1>2 DEF AtBalance
<1> QED
  BY <1>1, <1>3, <1>4 DEF n

\* A lock only moves the balance from free to locked, or back.
LEMMA BalanceLocked ==
    ASSUME NEW T, IsFiniteSet(T), NEW A, NEW c \in BalancesOf(T, A),
           NEW t \in T, NEW a \in A, NEW k \in Int
    PROVE  /\ \A x \in A : HeldOf(T, Changed(c, t, a, -k, k), x) = HeldOf(T, c, x)
           /\ \A u \in T, x \in A :
                  Changed(c, t, a, -k, k)[u][x].locked =
                      c[u][x].locked + AtBalance(u, x, t, a, k)
<1>1. -k \in Int /\ -k + k = 0
  OBVIOUS
<1>2. \A x \in A : HeldOf(T, Changed(c, t, a, -k, k), x) = HeldOf(T, c, x) + At(x, a, -k + k)
  BY <1>1, BalanceChanged
<1>3. \A u \in T, x \in A :
          Changed(c, t, a, -k, k)[u][x].locked = c[u][x].locked + AtBalance(u, x, t, a, k)
  BY <1>1, BalanceChanged
<1>4. \A x \in A : HeldOf(T, c, x) \in Int /\ At(x, a, -k + k) = 0
  BY <1>1, BalanceSum DEF At
<1> QED
  BY <1>2, <1>3, <1>4

-----------------------------------------------------------------------------
(* Sorted lists linked both ways.  S are the members, k ranks them, 0 is   *)
(* the absent link; next[x] and previous[x] are the links of x.            *)

\* The members can be ranked, and none is the absent link.
Ranked(S, k) ==
    /\ 0 \notin S
    /\ \A x \in S : k[x] \in Int
    /\ \A x, y \in S : k[x] = k[y] => x = y

\* h is the first member, or absent.
IsFirst(S, k, h) == IF h = 0 THEN S = {} ELSE h \in S /\ \A x \in S : k[h] <= k[x]

\* t is the last member, or absent.
IsLast(S, k, t) == IF t = 0 THEN S = {} ELSE t \in S /\ \A x \in S : k[x] <= k[t]

\* n comes right after x, or nothing does.
IsNext(S, k, x, n) ==
    IF n = 0 THEN \A y \in S : k[y] <= k[x]
    ELSE n \in S /\ k[x] < k[n] /\ \A y \in S : k[y] <= k[x] \/ k[n] <= k[y]

\* n comes right before x, or nothing does.
IsPrevious(S, k, x, n) ==
    IF n = 0 THEN \A y \in S : k[x] <= k[y]
    ELSE n \in S /\ k[n] < k[x] /\ \A y \in S : k[y] <= k[n] \/ k[x] <= k[y]

\* Every link is the right one.
Chain(S, k, h, next, previous) ==
    /\ Ranked(S, k)
    /\ IsFirst(S, k, h)
    /\ \A x \in S : IsNext(S, k, x, next[x]) /\ IsPrevious(S, k, x, previous[x])

\* The links of a list after x was put between `before` and `after`.
LinkedIn(S, x, before, after, next, previous, next2, previous2) ==
    /\ next2[x] = after /\ previous2[x] = before
    /\ \A y \in S : /\ next2[y] = IF y = before THEN x ELSE next[y]
                    /\ previous2[y] = IF y = after THEN x ELSE previous[y]

\* The links of a list after x was taken out.
LinkedOut(S, x, next, previous, next2, previous2) ==
    \A y \in S \ {x} :
        /\ next2[y] = IF y = previous[x] THEN next[x] ELSE next[y]
        /\ previous2[y] = IF y = next[x] THEN previous[x] ELSE previous[y]

\* x may be put between `before` and what follows it, `after`.
Fits(S, k, h, next, x, before, after) ==
    /\ before # 0 => before \in S /\ k[before] < k[x] /\ next[before] = after
    /\ before = 0 => h = after
    /\ after # 0 => after \in S /\ k[x] < k[after]

\* Putting a member in where its rank belongs.
LEMMA ChainInsert ==
    ASSUME NEW S, NEW k, NEW h, NEW next, NEW previous, Chain(S, k, h, next, previous),
           NEW x, x \notin S, Ranked(S \cup {x}, k),
           NEW before, NEW after, Fits(S, k, h, next, x, before, after),
           NEW next2, NEW previous2,
           LinkedIn(S, x, before, after, next, previous, next2, previous2)
    PROVE  Chain(S \cup {x}, k, IF before = 0 THEN x ELSE h, next2, previous2)
<1> DEFINE T == S \cup {x}
<1> USE DEF Fits
<1>1. x # 0 /\ k[x] \in Int /\ \A y \in S : k[y] \in Int /\ k[y] # k[x] /\ y # 0 /\ y # x
  BY DEF Ranked
<1>2. \A y, z \in S : k[y] = k[z] => y = z
  BY DEF Ranked
<1>3. \A y \in S : IsNext(S, k, y, next[y]) /\ IsPrevious(S, k, y, previous[y])
  BY DEF Chain
<1>4. \A y \in S : k[y] < k[x] => before # 0 /\ k[y] <= k[before]
  <2>1. CASE before = 0
    BY <1>1, <2>1 DEF Chain, IsFirst
  <2>2. CASE before # 0
    BY <1>1, <1>3, <2>2 DEF IsNext
  <2> QED
    BY <2>1, <2>2
<1>5. \A y \in S : k[x] < k[y] => after # 0 /\ k[after] <= k[y]
  <2>1. CASE before = 0
    BY <1>1, <2>1 DEF Chain, IsFirst
  <2>2. CASE before # 0
    BY <1>1, <1>3, <2>2 DEF IsNext
  <2> QED
    BY <2>1, <2>2
<1>6. IsFirst(T, k, IF before = 0 THEN x ELSE h)
  <2>1. CASE before = 0
    BY <1>1, <1>4, <2>1 DEF IsFirst
  <2>2. CASE before # 0
    BY <1>1, <2>2 DEF Chain, IsFirst
  <2> QED
    BY <2>1, <2>2
<1>7. IsNext(T, k, x, next2[x]) /\ IsPrevious(T, k, x, previous2[x])
  BY <1>1, <1>4, <1>5 DEF LinkedIn, IsNext, IsPrevious
<1>8. ASSUME NEW y \in S PROVE IsNext(T, k, y, next2[y])
  <2>1. CASE y = before
    <3>1. next2[y] = x
      BY <2>1 DEF LinkedIn
    <3>2. k[y] < k[x]
      BY <1>1, <2>1
    <3>3. \A z \in S : k[z] <= k[y] \/ k[x] <= k[z]
      BY <1>1, <1>4, <2>1
    <3> QED
      BY <1>1, <3>1, <3>2, <3>3 DEF IsNext
  <2>2. CASE y # before
    <3>1. next2[y] = next[y]
      BY <2>2 DEF LinkedIn
    <3>2. IsNext(S, k, y, next[y])
      BY <1>3
    <3>3. CASE next[y] = 0
      <4>1. \A z \in S : k[z] <= k[y]
        BY <3>2, <3>3 DEF IsNext
      <4>2. k[x] <= k[y]
        BY <1>1, <1>2, <1>4, <2>2, <4>1
      <4> QED
        BY <3>1, <3>3, <4>1, <4>2 DEF IsNext
    <3>4. CASE next[y] # 0
      <4>1. /\ next[y] \in S /\ k[y] < k[next[y]]
            /\ \A z \in S : k[z] <= k[y] \/ k[next[y]] <= k[z]
        BY <3>2, <3>4 DEF IsNext
      <4>2. k[x] <= k[y] \/ k[next[y]] <= k[x]
        <5> SUFFICES ASSUME k[y] < k[x], k[x] < k[next[y]] PROVE FALSE
          BY <1>1, <4>1
        <5>1. before \in S /\ k[y] < k[before] /\ k[before] < k[x]
          BY <1>1, <1>2, <1>4, <2>2
        <5> QED
          BY <1>1, <4>1, <5>1
      <4> QED
        BY <3>1, <3>4, <4>1, <4>2 DEF IsNext
    <3> QED
      BY <3>3, <3>4
  <2> QED
    BY <2>1, <2>2
<1>9. ASSUME NEW y \in S PROVE IsPrevious(T, k, y, previous2[y])
  <2>1. CASE y = after
    <3>1. previous2[y] = x
      BY <2>1 DEF LinkedIn
    <3>2. k[x] < k[y]
      BY <1>1, <2>1
    <3>3. \A z \in S : k[z] <= k[x] \/ k[y] <= k[z]
      BY <1>1, <1>5, <2>1
    <3> QED
      BY <1>1, <3>1, <3>2, <3>3 DEF IsPrevious
  <2>2. CASE y # after
    <3>1. previous2[y] = previous[y]
      BY <2>2 DEF LinkedIn
    <3>2. IsPrevious(S, k, y, previous[y])
      BY <1>3
    <3>3. CASE previous[y] = 0
      <4>1. \A z \in S : k[y] <= k[z]
        BY <3>2, <3>3 DEF IsPrevious
      <4>2. k[y] <= k[x]
        BY <1>1, <1>2, <1>5, <2>2, <4>1
      <4> QED
        BY <3>1, <3>3, <4>1, <4>2 DEF IsPrevious
    <3>4. CASE previous[y] # 0
      <4>1. /\ previous[y] \in S /\ k[previous[y]] < k[y]
            /\ \A z \in S : k[z] <= k[previous[y]] \/ k[y] <= k[z]
        BY <3>2, <3>4 DEF IsPrevious
      <4>2. k[x] <= k[previous[y]] \/ k[y] <= k[x]
        <5> SUFFICES ASSUME k[previous[y]] < k[x], k[x] < k[y] PROVE FALSE
          BY <1>1, <4>1
        <5>1. after \in S /\ k[after] < k[y] /\ k[x] < k[after]
          BY <1>1, <1>2, <1>5, <2>2
        <5> QED
          BY <1>1, <4>1, <5>1
      <4> QED
        BY <3>1, <3>4, <4>1, <4>2 DEF IsPrevious
    <3> QED
      BY <3>3, <3>4
  <2> QED
    BY <2>1, <2>2
<1> QED
  BY <1>6, <1>7, <1>8, <1>9 DEF Chain

\* Taking a member out.
LEMMA ChainRemove ==
    ASSUME NEW S, NEW k, NEW h, NEW next, NEW previous, Chain(S, k, h, next, previous),
           NEW x \in S, NEW next2, NEW previous2,
           LinkedOut(S, x, next, previous, next2, previous2)
    PROVE  Chain(S \ {x}, k, IF previous[x] = 0 THEN next[x] ELSE h, next2, previous2)
<1> DEFINE T == S \ {x}
           before == previous[x]
           after  == next[x]
<1>1. \A y \in S : k[y] \in Int /\ y # 0
  BY DEF Chain, Ranked
<1>2. \A y, z \in S : k[y] = k[z] => y = z
  BY DEF Chain, Ranked
<1>3. \A y \in S : IsNext(S, k, y, next[y]) /\ IsPrevious(S, k, y, previous[y])
  BY DEF Chain
<1>4. IsFirst(S, k, h)
  BY DEF Chain
<1>5. IsNext(S, k, x, after) /\ IsPrevious(S, k, x, before)
  BY <1>3
<1>6. Ranked(T, k)
  BY DEF Chain, Ranked
<1>7. \A y \in T : /\ next2[y] = IF y = before THEN after ELSE next[y]
                   /\ previous2[y] = IF y = after THEN before ELSE previous[y]
  BY DEF LinkedOut
<1> HIDE DEF before, after
<1>8. before # 0 => before \in T /\ k[before] < k[x]
  BY <1>1, <1>5 DEF IsPrevious
<1>9. after # 0 => after \in T /\ k[x] < k[after]
  BY <1>1, <1>5 DEF IsNext
<1>10. \A y \in T : k[y] < k[x] => before # 0 /\ k[y] <= k[before]
  BY <1>1, <1>5 DEF IsPrevious
<1>11. \A y \in T : k[x] < k[y] => after # 0 /\ k[after] <= k[y]
  BY <1>1, <1>5 DEF IsNext
<1>12. \A y \in T : k[y] < k[x] \/ k[x] < k[y]
  BY <1>1, <1>2
<1>13. IsFirst(T, k, IF before = 0 THEN after ELSE h)
  <2>1. CASE before = 0
    BY <1>9, <1>10, <1>11, <1>12, <2>1 DEF IsFirst
  <2>2. CASE before # 0
    BY <1>1, <1>4, <1>8, <2>2 DEF IsFirst
  <2> QED
    BY <2>1, <2>2
<1>14. ASSUME NEW y \in T PROVE IsNext(T, k, y, next2[y])
  <2>1. CASE y = before
    <3>1. next2[y] = after
      BY <1>7, <2>1
    <3>2. CASE after = 0
      BY <1>1, <1>10, <1>11, <1>12, <2>1, <3>1, <3>2 DEF IsNext
    <3>3. CASE after # 0
      BY <1>1, <1>8, <1>9, <1>10, <1>11, <1>12, <2>1, <3>1, <3>3 DEF IsNext
    <3> QED
      BY <3>2, <3>3
  <2>2. CASE y # before
    <3>1. next2[y] = next[y] /\ IsNext(S, k, y, next[y])
      BY <1>3, <1>7, <2>2
    <3>2. next[y] # x
      <4> SUFFICES ASSUME next[y] = x PROVE FALSE
        OBVIOUS
      <4>1. k[y] < k[x] /\ \A z \in S : k[z] <= k[y] \/ k[x] <= k[z]
        BY <1>1, <3>1 DEF IsNext
      <4> QED
        BY <1>1, <1>2, <1>8, <1>10, <2>2, <4>1
    <3> QED
      BY <3>1, <3>2 DEF IsNext
  <2> QED
    BY <2>1, <2>2
<1>15. ASSUME NEW y \in T PROVE IsPrevious(T, k, y, previous2[y])
  <2>1. CASE y = after
    <3>1. previous2[y] = before
      BY <1>7, <2>1
    <3>2. CASE before = 0
      BY <1>1, <1>10, <1>11, <1>12, <2>1, <3>1, <3>2 DEF IsPrevious
    <3>3. CASE before # 0
      BY <1>1, <1>8, <1>9, <1>10, <1>11, <1>12, <2>1, <3>1, <3>3 DEF IsPrevious
    <3> QED
      BY <3>2, <3>3
  <2>2. CASE y # after
    <3>1. previous2[y] = previous[y] /\ IsPrevious(S, k, y, previous[y])
      BY <1>3, <1>7, <2>2
    <3>2. previous[y] # x
      <4> SUFFICES ASSUME previous[y] = x PROVE FALSE
        OBVIOUS
      <4>1. k[x] < k[y] /\ \A z \in S : k[z] <= k[x] \/ k[y] <= k[z]
        BY <1>1, <3>1 DEF IsPrevious
      <4> QED
        BY <1>1, <1>2, <1>9, <1>11, <2>2, <4>1
    <3> QED
      BY <3>1, <3>2 DEF IsPrevious
  <2> QED
    BY <2>1, <2>2
<1> QED
  BY <1>6, <1>13, <1>14, <1>15 DEF Chain, before, after

\* The last member after one with the highest rank was added.
LEMMA LastAdded ==
    ASSUME NEW S, NEW k, NEW x, Ranked(S \cup {x}, k), \A y \in S : k[y] < k[x]
    PROVE  IsLast(S \cup {x}, k, x)
BY DEF IsLast, Ranked

\* The last member after one was taken out.
LEMMA LastRemoved ==
    ASSUME NEW S, NEW k, NEW h, NEW next, NEW previous, Chain(S, k, h, next, previous),
           NEW t, IsLast(S, k, t), NEW x \in S
    PROVE  IsLast(S \ {x}, k, IF next[x] = 0 THEN previous[x] ELSE t)
<1>1. \A y \in S : k[y] \in Int /\ y # 0
  BY DEF Chain, Ranked
<1>2. \A y, z \in S : k[y] = k[z] => y = z
  BY DEF Chain, Ranked
<1>3. IsNext(S, k, x, next[x]) /\ IsPrevious(S, k, x, previous[x])
  BY DEF Chain
<1>4. CASE next[x] = 0
  <2>1. \A y \in S \ {x} : k[y] < k[x]
    BY <1>1, <1>2, <1>3, <1>4 DEF IsNext
  <2>2. CASE previous[x] = 0
    BY <1>1, <1>3, <1>4, <2>1, <2>2 DEF IsPrevious, IsLast
  <2>3. CASE previous[x] # 0
    BY <1>1, <1>3, <1>4, <2>1, <2>3 DEF IsPrevious, IsLast
  <2> QED
    BY <2>2, <2>3
<1>5. CASE next[x] # 0
  BY <1>1, <1>3, <1>5 DEF IsNext, IsLast
<1> QED
  BY <1>4, <1>5

-----------------------------------------------------------------------------
(* Walking a list *)

\* A set of natural numbers that is not empty has a least one.
LEMMA Least ==
    ASSUME NEW Bad \in SUBSET Nat, Bad # {}
    PROVE  \E m \in Bad : \A j \in Bad : m <= j
<1>1. PICK n \in Bad : TRUE
  OBVIOUS
<1> DEFINE Below == {0 .. m : m \in {j \in Bad : j <= n}}
<1>2. IsFiniteSet(0 .. n)
  BY FS_Interval
<1>3. Below \in SUBSET SUBSET (0 .. n) /\ Below # {}
  <2>1. 0 .. n \in Below
    OBVIOUS
  <2>2. ASSUME NEW s \in Below PROVE s \in SUBSET (0 .. n)
    <3>1. PICK m \in Bad : m <= n /\ s = 0 .. m
      OBVIOUS
    <3> QED
      BY <3>1
  <2> QED
    BY <2>1, <2>2
<1>4. \E s \in Below : \A r \in SUBSET s : r # s => r \notin Below
  <2> HIDE DEF Below
  <2> QED
    BY <1>2, <1>3, SmallestSubset
<1>5. PICK s \in Below : \A r \in SUBSET s : r # s => r \notin Below
  BY <1>4
<1>6. PICK m \in Bad : m <= n /\ s = 0 .. m
  OBVIOUS
<1>7. ASSUME NEW j \in Bad, j < m PROVE FALSE
  <2>1. 0 .. j \in Below
    BY <1>6, <1>7
  <2>2. 0 .. j \in SUBSET s /\ 0 .. j # s
    <3>1. m \in 0 .. m /\ m \notin 0 .. j
      BY <1>7
    <3> QED
      BY <1>6, <1>7, <3>1
  <2> QED
    BY <1>5, <2>1, <2>2
<1> QED
  BY <1>7

\* g is a walk of m accounts.
Walks(h, next, m, g) ==
    g = [n \in 1 .. m |->
            IF n = 1 THEN h
            ELSE IF g[n - 1] = 0 THEN 0 ELSE next[g[n - 1]]]

\* One can walk as far as one likes.
LEMMA WalkExists ==
    ASSUME NEW h, NEW next
    PROVE  \A m \in Nat : \E g : Walks(h, next, m, g)
<1> DEFINE Bad == {m \in Nat : ~ \E g : Walks(h, next, m, g)}
<1> SUFFICES ASSUME Bad # {} PROVE FALSE
  OBVIOUS
<1>1. PICK m \in Bad : \A j \in Bad : m <= j
  <2>1. Bad \in SUBSET Nat
    OBVIOUS
  <2> HIDE DEF Bad
  <2> QED
    BY <2>1, Least
<1>2. m # 0
  <2> SUFFICES ASSUME m = 0 PROVE FALSE
    OBVIOUS
  <2> DEFINE g == [n \in 1 .. 0 |-> 0]
  <2>1. g = [n \in 1 .. 0 |-> IF n = 1 THEN h
                              ELSE IF g[n - 1] = 0 THEN 0 ELSE next[g[n - 1]]]
    OBVIOUS
  <2>2. Walks(h, next, 0, g)
    BY <2>1 DEF Walks
  <2> QED
    BY <2>2
<1>3. m \in Nat /\ m - 1 \in Nat /\ m - 1 \notin Bad
  BY <1>1, <1>2
<1>4. PICK g : Walks(h, next, m - 1, g)
  BY <1>3
<1> DEFINE new == [n \in 1 .. m |->
                      IF n = 1 THEN h
                      ELSE IF g[n - 1] = 0 THEN 0 ELSE next[g[n - 1]]]
<1>5. \A n \in 1 .. m - 1 : new[n] = g[n]
  BY <1>3, <1>4 DEF Walks
<1>6. \A n \in 1 .. m : new[n] = IF n = 1 THEN h
                                 ELSE IF new[n - 1] = 0 THEN 0 ELSE next[new[n - 1]]
  <2> TAKE n \in 1 .. m
  <2>1. CASE n = 1
    BY <2>1
  <2>2. CASE n # 1
    <3>1. n - 1 \in 1 .. m - 1
      BY <1>3, <2>2
    <3>2. new[n - 1] = g[n - 1]
      BY <1>5, <3>1
    <3> QED
      BY <2>2, <3>2
  <2> QED
    BY <2>1, <2>2
<1>7. new = [n \in 1 .. m |-> new[n]]
  OBVIOUS
<1> HIDE DEF new
<1>8. Walks(h, next, m, new)
  BY <1>6, <1>7 DEF Walks
<1> QED
  BY <1>8

\* What Walk computes.
LEMMA WalkIs ==
    ASSUME NEW h, NEW next, NEW m \in Nat
    PROVE  LET w == Walk(h, next, m)
           IN  /\ w = [n \in 1 .. m |-> w[n]]
               /\ m > 0 => w[1] = h
               /\ \A n \in 2 .. m : w[n] = IF w[n - 1] = 0 THEN 0 ELSE next[w[n - 1]]
<1>1. Walk(h, next, m) = CHOOSE g : Walks(h, next, m, g)
  BY Zenon DEF Walk, Walks
<1>2. Walks(h, next, m, Walk(h, next, m))
  BY <1>1, WalkExists
<1> DEFINE w == Walk(h, next, m)
<1>3. w = [n \in 1 .. m |-> IF n = 1 THEN h
                            ELSE IF w[n - 1] = 0 THEN 0 ELSE next[w[n - 1]]]
  BY <1>2 DEF Walks
<1> HIDE DEF w
<1> QED
  BY <1>3 DEF w

\* A walk along a chain meets its members in the order of their ranks, all of
\* them, and then nothing.
LEMMA ChainWalk ==
    ASSUME NEW S, IsFiniteSet(S), NEW k, NEW h, NEW next, NEW previous,
           Chain(S, k, h, next, previous), NEW m \in Nat, Cardinality(S) <= m
    PROVE  LET w == Walk(h, next, m)
               n == Cardinality(S)
           IN  /\ n \in Nat
               /\ {w[j] : j \in 1 .. n} = S
               /\ \A j \in 1 .. n :
                      /\ w[j] \in S
                      /\ previous[w[j]] = IF j = 1 THEN 0 ELSE w[j - 1]
                      /\ j > 1 => k[w[j - 1]] < k[w[j]]
                      /\ j = n => next[w[j]] = 0
               /\ m > n => w[n + 1] = 0
<1> DEFINE w == Walk(h, next, m)
           n == Cardinality(S)
<1>1. /\ m > 0 => w[1] = h
      /\ \A j \in 2 .. m : w[j] = IF w[j - 1] = 0 THEN 0 ELSE next[w[j - 1]]
  BY WalkIs
<1>2. n \in Nat /\ n <= m
  BY FS_CardinalityType
<1>3. \A x \in S : k[x] \in Int /\ x # 0
  BY DEF Chain, Ranked
<1>4. \A x, y \in S : k[x] = k[y] => x = y
  BY DEF Chain, Ranked
<1>5. IsFirst(S, k, h)
  BY DEF Chain
<1>6. \A x \in S : IsNext(S, k, x, next[x]) /\ IsPrevious(S, k, x, previous[x])
  BY DEF Chain
<1> HIDE DEF w
\* the first j accounts met are the first j members
<1> DEFINE T(j)   == {w[i] : i \in 1 .. j}
           Met(j) == /\ \A i \in 1 .. j : w[i] \in S
                     /\ \A i \in 1 .. j : \A r \in 1 .. i - 1 : k[w[r]] < k[w[i]]
                     /\ j > 0 => \A x \in S : k[x] <= k[w[j]] => x \in T(j)
<1>7. ASSUME NEW j \in 0 .. n, Met(j) PROVE T(j) \in SUBSET S /\ Cardinality(T(j)) = j
  <2> DEFINE f == [i \in 1 .. j |-> w[i]]
  <2>1. f \in Surjection(1 .. j, T(j))
    BY DEF Surjection
  <2>2. \A i, r \in 1 .. j : f[i] = f[r] => i = r
    <3> SUFFICES ASSUME NEW i \in 1 .. j, NEW r \in 1 .. j, w[i] = w[r], i # r
                 PROVE  FALSE
      OBVIOUS
    <3>1. CASE i < r
      <4>1. k[w[i]] < k[w[r]] /\ k[w[i]] \in Int
        BY <1>3, <1>7, <3>1
      <4> QED
        BY <4>1
    <3>2. CASE r < i
      <4>1. k[w[r]] < k[w[i]] /\ k[w[i]] \in Int
        BY <1>3, <1>7, <3>2
      <4> QED
        BY <4>1
    <3> QED
      BY <3>1, <3>2
  <2>3. f \in Injection(1 .. j, T(j))
    BY <2>2 DEF Injection, IsInjective
  <2>4. IsFiniteSet(1 .. j) /\ Cardinality(1 .. j) = j
    BY FS_Interval, <1>2
  <2>5. T(j) \in SUBSET S
    BY <1>7
  <2> HIDE DEF T, f
  <2> QED
    BY <2>1, <2>3, <2>4, <2>5, FS_Surjection
<1>8. \A j \in 0 .. n : Met(j)
  <2> DEFINE Bad == {j \in 0 .. n : ~Met(j)}
  <2> SUFFICES ASSUME Bad # {} PROVE FALSE
    OBVIOUS
  <2>1. PICK b \in Bad : \A i \in Bad : b <= i
    <3>1. Bad \in SUBSET Nat
      OBVIOUS
    <3> HIDE DEF Bad
    <3> QED
      BY <3>1, Least
  <2>2. b \in 0 .. n /\ ~Met(b)
    OBVIOUS
  <2>3. CASE b = 0
    <3>1. Met(0)
      OBVIOUS
    <3> QED
      BY <2>2, <2>3, <3>1
  <2>4. CASE b = 1
    <3>1. S # {} /\ w[1] = h
      BY <1>1, <1>2, <2>2, <2>4, FS_EmptySet
    <3>2. h \in S /\ \A x \in S : k[h] <= k[x]
      BY <1>5, <3>1 DEF IsFirst
    <3>3. \A x \in S : k[x] <= k[w[1]] => x \in T(1)
      <4>1. \A x \in S : k[x] <= k[h] => x = h
        BY <1>3, <1>4, <3>2
      <4>2. h \in T(1)
        BY <3>1
      <4> QED
        BY <3>1, <4>1, <4>2
    <3> HIDE DEF T
    <3>4. Met(1)
      BY <3>1, <3>2, <3>3
    <3> QED
      BY <2>2, <2>4, <3>4
  <2>5. CASE b > 1
    <3> DEFINE j == b - 1
    <3>1. j \in 1 .. n - 1 /\ j \in 0 .. n /\ b = j + 1 /\ b \in 2 .. m /\ j \in 1 .. j
      BY <1>2, <2>2, <2>5
    <3>2. Met(j)
      <4>1. j \notin Bad
        BY <2>1, <3>1
      <4> HIDE DEF Met
      <4> QED
        BY <3>1, <4>1
    <3> HIDE DEF j
    <3>3. w[j] \in S /\ w[j] # 0
      BY <1>3, <3>1, <3>2
    <3>4. next[w[j]] # 0
      <4> SUFFICES ASSUME next[w[j]] = 0 PROVE FALSE
        OBVIOUS
      <4>1. \A x \in S : k[x] <= k[w[j]]
        BY <1>6, <3>3 DEF IsNext
      <4>2. S \in SUBSET T(j)
        BY <3>1, <3>2, <4>1
      <4>3. T(j) \in SUBSET S /\ Cardinality(T(j)) = j
        <5> HIDE DEF T, Met
        <5> QED
          BY <1>7, <3>1, <3>2
      <4>4. Cardinality(S) = j
        <5> HIDE DEF T
        <5>1. T(j) = S
          BY <4>2, <4>3
        <5> QED
          BY <4>3, <5>1
      <4> QED
        BY <1>2, <3>1, <4>4
    <3>5. w[b] = next[w[j]]
      BY <1>1, <3>1, <3>3
    <3>6. /\ w[b] \in S /\ k[w[j]] < k[w[b]]
          /\ \A y \in S : k[y] <= k[w[j]] \/ k[w[b]] <= k[y]
      BY <1>6, <3>3, <3>4, <3>5 DEF IsNext
    <3>7. \A i \in 1 .. b : w[i] \in S
      BY <3>1, <3>2, <3>6
    <3>8. \A i \in 1 .. b : \A r \in 1 .. i - 1 : k[w[r]] < k[w[i]]
      <4> SUFFICES ASSUME NEW i \in 1 .. b, NEW r \in 1 .. i - 1 PROVE k[w[r]] < k[w[i]]
        OBVIOUS
      <4>1. CASE i < b
        BY <3>1, <3>2, <4>1
      <4>2. CASE i = b
        <5>1. r \in 1 .. j /\ (r = j \/ r \in 1 .. j - 1)
          BY <3>1, <4>2
        <5>2. k[w[r]] <= k[w[j]] /\ k[w[r]] \in Int
          BY <1>3, <3>1, <3>2, <5>1
        <5> QED
          BY <1>3, <3>3, <3>6, <4>2, <5>2
      <4> QED
        BY <3>1, <4>1, <4>2
    <3>9. \A x \in S : k[x] <= k[w[b]] => x \in T(b)
      <4> TAKE x \in S
      <4> HAVE k[x] <= k[w[b]]
      <4>1. CASE k[x] <= k[w[j]]
        <5>1. x \in T(j)
          BY <3>1, <3>2, <4>1
        <5> QED
          BY <3>1, <5>1
      <4>2. CASE ~(k[x] <= k[w[j]])
        <5>1. x = w[b]
          BY <1>3, <1>4, <3>6, <4>2
        <5>2. b \in 1 .. b
          BY <2>5, <3>1
        <5> QED
          BY <5>1, <5>2
      <4> QED
        BY <4>1, <4>2
    <3> HIDE DEF T
    <3>10. Met(b)
      BY <3>7, <3>8, <3>9
    <3> QED
      BY <2>2, <3>10
  <2> QED
    BY <2>2, <2>3, <2>4, <2>5
<1>9. T(n) = S
  <2>1. T(n) \in SUBSET S /\ Cardinality(T(n)) = n
    <3> HIDE DEF T, Met
    <3> QED
      BY <1>2, <1>7, <1>8
  <2> HIDE DEF T
  <2> QED
    BY <2>1, FS_Subset
<1>10. \A j \in 1 .. n : w[j] \in S /\ (j > 1 => k[w[j - 1]] < k[w[j]])
  <2> TAKE j \in 1 .. n
  <2>1. Met(j)
    BY <1>2, <1>8
  <2> QED
    BY <1>2, <2>1
<1>11. \A j \in 1 .. n : previous[w[j]] = IF j = 1 THEN 0 ELSE w[j - 1]
  <2> TAKE j \in 1 .. n
  <2>1. w[j] \in S /\ IsPrevious(S, k, w[j], previous[w[j]])
    BY <1>6, <1>10
  <2>2. CASE j = 1
    <3>1. w[j] = h /\ \A x \in S : k[h] <= k[x]
      BY <1>1, <1>2, <1>3, <1>5, <2>1, <2>2 DEF IsFirst
    <3> QED
      BY <1>3, <2>1, <2>2, <3>1 DEF IsPrevious
  <2>3. CASE j # 1
    <3> DEFINE before == w[j - 1]
               p      == previous[w[j]]
    <3>1. j - 1 \in 1 .. n /\ j \in 2 .. m
      BY <1>2, <2>3
    <3>2. before \in S /\ before # 0 /\ k[before] < k[w[j]]
      BY <1>3, <1>10, <2>3, <3>1
    <3>3. w[j] = next[before] /\ w[j] # 0
      BY <1>1, <1>3, <2>1, <3>1, <3>2
    <3>4. \A y \in S : k[y] <= k[before] \/ k[w[j]] <= k[y]
      BY <1>6, <3>2, <3>3 DEF IsNext
    <3> HIDE DEF before
    <3>5. p # 0 /\ p \in S /\ k[p] < k[w[j]] /\ \A y \in S : k[y] <= k[p] \/ k[w[j]] <= k[y]
      BY <1>3, <2>1, <3>2 DEF IsPrevious
    <3> HIDE DEF p
    <3>6. p = before
      BY <1>3, <1>4, <2>1, <3>2, <3>4, <3>5
    <3> QED
      BY <2>3, <3>6 DEF p, before
  <2> QED
    BY <2>2, <2>3
<1>12. n > 0 => next[w[n]] = 0
  <2> SUFFICES ASSUME n > 0, next[w[n]] # 0 PROVE FALSE
    OBVIOUS
  <2>1. Met(n) /\ n \in 1 .. n
    BY <1>2, <1>8
  <2>2. w[n] \in S
    BY <2>1
  <2>3. next[w[n]] \in S /\ k[w[n]] < k[next[w[n]]]
    BY <1>6, <2>2 DEF IsNext
  <2>4. PICK i \in 1 .. n : next[w[n]] = w[i]
    BY <1>9, <2>3
  <2>5. i = n \/ i \in 1 .. n - 1
    BY <1>2
  <2>6. k[w[i]] <= k[w[n]]
    BY <1>3, <2>1, <2>2, <2>5
  <2> QED
    BY <1>3, <2>2, <2>3, <2>4, <2>6
<1>13. m > n => w[n + 1] = 0
  <2> SUFFICES ASSUME m > n PROVE w[n + 1] = 0
    OBVIOUS
  <2>1. CASE n = 0
    <3>1. S = {} /\ w[1] = h
      BY <1>1, <1>2, <2>1, FS_EmptySet
    <3> QED
      BY <1>5, <2>1, <3>1 DEF IsFirst
  <2>2. CASE n > 0
    <3>1. n + 1 \in 2 .. m /\ n \in 1 .. n /\ n + 1 - 1 = n
      BY <1>2, <2>2
    <3>2. w[n + 1] = IF w[n] = 0 THEN 0 ELSE next[w[n]]
      BY <1>1, <3>1
    <3> QED
      BY <1>12, <2>2, <3>2
  <2> QED
    BY <1>2, <2>1, <2>2
<1> QED
  BY <1>2, <1>9, <1>10, <1>11, <1>12, <1>13 DEF w

\* A chain depends on the links of its members only.
LEMMA ChainSame ==
    ASSUME NEW S, NEW k, NEW h, NEW next, NEW previous, Chain(S, k, h, next, previous),
           NEW next2, NEW previous2,
           \A x \in S : next2[x] = next[x] /\ previous2[x] = previous[x]
    PROVE  Chain(S, k, h, next2, previous2)
BY DEF Chain

-----------------------------------------------------------------------------
(* The queue of a price level and the levels of a side: accounts with the  *)
(* fields all books of the program give them.                              *)

\* Orders rank by id, levels by price, the better first.
IdRank == [i \in Nat |-> i]
PriceRank(side) == [p \in Nat |-> IF side = "Bid" THEN -p ELSE p]

\* The orders S, among `orders`, are the queue that level lv describes.
QueueIs(S, orders, lv) ==
    /\ IsFiniteSet(S) /\ S \subseteq Nat \ {0}
    /\ \A i \in S : orders[i].remaining_quantity \in Nat
    /\ lv.order_count = Cardinality(S)
    /\ Chain(S, IdRank, lv.first_order, [i \in S |-> orders[i].next_order],
                                        [i \in S |-> orders[i].previous_order])
    /\ IsLast(S, IdRank, lv.last_order)
    /\ lv.total_remaining_quantity =
           SumFunctionOnSet([i \in S |-> orders[i].remaining_quantity], S)

\* The levels at the prices P, among `levels`, are the list of a side from best.
ListIs(P, side, levels, best) ==
    /\ P \subseteq Nat \ {0}
    /\ Chain(P, PriceRank(side), best, [p \in P |-> levels[p].worse_price],
                                       [p \in P |-> levels[p].better_price])

\* The order account n is linked like o and has as much left.
SameOrder(o, n) ==
    /\ n.next_order = o.next_order /\ n.previous_order = o.previous_order
    /\ n.remaining_quantity = o.remaining_quantity

\* The level account n has the queue of o.
SameQueue(o, n) ==
    /\ n.first_order = o.first_order /\ n.last_order = o.last_order
    /\ n.order_count = o.order_count
    /\ n.total_remaining_quantity = o.total_remaining_quantity

\* A queue nobody touched.
LEMMA QueueSame ==
    ASSUME NEW S, NEW orders, NEW lv, QueueIs(S, orders, lv),
           NEW orders2, NEW lv2,
           \A i \in S : SameOrder(orders[i], orders2[i]), SameQueue(lv, lv2)
    PROVE  QueueIs(S, orders2, lv2)
<1> DEFINE f == [i \in S |-> orders[i].remaining_quantity]
           g == [i \in S |-> orders2[i].remaining_quantity]
<1>1. f = g
  BY DEF SameOrder
<1>2. /\ [i \in S |-> orders2[i].next_order] = [i \in S |-> orders[i].next_order]
      /\ [i \in S |-> orders2[i].previous_order] = [i \in S |-> orders[i].previous_order]
  BY DEF SameOrder
<1>3. \A i \in S : orders2[i].remaining_quantity \in Nat
  BY DEF SameOrder, QueueIs
<1> QED
  BY <1>1, <1>2, <1>3 DEF QueueIs, SameQueue

\* The queue of a level that is not there.
LEMMA QueueEmpty ==
    ASSUME NEW orders, NEW lv, lv.first_order = 0, lv.last_order = 0,
           lv.order_count = 0, lv.total_remaining_quantity = 0
    PROVE  QueueIs({}, orders, lv)
<1>1. SumFunctionOnSet([i \in {} |-> orders[i].remaining_quantity], {}) = 0
  BY SumEmpty
<1> QED
  BY <1>1, FS_EmptySet DEF QueueIs, Chain, Ranked, IsFirst, IsLast

\* A level without orders names none.
LEMMA QueueOfNone ==
    ASSUME NEW S, NEW orders, NEW lv, QueueIs(S, orders, lv), lv.order_count = 0
    PROVE  /\ S = {} /\ lv.first_order = 0 /\ lv.last_order = 0
           /\ lv.total_remaining_quantity = 0
<1>1. S = {}
  BY FS_EmptySet DEF QueueIs
<1>2. lv.total_remaining_quantity = 0
  <2>1. lv.total_remaining_quantity =
            SumFunctionOnSet([i \in S |-> orders[i].remaining_quantity], S)
    BY DEF QueueIs
  <2> QED
    BY <1>1, <2>1, SumEmpty
<1> QED
  BY <1>1, <1>2 DEF QueueIs, Chain, IsFirst, IsLast

\* An order joins the queue behind its tail, or is its first.
LEMMA QueueAppend ==
    ASSUME NEW S, NEW orders, NEW lv, QueueIs(S, orders, lv),
           NEW id \in Nat \ {0}, \A i \in S : i < id, NEW q \in Nat,
           NEW orders2, NEW lv2,
           orders2[id].previous_order = lv.last_order,
           orders2[id].next_order = 0,
           orders2[id].remaining_quantity = q,
           \A i \in S : /\ orders2[i].next_order = IF i = lv.last_order THEN id
                                                   ELSE orders[i].next_order
                        /\ orders2[i].previous_order = orders[i].previous_order
                        /\ orders2[i].remaining_quantity = orders[i].remaining_quantity,
           lv2.first_order = IF lv.last_order = 0 THEN id ELSE lv.first_order,
           lv2.last_order = id,
           lv2.order_count = lv.order_count + 1,
           lv2.total_remaining_quantity = lv.total_remaining_quantity + q
    PROVE  QueueIs(S \cup {id}, orders2, lv2)
<1> DEFINE T == S \cup {id}
           tail == lv.last_order
           nx == [i \in S |-> orders[i].next_order]
           pv == [i \in S |-> orders[i].previous_order]
           nx2 == [i \in T |-> orders2[i].next_order]
           pv2 == [i \in T |-> orders2[i].previous_order]
           f == [i \in S |-> orders[i].remaining_quantity]
           g == [i \in T |-> orders2[i].remaining_quantity]
<1>1. /\ IsFiniteSet(S) /\ S \subseteq Nat \ {0} /\ id \notin S
      /\ Chain(S, IdRank, lv.first_order, nx, pv) /\ IsLast(S, IdRank, tail)
      /\ lv.order_count = Cardinality(S) /\ Cardinality(S) \in Nat
      /\ lv.total_remaining_quantity = SumFunctionOnSet(f, S)
  BY FS_CardinalityType DEF QueueIs
<1>0. \A i \in S : f[i] \in Nat
  BY DEF QueueIs
<1>2. Ranked(T, IdRank)
  BY <1>1 DEF Ranked, IdRank
<1>3. LinkedIn(S, id, tail, 0, nx, pv, nx2, pv2)
  BY <1>1 DEF LinkedIn
<1>4. tail # 0 => tail \in S /\ IdRank[tail] < IdRank[id] /\ nx[tail] = 0
  <2> SUFFICES ASSUME tail # 0 PROVE tail \in S /\ IdRank[tail] < IdRank[id] /\ nx[tail] = 0
    OBVIOUS
  <2>1. tail \in S /\ \A x \in S : IdRank[x] <= IdRank[tail]
    BY <1>1 DEF IsLast
  <2>2. IsNext(S, IdRank, tail, nx[tail])
    BY <1>1, <2>1 DEF Chain
  <2>3. nx[tail] = 0
    <3>1. nx[tail] # 0 => nx[tail] \in S /\ IdRank[tail] < IdRank[nx[tail]]
      BY ONLY <2>2 DEF IsNext
    <3>2. \A x \in S : IdRank[x] \in Int
      BY <1>1 DEF IdRank
    <3> HIDE DEF tail, nx
    <3> QED
      BY ONLY <2>1, <3>1, <3>2
  <2> QED
    BY <1>1, <2>1, <2>3 DEF IdRank
<1>5. Fits(S, IdRank, lv.first_order, nx, id, tail, 0)
  <2>1. tail = 0 => lv.first_order = 0
    BY <1>1 DEF IsLast, Chain, IsFirst
  <2> QED
    BY <1>4, <2>1 DEF Fits
<1> HIDE DEF nx, pv, nx2, pv2
<1>6. Chain(T, IdRank, IF tail = 0 THEN id ELSE lv.first_order, nx2, pv2)
  BY <1>1, <1>2, <1>3, <1>5, ChainInsert
<1>7. IsLast(T, IdRank, id)
  <2>1. \A y \in S : IdRank[y] < IdRank[id]
    BY <1>1 DEF IdRank
  <2> QED
    BY <1>2, <2>1, LastAdded
<1>8. IsFiniteSet(T) /\ Cardinality(T) = Cardinality(S) + 1
  BY <1>1, FS_AddElement
<1>9. SumFunctionOnSet(g, T) = SumFunctionOnSet(f, S) + q
  <2>1. (\A i \in T : g[i] \in Int) /\ id \in T
    BY <1>0
  <2>3. T \ {id} = S /\ g[id] = q
    BY <1>1
  <2>4. \A i \in S : f[i] \in Int /\ g[i] = f[i]
    BY <1>0
  <2> HIDE DEF f, g, T
  <2> DEFINE all  == SumFunctionOnSet(g, T)
             rest == SumFunctionOnSet(g, T \ {id})
             old  == SumFunctionOnSet(f, S)
  <2>2. all = g[id] + rest
    <3>1. \A x \in T : SumFunctionOnSet(g, T) = g[x] + SumFunctionOnSet(g, T \ {x})
      <4>1. IsFiniteSet(T) /\ \A x \in T : g[x] \in Int
        BY <1>8, <2>1
      <4> HIDE DEF all, rest, old, tail
      <4> QED
        BY <4>1, SumRemove
    <3> QED
      BY <2>1, <3>1
  <2>5. rest = old
    <3>1. SumFunctionOnSet(g, S) = SumFunctionOnSet(f, S)
      <4>1. IsFiniteSet(S)
        BY <1>1
      <4> QED
        BY ONLY <2>4, <4>1, SumSame
    <3> QED
      BY <2>3, <3>1
  <2>6. old \in Int
    BY <1>1, <2>4, SumType
  <2> HIDE DEF all, rest, old
  <2>7. all = old + q
    BY <2>2, <2>3, <2>5, <2>6
  <2> QED
    BY <2>7 DEF all, old
<1>10. \A i \in T : orders2[i].remaining_quantity \in Nat
  BY <1>0
<1> QED
  BY <1>1, <1>6, <1>7, <1>8, <1>9, <1>10 DEF QueueIs, nx2, pv2

\* An order leaves the queue and its neighbours meet.
LEMMA QueueRemove ==
    ASSUME NEW S, NEW orders, NEW lv, QueueIs(S, orders, lv), NEW x \in S,
           NEW orders2, NEW lv2,
           \A i \in S \ {x} :
               /\ orders2[i].next_order = IF i = orders[x].previous_order
                                          THEN orders[x].next_order ELSE orders[i].next_order
               /\ orders2[i].previous_order = IF i = orders[x].next_order
                                              THEN orders[x].previous_order
                                              ELSE orders[i].previous_order
               /\ orders2[i].remaining_quantity = orders[i].remaining_quantity,
           lv2.first_order = IF orders[x].previous_order = 0 THEN orders[x].next_order
                             ELSE lv.first_order,
           lv2.last_order = IF orders[x].next_order = 0 THEN orders[x].previous_order
                            ELSE lv.last_order,
           lv2.order_count = lv.order_count - 1,
           lv2.total_remaining_quantity =
               lv.total_remaining_quantity - orders[x].remaining_quantity
    PROVE  QueueIs(S \ {x}, orders2, lv2)
<1> DEFINE T == S \ {x}
           nx == [i \in S |-> orders[i].next_order]
           pv == [i \in S |-> orders[i].previous_order]
           nx2 == [i \in T |-> orders2[i].next_order]
           pv2 == [i \in T |-> orders2[i].previous_order]
           f == [i \in S |-> orders[i].remaining_quantity]
           g == [i \in T |-> orders2[i].remaining_quantity]
<1>1. /\ IsFiniteSet(S) /\ S \subseteq Nat \ {0}
      /\ Chain(S, IdRank, lv.first_order, nx, pv) /\ IsLast(S, IdRank, lv.last_order)
      /\ lv.order_count = Cardinality(S) /\ Cardinality(S) \in Nat
      /\ lv.total_remaining_quantity = SumFunctionOnSet(f, S)
  BY FS_CardinalityType DEF QueueIs
<1>0. \A i \in S : f[i] \in Nat
  BY DEF QueueIs
<1>2. /\ nx[x] = orders[x].next_order /\ pv[x] = orders[x].previous_order
      /\ LinkedOut(S, x, nx, pv, nx2, pv2)
  BY DEF LinkedOut
<1> HIDE DEF nx, pv, nx2, pv2
<1>3. Chain(T, IdRank, IF pv[x] = 0 THEN nx[x] ELSE lv.first_order, nx2, pv2)
  BY <1>1, <1>2, ChainRemove
<1>4. IsLast(T, IdRank, IF nx[x] = 0 THEN pv[x] ELSE lv.last_order)
  <2> DEFINE h == lv.first_order
             t == lv.last_order
  <2>1. Chain(S, IdRank, h, nx, pv) /\ IsLast(S, IdRank, t)
    BY <1>1
  <2> HIDE DEF h, t
  <2> QED
    BY <2>1, LastRemoved DEF t
<1>5. IsFiniteSet(T) /\ Cardinality(T) = Cardinality(S) - 1
  BY <1>1, FS_RemoveElement
<1>6. SumFunctionOnSet(g, T) = SumFunctionOnSet(f, S) - orders[x].remaining_quantity
  <2>1. \A i \in S : f[i] \in Int
    BY <1>0
  <2>3. f[x] = orders[x].remaining_quantity /\ f[x] \in Int
    BY <1>0
  <2>4. \A i \in T : f[i] \in Int /\ g[i] = f[i]
    BY <1>0
  <2> HIDE DEF f, g
  <2> DEFINE all  == SumFunctionOnSet(f, S)
             rest == SumFunctionOnSet(f, T)
             new  == SumFunctionOnSet(g, T)
  <2>2. all = f[x] + rest
    <3>1. \A y \in S : SumFunctionOnSet(f, S) = f[y] + SumFunctionOnSet(f, S \ {y})
      <4>1. IsFiniteSet(S) /\ \A y \in S : f[y] \in Int
        BY <1>1, <2>1
      <4> HIDE DEF all, rest, new
      <4> QED
        BY <4>1, SumRemove
    <3> QED
      BY <3>1
  <2>5. new = rest
    BY ONLY <1>5, <2>4, SumSame DEF new, rest
  <2>6. rest \in Int
    BY <1>5, <2>4, SumType
  <2> HIDE DEF all, rest, new
  <2>7. new = all - orders[x].remaining_quantity
    BY <2>2, <2>3, <2>5, <2>6
  <2> QED
    BY <2>7 DEF all, new
<1>7. \A i \in T : orders2[i].remaining_quantity \in Nat
  BY <1>0
<1> QED
  BY <1>1, <1>2, <1>3, <1>4, <1>5, <1>6, <1>7 DEF QueueIs, nx2, pv2

\* An order stays in the queue with less left.
LEMMA QueueFill ==
    ASSUME NEW S, NEW orders, NEW lv, QueueIs(S, orders, lv), NEW x \in S, NEW d \in Int,
           NEW orders2, NEW lv2,
           \A i \in S \ {x} : SameOrder(orders[i], orders2[i]),
           orders2[x].next_order = orders[x].next_order,
           orders2[x].previous_order = orders[x].previous_order,
           orders2[x].remaining_quantity = orders[x].remaining_quantity - d,
           orders2[x].remaining_quantity \in Nat,
           lv2.first_order = lv.first_order, lv2.last_order = lv.last_order,
           lv2.order_count = lv.order_count,
           lv2.total_remaining_quantity = lv.total_remaining_quantity - d
    PROVE  QueueIs(S, orders2, lv2)
<1> DEFINE f == [i \in S |-> orders[i].remaining_quantity]
           g == [i \in S |-> orders2[i].remaining_quantity]
<1>1. /\ [i \in S |-> orders2[i].next_order] = [i \in S |-> orders[i].next_order]
      /\ [i \in S |-> orders2[i].previous_order] = [i \in S |-> orders[i].previous_order]
  BY DEF SameOrder
<1>2. \A i \in S : orders2[i].remaining_quantity \in Nat
  BY DEF SameOrder, QueueIs
<1>3. SumFunctionOnSet(g, S) = SumFunctionOnSet(f, S) - d
  <2>1. IsFiniteSet(S) /\ \A y \in S : f[y] \in Int /\ g[y] \in Int
    BY <1>2 DEF QueueIs
  <2>2. \A y \in S \ {x} : g[y] = f[y]
    BY DEF SameOrder
  <2>3. f[x] \in Int /\ g[x] = f[x] - d
    BY <2>1
  <2> HIDE DEF f, g
  <2>4. SumFunctionOnSet(g, S) = SumFunctionOnSet(f, S) + (g[x] - f[x])
    BY <2>1, <2>2, SumChange
  <2>5. SumFunctionOnSet(f, S) \in Int
    BY <2>1, SumType
  <2> QED
    BY <2>3, <2>4, <2>5
<1> QED
  BY <1>1, <1>2, <1>3 DEF QueueIs

\* A side whose levels kept their neighbours.
LEMMA ListSame ==
    ASSUME NEW P, NEW side, NEW levels, NEW best, ListIs(P, side, levels, best),
           NEW levels2,
           \A x \in P : /\ levels2[x].worse_price = levels[x].worse_price
                        /\ levels2[x].better_price = levels[x].better_price
    PROVE  ListIs(P, side, levels2, best)
<1>1. /\ [p \in P |-> levels2[p].worse_price] = [p \in P |-> levels[p].worse_price]
      /\ [p \in P |-> levels2[p].better_price] = [p \in P |-> levels[p].better_price]
  OBVIOUS
<1> QED
  BY <1>1 DEF ListIs

\* A side nobody quotes.
LEMMA ListEmpty ==
    ASSUME NEW side, NEW levels
    PROVE  ListIs({}, side, levels, 0)
BY DEF ListIs, Chain, Ranked, IsFirst

\* A level at p belongs between these two.
FitsLevel(P, side, levels, best, p, better, worse) ==
    /\ better # 0 => /\ better \in P /\ BetterPrice(side, better, p)
                     /\ levels[better].worse_price = worse
    /\ better = 0 => best = worse
    /\ worse # 0 => worse \in P /\ BetterPrice(side, p, worse)

\* The levels after p was put between these two.
LevelsLinkedIn(P, p, better, worse, levels, levels2) ==
    /\ levels2[p].better_price = better /\ levels2[p].worse_price = worse
    /\ \A x \in P :
           /\ levels2[x].worse_price = IF x = better THEN p ELSE levels[x].worse_price
           /\ levels2[x].better_price = IF x = worse THEN p ELSE levels[x].better_price

\* A level is put between two neighbours it belongs between.
LEMMA ListInsert ==
    ASSUME NEW P, NEW side \in Sides, NEW levels, NEW best, ListIs(P, side, levels, best),
           NEW p \in Nat \ {0}, p \notin P, NEW better, NEW worse,
           FitsLevel(P, side, levels, best, p, better, worse),
           NEW levels2, LevelsLinkedIn(P, p, better, worse, levels, levels2)
    PROVE  ListIs(P \cup {p}, side, levels2, IF better = 0 THEN p ELSE best)
<1> DEFINE T == P \cup {p}
           k == PriceRank(side)
           nx == [x \in P |-> levels[x].worse_price]
           pv == [x \in P |-> levels[x].better_price]
           nx2 == [x \in T |-> levels2[x].worse_price]
           pv2 == [x \in T |-> levels2[x].better_price]
<1>1. P \subseteq Nat \ {0} /\ Chain(P, k, best, nx, pv)
  BY DEF ListIs
<1>2. \A x, y \in T : /\ k[x] \in Int
                      /\ k[x] = k[y] => x = y
                      /\ BetterPrice(side, x, y) <=> k[x] < k[y]
  <2> SUFFICES ASSUME NEW x \in T, NEW y \in T
               PROVE  /\ k[x] \in Int
                      /\ k[x] = k[y] => x = y
                      /\ BetterPrice(side, x, y) <=> k[x] < k[y]
    OBVIOUS
  <2>1. x \in Nat /\ y \in Nat
    BY <1>1
  <2>2. k[x] = (IF side = "Bid" THEN -x ELSE x) /\ k[y] = (IF side = "Bid" THEN -y ELSE y)
    BY <2>1 DEF PriceRank
  <2> HIDE DEF k
  <2> QED
    BY <2>1, <2>2 DEF BetterPrice, Sides
<1>3. Ranked(T, k)
  BY <1>1, <1>2 DEF Ranked
<1>4. LinkedIn(P, p, better, worse, nx, pv, nx2, pv2)
  BY DEF LinkedIn, LevelsLinkedIn
<1>5. Fits(P, k, best, nx, p, better, worse)
  <2> HIDE DEF k
  <2> QED
    BY <1>2 DEF Fits, FitsLevel
<1> HIDE DEF k, nx, pv, nx2, pv2
<1>6. Chain(T, k, IF better = 0 THEN p ELSE best, nx2, pv2)
  <2>1. Chain(P, k, best, nx, pv) /\ p \notin P /\ Ranked(P \cup {p}, k)
    BY <1>1, <1>3
  <2> QED
    BY <1>4, <1>5, <2>1, ChainInsert
<1> QED
  BY <1>1, <1>6 DEF ListIs, k, nx2, pv2

\* A level is closed and its neighbours meet.
LEMMA ListRemove ==
    ASSUME NEW P, NEW side \in Sides, NEW levels, NEW best, ListIs(P, side, levels, best),
           NEW p \in P, NEW levels2,
           \A x \in P \ {p} :
               /\ levels2[x].worse_price = IF x = levels[p].better_price
                                           THEN levels[p].worse_price
                                           ELSE levels[x].worse_price
               /\ levels2[x].better_price = IF x = levels[p].worse_price
                                            THEN levels[p].better_price
                                            ELSE levels[x].better_price
    PROVE  ListIs(P \ {p}, side, levels2,
                  IF levels[p].better_price = 0 THEN levels[p].worse_price ELSE best)
<1> DEFINE T == P \ {p}
           k == PriceRank(side)
           nx == [x \in P |-> levels[x].worse_price]
           pv == [x \in P |-> levels[x].better_price]
           nx2 == [x \in T |-> levels2[x].worse_price]
           pv2 == [x \in T |-> levels2[x].better_price]
<1>1. P \subseteq Nat \ {0} /\ Chain(P, k, best, nx, pv)
  BY DEF ListIs
<1>2. /\ nx[p] = levels[p].worse_price /\ pv[p] = levels[p].better_price
      /\ LinkedOut(P, p, nx, pv, nx2, pv2)
  BY DEF LinkedOut
<1> HIDE DEF k, nx, pv, nx2, pv2
<1>3. Chain(T, k, IF pv[p] = 0 THEN nx[p] ELSE best, nx2, pv2)
  BY <1>1, <1>2, ChainRemove
<1> QED
  BY <1>1, <1>2, <1>3 DEF ListIs, k, nx2, pv2

\* The walk q meets the queue S of level lv, in order, and nothing else.
QueueMet(S, orders, lv, q) ==
    LET n == lv.order_count
    IN  /\ n = Cardinality(S) /\ n \in Nat
        /\ {q[j] : j \in 1 .. n} = S
        /\ \A j \in 1 .. n :
               /\ q[j] \in S
               /\ orders[q[j]].previous_order = IF j = 1 THEN 0 ELSE q[j - 1]
               /\ j > 1 => q[j - 1] < q[j]
        /\ n > 0 => lv.last_order = q[n] /\ orders[q[n]].next_order = 0

\* Walking a queue from the first order meets its orders, oldest first.
LEMMA QueueWalk ==
    ASSUME NEW S, NEW orders, NEW lv, QueueIs(S, orders, lv), NEW Ids, S \subseteq Ids
    PROVE  QueueMet(S, orders, lv,
                    Walk(lv.first_order, [i \in Ids |-> orders[i].next_order], lv.order_count))
<1> DEFINE n  == lv.order_count
           h  == lv.first_order
           nx == [i \in Ids |-> orders[i].next_order]
           pv == [i \in S |-> orders[i].previous_order]
           q  == Walk(h, nx, n)
<1>1. /\ n = Cardinality(S) /\ n \in Nat /\ IsFiniteSet(S) /\ S \subseteq Nat \ {0}
      /\ IsLast(S, IdRank, lv.last_order)
  BY FS_CardinalityType DEF QueueIs
<1>2. Chain(S, IdRank, h, nx, pv)
  <2> DEFINE nx0 == [i \in S |-> orders[i].next_order]
  <2>1. Chain(S, IdRank, h, nx0, pv)
    BY DEF QueueIs
  <2>2. \A x \in S : nx[x] = nx0[x] /\ pv[x] = pv[x]
    OBVIOUS
  <2> HIDE DEF nx, nx0, pv, h
  <2> QED
    BY <2>1, <2>2, ChainSame
<1>3. \A i \in S : nx[i] = orders[i].next_order /\ pv[i] = orders[i].previous_order
  OBVIOUS
<1> HIDE DEF nx, pv, h, n
<1>4. /\ {q[j] : j \in 1 .. n} = S
      /\ \A j \in 1 .. n : /\ q[j] \in S
                           /\ pv[q[j]] = IF j = 1 THEN 0 ELSE q[j - 1]
                           /\ j > 1 => IdRank[q[j - 1]] < IdRank[q[j]]
                           /\ j = n => nx[q[j]] = 0
  <2>1. Cardinality(S) <= n
    BY <1>1
  <2> QED
    BY <1>1, <1>2, <2>1, ChainWalk
<1> HIDE DEF q
<1>5. ASSUME NEW j \in 1 .. n
      PROVE  /\ orders[q[j]].previous_order = IF j = 1 THEN 0 ELSE q[j - 1]
             /\ j > 1 => q[j - 1] < q[j]
             /\ j = n => orders[q[j]].next_order = 0
  <2>1. j > 1 => j - 1 \in 1 .. n
    BY <1>1
  <2>2. q[j] \in Nat /\ (j > 1 => q[j - 1] \in Nat)
    BY <1>1, <1>4, <2>1
  <2> QED
    BY <1>3, <1>4, <2>2 DEF IdRank
<1>6. n > 0 => lv.last_order = q[n]
  <2> SUFFICES ASSUME n > 0 PROVE lv.last_order = q[n]
    OBVIOUS
  <2>1. n \in 1 .. n
    BY <1>1
  <2>2. q[n] \in S /\ IsNext(S, IdRank, q[n], nx[q[n]]) /\ nx[q[n]] = 0
    BY <1>2, <1>4, <2>1 DEF Chain
  <2>3. \A y \in S : IdRank[y] = y /\ y \in Nat /\ y <= q[n]
    BY <1>1, <2>2 DEF IsNext, IdRank
  <2>4. lv.last_order \in S /\ \A y \in S : IdRank[y] <= IdRank[lv.last_order]
    BY <1>1, <2>2 DEF IsLast
  <2>5. lv.last_order <= q[n] /\ q[n] <= lv.last_order
    BY <2>2, <2>3, <2>4
  <2> QED
    BY <2>2, <2>3, <2>4, <2>5
<1> QED
  <2>1. n > 0 => n \in 1 .. n
    BY <1>1
  <2> QED
    BY <1>1, <1>4, <1>5, <1>6, <2>1 DEF QueueMet, q, nx, h, n

\* The walk w meets the levels P of a side, in order, and ends.
ListMet(P, side, levels, w) ==
    LET n == Cardinality(P)
    IN  /\ n \in Nat /\ w[n + 1] = 0
        /\ \A j \in 1 .. n :
               /\ w[j] \in P /\ w[j] # 0
               /\ levels[w[j]].better_price = IF j = 1 THEN 0 ELSE w[j - 1]
               /\ j > 1 => BetterPrice(side, w[j - 1], w[j])

\* Walking a side from the best price meets its levels, best first, and ends.
LEMMA ListWalk ==
    ASSUME NEW P, NEW side \in Sides, NEW levels, NEW best, ListIs(P, side, levels, best),
           NEW Prices, IsFiniteSet(Prices), P \subseteq Prices
    PROVE  ListMet(P, side, levels,
                   Walk(best, [p \in Prices |-> levels[p].worse_price], Cardinality(Prices) + 1))
<1> DEFINE n  == Cardinality(P)
           m  == Cardinality(Prices) + 1
           k  == PriceRank(side)
           nx == [p \in Prices |-> levels[p].worse_price]
           pv == [p \in P |-> levels[p].better_price]
           w  == Walk(best, nx, m)
<1>1. IsFiniteSet(P) /\ n \in Nat /\ m \in Nat /\ n < m /\ P \subseteq Nat \ {0}
  <2>1. IsFiniteSet(P) /\ Cardinality(P) <= Cardinality(Prices)
    BY FS_Subset
  <2>2. Cardinality(P) \in Nat /\ Cardinality(Prices) \in Nat
    BY <2>1, FS_CardinalityType
  <2> QED
    BY <2>1, <2>2 DEF ListIs
<1>2. Chain(P, k, best, nx, pv)
  <2> DEFINE nx0 == [p \in P |-> levels[p].worse_price]
  <2>1. Chain(P, k, best, nx0, pv)
    BY DEF ListIs
  <2>2. \A x \in P : nx[x] = nx0[x] /\ pv[x] = pv[x]
    OBVIOUS
  <2> HIDE DEF nx, nx0, pv, k
  <2> QED
    BY <2>1, <2>2, ChainSame
<1>3. \A x \in P : pv[x] = levels[x].better_price
  OBVIOUS
<1>4. \A x, y \in P : BetterPrice(side, x, y) <=> k[x] < k[y]
  BY <1>1 DEF PriceRank, BetterPrice, Sides
<1> HIDE DEF nx, pv, k, m
<1>5. /\ w[n + 1] = 0
      /\ \A j \in 1 .. n : /\ w[j] \in P
                           /\ pv[w[j]] = IF j = 1 THEN 0 ELSE w[j - 1]
                           /\ j > 1 => k[w[j - 1]] < k[w[j]]
  <2>1. Cardinality(P) <= m /\ m > Cardinality(P)
    BY <1>1
  <2> QED
    BY <1>1, <1>2, <2>1, ChainWalk
<1> HIDE DEF w, n
<1>6. ASSUME NEW j \in 1 .. n
      PROVE  /\ w[j] \in P /\ w[j] # 0
             /\ levels[w[j]].better_price = IF j = 1 THEN 0 ELSE w[j - 1]
             /\ j > 1 => BetterPrice(side, w[j - 1], w[j])
  <2>1. j > 1 => j - 1 \in 1 .. n
    BY <1>1
  <2> QED
    BY <1>1, <1>3, <1>4, <1>5, <2>1
<1> QED
  BY <1>1, <1>5, <1>6 DEF ListMet, w, n, nx, m

-----------------------------------------------------------------------------
(* The neighbours of a member *)

\* Naturals sum to a natural.
LEMMA SumOfNaturals ==
    ASSUME NEW f, NEW S, IsFiniteSet(S) /\ \A x \in S : f[x] \in Nat
    PROVE  SumFunctionOnSet(f, S) \in Nat
<1> DEFINE Bad == {s \in SUBSET S : SumFunctionOnSet(f, s) \notin Nat}
<1> SUFFICES ASSUME Bad # {} PROVE FALSE
  OBVIOUS
<1>1. PICK m \in Bad : \A s \in SUBSET m : s # m => s \notin Bad
  <2>1. Bad \in SUBSET SUBSET S
    OBVIOUS
  <2> HIDE DEF Bad
  <2>2. QED
    BY <2>1, SmallestSubset
<1>2. m \in SUBSET S /\ SumFunctionOnSet(f, m) \notin Nat
  OBVIOUS
<1>3. IsFiniteSet(m)
  BY <1>2, FS_Subset
<1>4. m # {}
  BY <1>2, SumEmpty
<1>5. PICK x \in m : SumFunctionOnSet(f, m) = f[x] + SumFunctionOnSet(f, m \ {x})
  BY <1>3, <1>4, SumChosen
<1>6. SumFunctionOnSet(f, m \ {x}) \in Nat
  BY <1>1, <1>2
<1>7. QED
  BY <1>2, <1>5, <1>6

\* ... that none of them exceeds.
LEMMA SumExceeds ==
    ASSUME NEW f, NEW S, IsFiniteSet(S) /\ \A x \in S : f[x] \in Nat, NEW x \in S
    PROVE  SumFunctionOnSet(f, S) >= f[x]
<1> DEFINE rest == SumFunctionOnSet(f, S \ {x})
           all  == SumFunctionOnSet(f, S)
<1>1. all = f[x] + rest
  <2>1. IsFiniteSet(S) /\ \A y \in S : f[y] \in Int
    OBVIOUS
  <2> QED
    BY ONLY <2>1, x \in S, SumRemove
<1>2. rest \in Nat
  <2>1. IsFiniteSet(S \ {x}) /\ \A y \in S \ {x} : f[y] \in Nat
    BY FS_Subset
  <2> QED
    BY ONLY <2>1, SumOfNaturals
<1> HIDE DEF rest, all
<1>3. all >= f[x]
  BY <1>1, <1>2
<1> QED
  BY <1>3 DEF all

\* A link and the link back, and what ends have none.
LEMMA ChainNeighbours ==
    ASSUME NEW S, NEW k, NEW h, NEW next, NEW previous, Chain(S, k, h, next, previous),
           NEW x \in S
    PROVE  /\ h \in S /\ h # 0 /\ k[h] <= k[x]
           /\ (h = x) <=> (previous[x] = 0)
           /\ next[x] # 0 => /\ next[x] \in S /\ k[x] < k[next[x]]
                             /\ previous[next[x]] = x
           /\ previous[x] # 0 => /\ previous[x] \in S /\ k[previous[x]] < k[x]
                                 /\ next[previous[x]] = x
<1>1. \A y \in S : k[y] \in Int /\ y # 0
  BY DEF Chain, Ranked
<1>2. \A y, z \in S : k[y] = k[z] => y = z
  BY DEF Chain, Ranked
<1>3. \A y \in S : IsNext(S, k, y, next[y]) /\ IsPrevious(S, k, y, previous[y])
  BY DEF Chain
<1>4. h \in S /\ h # 0 /\ \A y \in S : k[h] <= k[y]
  BY <1>1 DEF Chain, IsFirst
<1>5. (h = x) <=> (previous[x] = 0)
  <2>1. CASE previous[x] = 0
    <3>1. k[x] <= k[h]
      BY <1>3, <1>4, <2>1 DEF IsPrevious
    <3> QED
      BY <1>1, <1>2, <1>4, <2>1, <3>1
  <2>2. CASE previous[x] # 0
    <3>1. previous[x] \in S /\ k[previous[x]] < k[x]
      BY <1>3, <2>2 DEF IsPrevious
    <3> QED
      BY <1>1, <1>4, <2>2, <3>1
  <2> QED
    BY <2>1, <2>2
<1>6. ASSUME next[x] # 0
      PROVE  next[x] \in S /\ k[x] < k[next[x]] /\ previous[next[x]] = x
  <2> DEFINE n == next[x]
             r == previous[n]
  <2>1. n \in S /\ k[x] < k[n] /\ \A y \in S : k[y] <= k[x] \/ k[n] <= k[y]
    BY <1>3, <1>6 DEF IsNext
  <2>2. r # 0
    <3>1. r = 0 => k[n] <= k[x]
      BY <1>3, <2>1 DEF IsPrevious
    <3> QED
      BY <1>1, <2>1, <3>1
  <2>3. r \in S /\ k[r] < k[n] /\ \A y \in S : k[y] <= k[r] \/ k[n] <= k[y]
    BY <1>3, <2>1, <2>2 DEF IsPrevious
  <2>4. k[r] = k[x]
    BY <1>1, <2>1, <2>3
  <2> QED
    BY <1>2, <2>1, <2>3, <2>4
<1>7. ASSUME previous[x] # 0
      PROVE  previous[x] \in S /\ k[previous[x]] < k[x] /\ next[previous[x]] = x
  <2> DEFINE n == previous[x]
             r == next[n]
  <2>1. n \in S /\ k[n] < k[x] /\ \A y \in S : k[y] <= k[n] \/ k[x] <= k[y]
    BY <1>3, <1>7 DEF IsPrevious
  <2>2. r # 0
    <3>1. r = 0 => k[x] <= k[n]
      BY <1>3, <2>1 DEF IsNext
    <3> QED
      BY <1>1, <2>1, <3>1
  <2>3. r \in S /\ k[n] < k[r] /\ \A y \in S : k[y] <= k[n] \/ k[r] <= k[y]
    BY <1>3, <2>1, <2>2 DEF IsNext
  <2>4. k[r] = k[x]
    BY <1>1, <2>1, <2>3
  <2> QED
    BY <1>2, <2>1, <2>3, <2>4
<1> QED
  BY <1>4, <1>5, <1>6, <1>7

\* The last member is the one nothing follows.
LEMMA ChainEnd ==
    ASSUME NEW S, NEW k, NEW h, NEW next, NEW previous, Chain(S, k, h, next, previous),
           NEW t, IsLast(S, k, t), NEW x \in S
    PROVE  t \in S /\ t # 0 /\ ((t = x) <=> (next[x] = 0))
<1>1. \A y \in S : k[y] \in Int /\ y # 0
  BY DEF Chain, Ranked
<1>2. \A y, z \in S : k[y] = k[z] => y = z
  BY DEF Chain, Ranked
<1>3. IsNext(S, k, x, next[x])
  BY DEF Chain
<1>4. t \in S /\ t # 0 /\ \A y \in S : k[y] <= k[t]
  BY <1>1 DEF IsLast
<1>5. CASE next[x] = 0
  <2>1. k[t] <= k[x]
    BY <1>3, <1>4, <1>5 DEF IsNext
  <2> QED
    BY <1>1, <1>2, <1>4, <1>5, <2>1
<1>6. CASE next[x] # 0
  <2>1. next[x] \in S /\ k[x] < k[next[x]]
    BY <1>3, <1>6 DEF IsNext
  <2> QED
    BY <1>1, <1>4, <1>6, <2>1
<1> QED
  BY <1>5, <1>6

\* What order x of the queue S of level lv finds around it.
InQueue(S, orders, lv, x) ==
    LET o == orders[x]
    IN  /\ lv.order_count \in Nat \ {0}
        /\ lv.first_order \in S /\ lv.first_order # 0
        /\ lv.last_order \in S /\ lv.last_order # 0
        /\ lv.total_remaining_quantity >= o.remaining_quantity
        /\ (lv.first_order = x) <=> (o.previous_order = 0)
        /\ (lv.last_order = x) <=> (o.next_order = 0)
        /\ o.previous_order # 0 => /\ o.previous_order \in S /\ o.previous_order < x
                                   /\ orders[o.previous_order].next_order = x
        /\ o.next_order # 0 => /\ o.next_order \in S /\ o.next_order > x
                               /\ orders[o.next_order].previous_order = x
        /\ lv.order_count = 1 => /\ o.previous_order = 0 /\ o.next_order = 0
                                 /\ lv.total_remaining_quantity = o.remaining_quantity
        /\ lv.order_count # 1 => /\ o.previous_order # 0 \/ o.next_order # 0
                                 /\ lv.total_remaining_quantity > o.remaining_quantity

LEMMA QueueShape ==
    ASSUME NEW S, NEW orders, NEW lv, QueueIs(S, orders, lv),
           \A i \in S : orders[i].remaining_quantity > 0, NEW x \in S
    PROVE  InQueue(S, orders, lv, x)
<1> DEFINE o  == orders[x]
           nx == [i \in S |-> orders[i].next_order]
           pv == [i \in S |-> orders[i].previous_order]
           f  == [i \in S |-> orders[i].remaining_quantity]
           n  == lv.order_count
           T  == S \ {x}
<1>1. /\ IsFiniteSet(S) /\ S \subseteq Nat \ {0}
      /\ n = Cardinality(S) /\ IsLast(S, IdRank, lv.last_order)
      /\ Chain(S, IdRank, lv.first_order, nx, pv)
      /\ lv.total_remaining_quantity = SumFunctionOnSet(f, S)
      /\ \A i \in S : f[i] \in Nat /\ f[i] > 0
  BY DEF QueueIs
<1>2. /\ nx[x] = o.next_order /\ pv[x] = o.previous_order
      /\ f[x] = o.remaining_quantity
      /\ \A i \in S : nx[i] = orders[i].next_order /\ pv[i] = orders[i].previous_order
  OBVIOUS
<1>3. \A i \in S : IdRank[i] = i
  BY <1>1 DEF IdRank
<1> HIDE DEF nx, pv, f, n
<1>4. /\ lv.first_order \in S /\ lv.first_order # 0
      /\ (lv.first_order = x) <=> (pv[x] = 0)
      /\ nx[x] # 0 => nx[x] \in S /\ IdRank[x] < IdRank[nx[x]] /\ pv[nx[x]] = x
      /\ pv[x] # 0 => pv[x] \in S /\ IdRank[pv[x]] < IdRank[x] /\ nx[pv[x]] = x
  BY ONLY <1>1, x \in S, ChainNeighbours
<1>5. lv.last_order \in S /\ lv.last_order # 0 /\ ((lv.last_order = x) <=> (nx[x] = 0))
  BY ONLY <1>1, x \in S, ChainEnd
<1>6. /\ o.previous_order # 0 => /\ o.previous_order \in S /\ o.previous_order < x
                                 /\ orders[o.previous_order].next_order = x
      /\ o.next_order # 0 => /\ o.next_order \in S /\ o.next_order > x
                             /\ orders[o.next_order].previous_order = x
  <2>1. ASSUME o.previous_order # 0
        PROVE  /\ o.previous_order \in S /\ o.previous_order < x
               /\ orders[o.previous_order].next_order = x
    BY <1>2, <1>3, <1>4, <2>1
  <2>2. ASSUME o.next_order # 0
        PROVE  /\ o.next_order \in S /\ o.next_order > x
               /\ orders[o.next_order].previous_order = x
    <3>1. o.next_order \in S /\ x < o.next_order
      BY <1>2, <1>3, <1>4, <2>2
    <3>2. x \in Nat /\ o.next_order \in Nat
      BY <1>1, <3>1
    <3> QED
      BY <1>2, <1>4, <2>2, <3>1, <3>2
  <2> QED
    BY <2>1, <2>2
<1>7. /\ Cardinality(T) = n - 1 /\ IsFiniteSet(T) /\ n \in Nat \ {0}
      /\ T = {} <=> n = 1
  <2>1. Cardinality(T) = Cardinality(S) - 1 /\ IsFiniteSet(T)
    BY <1>1, FS_RemoveElement
  <2>2. Cardinality(T) \in Nat /\ Cardinality(S) \in Nat
    BY <1>1, <2>1, FS_CardinalityType
  <2>3. T = {} <=> Cardinality(T) = 0
    BY <2>1, FS_EmptySet
  <2> HIDE DEF T
  <2> QED
    BY <1>1, <2>1, <2>2, <2>3
<1> DEFINE rest == SumFunctionOnSet(f, T)
<1>8. lv.total_remaining_quantity = f[x] + rest
  <2>1. IsFiniteSet(S) /\ \A i \in S : f[i] \in Int
    BY <1>1
  <2>2. SumFunctionOnSet(f, S) = f[x] + SumFunctionOnSet(f, S \ {x})
    BY ONLY <2>1, x \in S, SumRemove
  <2> QED
    BY <1>1, <2>2
<1>9. n = 1 => rest = 0
  BY <1>7, SumEmpty
<1>10. n # 1 => rest > 0
  <2> SUFFICES ASSUME n # 1 PROVE rest > 0
    OBVIOUS
  <2>1. PICK y \in T : TRUE
    BY <1>7
  <2>2. (IsFiniteSet(T) /\ \A i \in T : f[i] \in Nat) /\ f[y] > 0
    BY <1>1, <1>7, <2>1
  <2> HIDE DEF T
  <2>3. SumFunctionOnSet(f, T) >= f[y]
    BY ONLY <2>2, y \in T, SumExceeds
  <2>4. f[y] \in Nat
    BY <2>2
  <2>5. SumFunctionOnSet(f, T) \in Nat
    BY ONLY <2>2, SumOfNaturals
  <2> DEFINE F == SumFunctionOnSet(f, T)
             m == f[y]
  <2>6. F \in Nat /\ m \in Nat /\ F >= m /\ m > 0
    BY <2>2, <2>3, <2>4, <2>5
  <2> HIDE DEF F, m
  <2>7. F > 0
    BY <2>6
  <2> QED
    BY <2>7 DEF F
<1>11. rest \in Nat
  <2>1. IsFiniteSet(T) /\ \A i \in T : f[i] \in Nat
    BY <1>1, <1>7
  <2> HIDE DEF T
  <2> QED
    BY ONLY <2>1, SumOfNaturals DEF rest
<1> HIDE DEF rest
<1>12. /\ lv.total_remaining_quantity >= o.remaining_quantity
       /\ n = 1 => lv.total_remaining_quantity = o.remaining_quantity
       /\ n # 1 => lv.total_remaining_quantity > o.remaining_quantity
  BY <1>1, <1>2, <1>8, <1>9, <1>10, <1>11
<1>13. n = 1 => o.previous_order = 0 /\ o.next_order = 0
  <2> SUFFICES ASSUME n = 1 PROVE o.previous_order = 0 /\ o.next_order = 0
    OBVIOUS
  <2>1. \A y \in S : y = x
    BY <1>7
  <2>2. x \in Nat /\ ~(x < x) /\ ~(x > x)
    BY <1>1
  <2> QED
    BY <1>6, <2>1, <2>2
<1>14. n # 1 => o.previous_order # 0 \/ o.next_order # 0
  <2> SUFFICES ASSUME o.previous_order = 0, o.next_order = 0 PROVE T = {}
    BY <1>7
  <2>1. \A y \in S : IdRank[x] <= IdRank[y] /\ IdRank[y] <= IdRank[x]
    BY <1>1, <1>2 DEF Chain, IsNext, IsPrevious
  <2>2. \A y \in S : y = x
    BY <1>1, <1>3, <2>1
  <2> QED
    BY <2>2
<1> QED
  BY <1>2, <1>4, <1>5, <1>6, <1>7, <1>12, <1>13, <1>14 DEF InQueue, n

\* What level p of the list P of a side finds around it.
InList(P, side, levels, best, p) ==
    LET lv == levels[p]
    IN  /\ best \in P /\ best # 0
        /\ (best = p) <=> (lv.better_price = 0)
        /\ ~BetterPrice(side, p, best)
        /\ lv.better_price # 0 => /\ lv.better_price \in P
                                  /\ levels[lv.better_price].worse_price = p
                                  /\ BetterPrice(side, lv.better_price, p)
        /\ lv.worse_price # 0 => /\ lv.worse_price \in P
                                 /\ levels[lv.worse_price].better_price = p
                                 /\ BetterPrice(side, p, lv.worse_price)

LEMMA ListShape ==
    ASSUME NEW P, NEW side \in Sides, NEW levels, NEW best, ListIs(P, side, levels, best),
           NEW p \in P
    PROVE  InList(P, side, levels, best, p)
<1> DEFINE k  == PriceRank(side)
           lv == levels[p]
           nx == [x \in P |-> levels[x].worse_price]
           pv == [x \in P |-> levels[x].better_price]
<1>1. P \subseteq Nat \ {0} /\ Chain(P, k, best, nx, pv)
  BY DEF ListIs
<1>2. \A x, y \in P : /\ BetterPrice(side, x, y) <=> k[x] < k[y]
                      /\ ~BetterPrice(side, x, y) <=> k[y] <= k[x]
  <2> SUFFICES ASSUME NEW x \in P, NEW y \in P
               PROVE  /\ BetterPrice(side, x, y) <=> k[x] < k[y]
                      /\ ~BetterPrice(side, x, y) <=> k[y] <= k[x]
    OBVIOUS
  <2>1. x \in Nat /\ y \in Nat
    BY <1>1
  <2>2. k[x] = (IF side = "Bid" THEN -x ELSE x) /\ k[y] = (IF side = "Bid" THEN -y ELSE y)
    BY <2>1 DEF PriceRank
  <2> HIDE DEF k
  <2> QED
    BY <2>1, <2>2 DEF BetterPrice
<1>3. /\ nx[p] = lv.worse_price /\ pv[p] = lv.better_price
      /\ \A x \in P : nx[x] = levels[x].worse_price /\ pv[x] = levels[x].better_price
  OBVIOUS
<1> HIDE DEF k, nx, pv
<1>4. /\ best \in P /\ best # 0 /\ k[best] <= k[p]
      /\ (best = p) <=> (pv[p] = 0)
      /\ nx[p] # 0 => nx[p] \in P /\ k[p] < k[nx[p]] /\ pv[nx[p]] = p
      /\ pv[p] # 0 => pv[p] \in P /\ k[pv[p]] < k[p] /\ nx[pv[p]] = p
  BY ONLY <1>1, p \in P, ChainNeighbours
<1> QED
  BY <1>2, <1>3, <1>4 DEF InList

-----------------------------------------------------------------------------
(* The index of a book: its open orders and where each rests, the order    *)
(* and level accounts and the best price of each list.  Index x is a       *)
(* record of these; `side` gives the side of every list.                   *)

\* The open orders that rest at a level, and the prices of a list's levels.
IdsAt(x, l, p) == {i \in x.open : x.place[i] = <<l, p>>}
PricesIn(levels) == {p \in DOMAIN levels : levels[p].order_count > 0}

\* Each list is linked as its prices rank, and each queue as its ids rank.
IndexIs(lists, side, x) ==
    \A l \in lists :
        /\ ListIs(PricesIn(x.level[l]), side[l], x.level[l], x.best[l])
        /\ \A p \in DOMAIN x.level[l] : QueueIs(IdsAt(x, l, p), x.orders, x.level[l][p])

\* The orders at a level are the same and are linked as before.
QueueKept(x, y, l, p) ==
    /\ IdsAt(y, l, p) = IdsAt(x, l, p)
    /\ \A i \in IdsAt(x, l, p) : SameOrder(x.orders[i], y.orders[i])

\* The orders of one level are a queue again, no other level lost or gained any.
OneQueue(x, y, l, p) ==
    /\ QueueIs(IdsAt(y, l, p), y.orders, y.level[l][p])
    /\ \A k, r : k # l \/ r # p => QueueKept(x, y, k, r)

\* No list but l has other levels or another best price.
OneList(lists, x, y, l) ==
    \A k \in lists \ {l} : y.level[k] = x.level[k] /\ y.best[k] = x.best[k]

\* The levels of a list are linked again, all but p have the queue they had.
Relisted(side, levels, best, levels2, best2, p) ==
    /\ DOMAIN levels2 = DOMAIN levels
    /\ ListIs(PricesIn(levels2), side, levels2, best2)
    /\ \A r \in DOMAIN levels \ {p} : SameQueue(levels[r], levels2[r])

\* A step that disturbs one level and its list as it should keeps the index.
LEMMA IndexStep ==
    ASSUME NEW lists, NEW side, NEW x, IndexIs(lists, side, x), NEW y,
           NEW l \in lists, NEW p,
           OneList(lists, x, y, l), OneQueue(x, y, l, p),
           Relisted(side[l], x.level[l], x.best[l], y.level[l], y.best[l], p)
    PROVE  IndexIs(lists, side, y)
<1>1. ASSUME NEW k \in lists, NEW r \in DOMAIN x.level[k], k # l \/ r # p
      PROVE  QueueIs(IdsAt(y, k, r), y.orders, y.level[k][r])
  <2>1. QueueIs(IdsAt(x, k, r), x.orders, x.level[k][r])
    BY DEF IndexIs
  <2>2. QueueKept(x, y, k, r)
    BY <1>1 DEF OneQueue
  <2>3. SameQueue(x.level[k][r], y.level[k][r])
    BY <1>1 DEF OneList, Relisted, SameQueue
  <2> QED
    BY <2>1, <2>2, <2>3, QueueSame DEF QueueKept
<1>2. ASSUME NEW k \in lists, k # l
      PROVE  /\ ListIs(PricesIn(y.level[k]), side[k], y.level[k], y.best[k])
             /\ \A r \in DOMAIN y.level[k] : QueueIs(IdsAt(y, k, r), y.orders, y.level[k][r])
  <2>1. y.level[k] = x.level[k] /\ y.best[k] = x.best[k]
    BY <1>2 DEF OneList
  <2> QED
    BY <1>1, <1>2, <2>1 DEF IndexIs
<1>3. /\ ListIs(PricesIn(y.level[l]), side[l], y.level[l], y.best[l])
      /\ \A r \in DOMAIN y.level[l] : QueueIs(IdsAt(y, l, r), y.orders, y.level[l][r])
  <2>1. ASSUME NEW r \in DOMAIN y.level[l]
        PROVE  QueueIs(IdsAt(y, l, r), y.orders, y.level[l][r])
    <3>1. CASE r = p
      BY <3>1 DEF OneQueue
    <3>2. CASE r # p
      BY <1>1, <3>2 DEF Relisted
    <3> QED
      BY <3>1, <3>2
  <2> QED
    BY <2>1 DEF Relisted
<1> QED
  BY <1>2, <1>3 DEF IndexIs

\* A book without open orders, levels and best prices.
LEMMA IndexEmpty ==
    ASSUME NEW lists, NEW side, NEW x, x.open = {},
           \A l \in lists :
               /\ x.best[l] = 0
               /\ \A p \in DOMAIN x.level[l] :
                      /\ x.level[l][p].first_order = 0 /\ x.level[l][p].last_order = 0
                      /\ x.level[l][p].order_count = 0
                      /\ x.level[l][p].total_remaining_quantity = 0
    PROVE  IndexIs(lists, side, x)
<1> SUFFICES ASSUME NEW l \in lists
             PROVE  /\ ListIs(PricesIn(x.level[l]), side[l], x.level[l], x.best[l])
                    /\ \A p \in DOMAIN x.level[l] :
                           QueueIs(IdsAt(x, l, p), x.orders, x.level[l][p])
  BY DEF IndexIs
<1>1. PricesIn(x.level[l]) = {} /\ \A p \in DOMAIN x.level[l] : IdsAt(x, l, p) = {}
  BY DEF PricesIn, IdsAt
<1>2. ASSUME NEW p \in DOMAIN x.level[l]
      PROVE  QueueIs(IdsAt(x, l, p), x.orders, x.level[l][p])
  BY <1>1, QueueEmpty
<1> QED
  BY <1>1, <1>2, ListEmpty

\* Once no order is open, no level is left.
LEMMA IndexOfNone ==
    ASSUME NEW lists, NEW side, NEW x, IndexIs(lists, side, x), x.open = {}, NEW l \in lists
    PROVE  /\ x.best[l] = 0
           /\ \A p \in DOMAIN x.level[l] :
                  /\ x.level[l][p].first_order = 0 /\ x.level[l][p].last_order = 0
                  /\ x.level[l][p].order_count = 0
                  /\ x.level[l][p].total_remaining_quantity = 0
<1>1. ASSUME NEW p \in DOMAIN x.level[l]
      PROVE  /\ x.level[l][p].first_order = 0 /\ x.level[l][p].last_order = 0
             /\ x.level[l][p].order_count = 0
             /\ x.level[l][p].total_remaining_quantity = 0
  <2>1. QueueIs({}, x.orders, x.level[l][p])
    <3>1. IdsAt(x, l, p) = {}
      BY DEF IdsAt
    <3> QED
      BY <3>1 DEF IndexIs
  <2>2. x.level[l][p].order_count = 0
    BY <2>1, FS_EmptySet DEF QueueIs
  <2> QED
    BY <2>1, <2>2, QueueOfNone
<1>2. PricesIn(x.level[l]) = {}
  BY <1>1 DEF PricesIn
<1>3. ListIs({}, side[l], x.level[l], x.best[l])
  BY <1>2 DEF IndexIs
<1> QED
  BY <1>1, <1>3 DEF ListIs, Chain, IsFirst

-----------------------------------------------------------------------------
(* What a step may do to the levels of a list *)

\* Level p exists before and after, and no link changes.
LevelKept(levels, levels2, p) ==
    /\ DOMAIN levels2 = DOMAIN levels /\ p \in DOMAIN levels
    /\ levels[p].order_count > 0 /\ levels2[p].order_count > 0
    /\ \A r \in DOMAIN levels : /\ levels2[r].worse_price = levels[r].worse_price
                                /\ levels2[r].better_price = levels[r].better_price
                                /\ r # p => SameQueue(levels[r], levels2[r])

\* Level p is created between these two.
LevelOpened(levels, levels2, p, better, worse) ==
    /\ DOMAIN levels2 = DOMAIN levels /\ p \in DOMAIN levels
    /\ levels[p].order_count = 0 /\ levels2[p].order_count > 0
    /\ LevelsLinkedIn(DOMAIN levels \ {p}, p, better, worse, levels, levels2)
    /\ \A r \in DOMAIN levels \ {p} : SameQueue(levels[r], levels2[r])

\* Level p is deleted and its neighbours become adjacent.
LevelClosed(levels, levels2, p) ==
    /\ DOMAIN levels2 = DOMAIN levels /\ p \in DOMAIN levels
    /\ levels[p].order_count > 0 /\ levels2[p].order_count = 0
    /\ \A r \in DOMAIN levels \ {p} :
           /\ levels2[r].worse_price = IF r = levels[p].better_price
                                       THEN levels[p].worse_price ELSE levels[r].worse_price
           /\ levels2[r].better_price = IF r = levels[p].worse_price
                                        THEN levels[p].better_price ELSE levels[r].better_price
           /\ SameQueue(levels[r], levels2[r])

\* A level that stays keeps the list linked.
LEMMA KeptRelists ==
    ASSUME NEW side, NEW levels, NEW best, ListIs(PricesIn(levels), side, levels, best),
           NEW levels2, NEW p, LevelKept(levels, levels2, p)
    PROVE  Relisted(side, levels, best, levels2, best, p)
<1>1. PricesIn(levels2) = PricesIn(levels)
  BY DEF LevelKept, PricesIn, SameQueue
<1>2. \A r \in PricesIn(levels) : /\ levels2[r].worse_price = levels[r].worse_price
                                  /\ levels2[r].better_price = levels[r].better_price
  BY DEF LevelKept, PricesIn
<1>3. ListIs(PricesIn(levels), side, levels2, best)
  BY <1>2, ListSame
<1> QED
  BY <1>1, <1>3 DEF LevelKept, Relisted

\* A new level takes its place in the list.
LEMMA OpenedRelists ==
    ASSUME NEW side \in Sides, NEW levels, NEW best,
           ListIs(PricesIn(levels), side, levels, best),
           NEW levels2, NEW p \in Nat \ {0}, NEW better, NEW worse,
           FitsLevel(PricesIn(levels), side, levels, best, p, better, worse),
           LevelOpened(levels, levels2, p, better, worse)
    PROVE  Relisted(side, levels, best, levels2, IF better = 0 THEN p ELSE best, p)
<1> DEFINE P == PricesIn(levels)
<1>1. p \notin P /\ PricesIn(levels2) = P \cup {p}
  BY DEF LevelOpened, PricesIn, SameQueue
<1>2. LevelsLinkedIn(P, p, better, worse, levels, levels2)
  BY <1>1 DEF LevelOpened, PricesIn, LevelsLinkedIn
<1>3. ListIs(P \cup {p}, side, levels2, IF better = 0 THEN p ELSE best)
  <2>1. /\ ListIs(P, side, levels, best)
        /\ FitsLevel(P, side, levels, best, p, better, worse)
    OBVIOUS
  <2> HIDE DEF P
  <2> QED
    BY <1>1, <1>2, <2>1, ListInsert
<1> QED
  BY <1>1, <1>3 DEF LevelOpened, Relisted

\* A level leaves the list.
LEMMA ClosedRelists ==
    ASSUME NEW side \in Sides, NEW levels, NEW best,
           ListIs(PricesIn(levels), side, levels, best),
           NEW levels2, NEW p, LevelClosed(levels, levels2, p)
    PROVE  Relisted(side, levels, best, levels2,
                    IF levels[p].better_price = 0 THEN levels[p].worse_price ELSE best, p)
<1> DEFINE P == PricesIn(levels)
<1>1. p \in P /\ PricesIn(levels2) = P \ {p}
  BY DEF LevelClosed, PricesIn, SameQueue
<1>2. \A r \in P \ {p} :
          /\ levels2[r].worse_price = IF r = levels[p].better_price
                                      THEN levels[p].worse_price ELSE levels[r].worse_price
          /\ levels2[r].better_price = IF r = levels[p].worse_price
                                       THEN levels[p].better_price
                                       ELSE levels[r].better_price
  BY DEF LevelClosed, PricesIn
<1>3. ListIs(P \ {p}, side, levels2,
             IF levels[p].better_price = 0 THEN levels[p].worse_price ELSE best)
  <2>1. ListIs(P, side, levels, best)
    OBVIOUS
  <2> HIDE DEF P
  <2> QED
    BY <1>1, <1>2, <2>1, ListRemove
<1> QED
  BY <1>1, <1>3 DEF LevelClosed, Relisted

-----------------------------------------------------------------------------
(* What a step may do to the orders of a level *)

\* Order id is placed behind the last order of the level, q to trade.
Enters(x, y, l, p, id, q) ==
    LET lv  == x.level[l][p]
        lv2 == y.level[l][p]
    IN  /\ id \in Nat \ {0} /\ q \in Nat
        /\ \A i \in x.open : i \in Nat \ {0} /\ i < id
        /\ y.open = x.open \cup {id} /\ y.place[id] = <<l, p>>
        /\ y.orders[id].previous_order = lv.last_order
        /\ y.orders[id].next_order = 0
        /\ y.orders[id].remaining_quantity = q
        /\ \A i \in x.open :
               /\ y.place[i] = x.place[i]
               /\ y.orders[i].next_order = IF i = lv.last_order THEN id
                                           ELSE x.orders[i].next_order
               /\ y.orders[i].previous_order = x.orders[i].previous_order
               /\ y.orders[i].remaining_quantity = x.orders[i].remaining_quantity
        /\ lv2.first_order = IF lv.last_order = 0 THEN id ELSE lv.first_order
        /\ lv2.last_order = id
        /\ lv2.order_count = lv.order_count + 1
        /\ lv2.total_remaining_quantity = lv.total_remaining_quantity + q

\* Order i of the level is open no more and its neighbours name each other.
Leaves(x, y, l, p, i) ==
    LET o   == x.orders[i]
        lv  == x.level[l][p]
        lv2 == y.level[l][p]
    IN  /\ i \in IdsAt(x, l, p) /\ y.open = x.open \ {i} /\ 0 \notin x.open
        /\ \A j \in x.open \ {i} :
               /\ y.place[j] = x.place[j]
               /\ y.orders[j].next_order = IF j = o.previous_order THEN o.next_order
                                           ELSE x.orders[j].next_order
               /\ y.orders[j].previous_order = IF j = o.next_order THEN o.previous_order
                                               ELSE x.orders[j].previous_order
               /\ y.orders[j].remaining_quantity = x.orders[j].remaining_quantity
        /\ lv2.first_order = IF o.previous_order = 0 THEN o.next_order ELSE lv.first_order
        /\ lv2.last_order = IF o.next_order = 0 THEN o.previous_order ELSE lv.last_order
        /\ lv2.order_count = lv.order_count - 1
        /\ lv2.total_remaining_quantity = lv.total_remaining_quantity - o.remaining_quantity

\* Order i of the level and the level itself have d less left.
Shrinks(x, y, l, p, i, d) ==
    LET lv  == x.level[l][p]
        lv2 == y.level[l][p]
    IN  /\ i \in IdsAt(x, l, p) /\ y.open = x.open /\ d \in Int
        /\ \A j \in x.open : y.place[j] = x.place[j]
        /\ \A j \in x.open \ {i} : SameOrder(x.orders[j], y.orders[j])
        /\ y.orders[i].next_order = x.orders[i].next_order
        /\ y.orders[i].previous_order = x.orders[i].previous_order
        /\ y.orders[i].remaining_quantity = x.orders[i].remaining_quantity - d
        /\ y.orders[i].remaining_quantity \in Nat
        /\ lv2.first_order = lv.first_order /\ lv2.last_order = lv.last_order
        /\ lv2.order_count = lv.order_count
        /\ lv2.total_remaining_quantity = lv.total_remaining_quantity - d

\* A new order joins the queue of its level and no other.
LEMMA EnteredQueue ==
    ASSUME NEW x, NEW y, NEW l, NEW p, NEW id, NEW q,
           QueueIs(IdsAt(x, l, p), x.orders, x.level[l][p]), Enters(x, y, l, p, id, q)
    PROVE  OneQueue(x, y, l, p)
<1> DEFINE S    == IdsAt(x, l, p)
           lv   == x.level[l][p]
           lv2  == y.level[l][p]
           tail == lv.last_order
<1>1. /\ id \in Nat \ {0} /\ q \in Nat /\ id \notin x.open
      /\ y.open = x.open \cup {id} /\ y.place[id] = <<l, p>>
      /\ \A i \in x.open : y.place[i] = x.place[i]
  BY DEF Enters
<1>2. tail = 0 \/ tail \in S
  BY DEF QueueIs, IsLast
<1>3. IdsAt(y, l, p) = S \cup {id}
  BY <1>1 DEF IdsAt
<1>4. QueueIs(S \cup {id}, y.orders, lv2)
  <2> DEFINE orders == x.orders
             orders2 == y.orders
  <2>1. /\ orders2[id].previous_order = tail /\ orders2[id].next_order = 0
        /\ orders2[id].remaining_quantity = q
        /\ lv2.first_order = IF tail = 0 THEN id ELSE lv.first_order
        /\ lv2.last_order = id /\ lv2.order_count = lv.order_count + 1
        /\ lv2.total_remaining_quantity = lv.total_remaining_quantity + q
    BY DEF Enters
  <2>2. \A i \in S : /\ i < id
                     /\ orders2[i].next_order = IF i = tail THEN id
                                                 ELSE orders[i].next_order
                     /\ orders2[i].previous_order = orders[i].previous_order
                     /\ orders2[i].remaining_quantity = orders[i].remaining_quantity
    BY DEF Enters, IdsAt
  <2>3. QueueIs(S, orders, lv)
    OBVIOUS
  <2> HIDE DEF S, lv, lv2, tail, orders, orders2
  <2>4. QueueIs(S \cup {id}, orders2, lv2)
    BY <1>1, <2>1, <2>2, <2>3, QueueAppend DEF tail
  <2> QED
    BY <2>4 DEF orders2
<1>5. ASSUME NEW k, NEW r, k # l \/ r # p
      PROVE  QueueKept(x, y, k, r)
  <2>1. IdsAt(y, k, r) = IdsAt(x, k, r)
    <3>1. <<k, r>> # <<l, p>>
      BY <1>5
    <3> QED
      BY <1>1, <3>1 DEF IdsAt
  <2>2. \A i \in IdsAt(x, k, r) : i \in x.open /\ i # tail
    <3>1. \A i \in IdsAt(x, k, r) : i \in x.open /\ i \notin S
      BY <1>5 DEF IdsAt
    <3>2. 0 \notin x.open
      BY DEF Enters
    <3> QED
      BY <1>2, <3>1, <3>2
  <2> QED
    BY <2>1, <2>2 DEF QueueKept, SameOrder, Enters
<1> QED
  BY <1>3, <1>4, <1>5 DEF OneQueue

\* An order leaves its queue and no other.
LEMMA LeftQueue ==
    ASSUME NEW x, NEW y, NEW l, NEW p, NEW i,
           QueueIs(IdsAt(x, l, p), x.orders, x.level[l][p]), Leaves(x, y, l, p, i)
    PROVE  OneQueue(x, y, l, p)
<1> DEFINE S   == IdsAt(x, l, p)
           o   == x.orders[i]
           lv  == x.level[l][p]
           lv2 == y.level[l][p]
<1>1. /\ i \in S /\ i \in x.open /\ x.place[i] = <<l, p>>
      /\ y.open = x.open \ {i} /\ 0 \notin x.open
      /\ \A j \in x.open \ {i} : y.place[j] = x.place[j]
  BY DEF Leaves, IdsAt
<1>2. /\ o.previous_order = 0 \/ o.previous_order \in S
      /\ o.next_order = 0 \/ o.next_order \in S
  BY <1>1 DEF QueueIs, Chain, IsNext, IsPrevious
<1>3. IdsAt(y, l, p) = S \ {i}
  BY <1>1 DEF IdsAt
<1>4. QueueIs(S \ {i}, y.orders, lv2)
  <2>1. \A j \in S \ {i} :
            /\ y.orders[j].next_order = IF j = o.previous_order THEN o.next_order
                                        ELSE x.orders[j].next_order
            /\ y.orders[j].previous_order = IF j = o.next_order THEN o.previous_order
                                            ELSE x.orders[j].previous_order
            /\ y.orders[j].remaining_quantity = x.orders[j].remaining_quantity
    BY DEF Leaves, IdsAt
  <2>2. /\ lv2.first_order = IF o.previous_order = 0 THEN o.next_order ELSE lv.first_order
        /\ lv2.last_order = IF o.next_order = 0 THEN o.previous_order ELSE lv.last_order
        /\ lv2.order_count = lv.order_count - 1
        /\ lv2.total_remaining_quantity = lv.total_remaining_quantity - o.remaining_quantity
    BY DEF Leaves
  <2> DEFINE orders == x.orders
             orders2 == y.orders
  <2>3. QueueIs(S, orders, lv)
    OBVIOUS
  <2> HIDE DEF S, lv, lv2, orders2
  <2>4. QueueIs(S \ {i}, orders2, lv2)
    BY <1>1, <2>1, <2>2, <2>3, QueueRemove DEF orders2
  <2> QED
    BY <2>4 DEF orders2
<1>5. ASSUME NEW k, NEW r, k # l \/ r # p
      PROVE  QueueKept(x, y, k, r)
  <2>1. IdsAt(y, k, r) = IdsAt(x, k, r)
    <3>1. <<k, r>> # <<l, p>>
      BY <1>5
    <3> QED
      BY <1>1, <3>1 DEF IdsAt
  <2>2. \A j \in IdsAt(x, k, r) : /\ j \in x.open \ {i}
                                  /\ j # o.previous_order /\ j # o.next_order
    <3>1. \A j \in IdsAt(x, k, r) : j \in x.open /\ j \notin S /\ j # 0
      BY <1>1, <1>5 DEF IdsAt
    <3> HIDE DEF S, o
    <3> QED
      BY <1>1, <1>2, <3>1
  <2> QED
    BY <2>1, <2>2 DEF QueueKept, SameOrder, Leaves
<1> QED
  BY <1>3, <1>4, <1>5 DEF OneQueue

\* An order of the queue has less left.
LEMMA ShrunkQueue ==
    ASSUME NEW x, NEW y, NEW l, NEW p, NEW i, NEW d,
           QueueIs(IdsAt(x, l, p), x.orders, x.level[l][p]), Shrinks(x, y, l, p, i, d)
    PROVE  OneQueue(x, y, l, p)
<1> DEFINE S   == IdsAt(x, l, p)
           lv  == x.level[l][p]
           lv2 == y.level[l][p]
<1>1. /\ i \in S /\ i \in x.open /\ x.place[i] = <<l, p>>
      /\ y.open = x.open /\ d \in Int
      /\ \A j \in x.open : y.place[j] = x.place[j]
  BY DEF Shrinks, IdsAt
<1>2. \A k, r : IdsAt(y, k, r) = IdsAt(x, k, r)
  BY <1>1 DEF IdsAt
<1>3. QueueIs(S, y.orders, lv2)
  <2>1. /\ \A j \in S \ {i} : SameOrder(x.orders[j], y.orders[j])
        /\ y.orders[i].next_order = x.orders[i].next_order
        /\ y.orders[i].previous_order = x.orders[i].previous_order
        /\ y.orders[i].remaining_quantity = x.orders[i].remaining_quantity - d
        /\ y.orders[i].remaining_quantity \in Nat
        /\ lv2.first_order = lv.first_order /\ lv2.last_order = lv.last_order
        /\ lv2.order_count = lv.order_count
        /\ lv2.total_remaining_quantity = lv.total_remaining_quantity - d
    BY DEF Shrinks, IdsAt
  <2> DEFINE orders == x.orders
             orders2 == y.orders
  <2>2. QueueIs(S, orders, lv)
    OBVIOUS
  <2> HIDE DEF S, lv, lv2, orders, orders2
  <2>3. QueueIs(S, orders2, lv2)
    BY <1>1, <2>1, <2>2, QueueFill DEF orders, orders2
  <2> QED
    BY <2>3 DEF orders2
<1>4. ASSUME NEW k, NEW r, k # l \/ r # p
      PROVE  QueueKept(x, y, k, r)
  <2>1. \A j \in IdsAt(x, k, r) : j \in x.open \ {i}
    <3>1. <<k, r>> # <<l, p>>
      BY <1>4
    <3> QED
      BY <1>1, <3>1 DEF IdsAt
  <2> QED
    BY <1>2, <2>1 DEF QueueKept, Shrinks
<1> QED
  BY <1>2, <1>3, <1>4 DEF OneQueue

-----------------------------------------------------------------------------
(* The steps of a book, as its index sees them *)

\* An order joins a level that exists.
AppendIn(lists, x, y, l, p, id, q) ==
    /\ Enters(x, y, l, p, id, q)
    /\ LevelKept(x.level[l], y.level[l], p)
    /\ y.best[l] = x.best[l] /\ OneList(lists, x, y, l)

\* An order opens a level between two neighbours or none.
InsertIn(lists, side, x, y, l, p, id, q, better, worse) ==
    /\ Enters(x, y, l, p, id, q)
    /\ p \in Nat \ {0}
    /\ FitsLevel(PricesIn(x.level[l]), side[l], x.level[l], x.best[l], p, better, worse)
    /\ LevelOpened(x.level[l], y.level[l], p, better, worse)
    /\ y.best[l] = IF better = 0 THEN p ELSE x.best[l]
    /\ OneList(lists, x, y, l)

\* An order leaves, and its level with it when it was the only one.
RemoveIn(lists, x, y, l, p, i) ==
    /\ Leaves(x, y, l, p, i) /\ OneList(lists, x, y, l)
    /\ IF x.level[l][p].order_count = 1
       THEN /\ LevelClosed(x.level[l], y.level[l], p)
            /\ y.best[l] = IF x.level[l][p].better_price = 0
                           THEN x.level[l][p].worse_price ELSE x.best[l]
       ELSE LevelKept(x.level[l], y.level[l], p) /\ y.best[l] = x.best[l]

\* An order has less left.
ShrinkIn(lists, x, y, l, p, i, d) ==
    /\ Shrinks(x, y, l, p, i, d)
    /\ LevelKept(x.level[l], y.level[l], p)
    /\ y.best[l] = x.best[l] /\ OneList(lists, x, y, l)

\* Appending keeps the index.
LEMMA AppendKeepsIndex ==
    ASSUME NEW lists, NEW side, NEW x, IndexIs(lists, side, x), NEW y, NEW l \in lists,
           NEW p, NEW id, NEW q, AppendIn(lists, x, y, l, p, id, q)
    PROVE  IndexIs(lists, side, y)
<1>1. p \in DOMAIN x.level[l]
  BY DEF AppendIn, LevelKept
<1>2. OneQueue(x, y, l, p)
  BY <1>1, EnteredQueue DEF IndexIs, AppendIn
<1>3. Relisted(side[l], x.level[l], x.best[l], y.level[l], y.best[l], p)
  BY KeptRelists DEF IndexIs, AppendIn
<1> QED
  BY <1>2, <1>3, IndexStep DEF AppendIn

\* Inserting a level keeps the index.
LEMMA InsertKeepsIndex ==
    ASSUME NEW lists, NEW side, NEW x, IndexIs(lists, side, x), NEW y, NEW l \in lists,
           side[l] \in Sides, NEW p, NEW id, NEW q, NEW better, NEW worse,
           InsertIn(lists, side, x, y, l, p, id, q, better, worse)
    PROVE  IndexIs(lists, side, y)
<1>1. p \in DOMAIN x.level[l]
  BY DEF InsertIn, LevelOpened
<1>2. OneQueue(x, y, l, p)
  BY <1>1, EnteredQueue DEF IndexIs, InsertIn
<1>3. Relisted(side[l], x.level[l], x.best[l], y.level[l], y.best[l], p)
  BY OpenedRelists DEF IndexIs, InsertIn
<1> QED
  BY <1>2, <1>3, IndexStep DEF InsertIn

\* Removing an order keeps the index.
LEMMA RemoveKeepsIndex ==
    ASSUME NEW lists, NEW side, NEW x, IndexIs(lists, side, x), NEW y, NEW l \in lists,
           side[l] \in Sides, NEW p, NEW i, RemoveIn(lists, x, y, l, p, i)
    PROVE  IndexIs(lists, side, y)
<1>1. p \in DOMAIN x.level[l]
  BY DEF RemoveIn, LevelKept, LevelClosed
<1>2. OneQueue(x, y, l, p)
  BY <1>1, LeftQueue DEF IndexIs, RemoveIn
<1>3. Relisted(side[l], x.level[l], x.best[l], y.level[l], y.best[l], p)
  <2>1. CASE x.level[l][p].order_count = 1
    BY <2>1, ClosedRelists DEF IndexIs, RemoveIn
  <2>2. CASE x.level[l][p].order_count # 1
    BY <2>2, KeptRelists DEF IndexIs, RemoveIn
  <2> QED
    BY <2>1, <2>2
<1> QED
  BY <1>2, <1>3, IndexStep DEF RemoveIn

\* A partial fill keeps the index.
LEMMA ShrinkKeepsIndex ==
    ASSUME NEW lists, NEW side, NEW x, IndexIs(lists, side, x), NEW y, NEW l \in lists,
           NEW p, NEW i, NEW d, ShrinkIn(lists, x, y, l, p, i, d)
    PROVE  IndexIs(lists, side, y)
<1>1. p \in DOMAIN x.level[l]
  BY DEF ShrinkIn, LevelKept
<1>2. OneQueue(x, y, l, p)
  BY <1>1, ShrunkQueue DEF IndexIs, ShrinkIn
<1>3. Relisted(side[l], x.level[l], x.best[l], y.level[l], y.best[l], p)
  BY KeptRelists DEF IndexIs, ShrinkIn
<1> QED
  BY <1>2, <1>3, IndexStep DEF ShrinkIn

-----------------------------------------------------------------------------
(* The accounts of a book and the index they form.  `key` is the field in  *)
(* which an order names its list: "list", or "side" where a side is one.   *)

OrderFields == {"status", "price", "remaining_quantity", "next_order", "previous_order"}
LevelFields == {"better_price", "worse_price", "first_order", "last_order",
                "total_remaining_quantity", "order_count"}

OrderAccounts(key, orders) ==
    /\ key \in {"list", "side"} /\ DOMAIN orders \subseteq Nat \ {0}
    /\ \A i \in DOMAIN orders : OrderFields \cup {key} \subseteq DOMAIN orders[i]

LevelAccounts(levels) == \A p \in DOMAIN levels : LevelFields \subseteq DOMAIN levels[p]

IndexOf(key, orders, level, best) ==
    [open   |-> {i \in DOMAIN orders : orders[i].status = "Open"},
     place  |-> [i \in DOMAIN orders |-> <<orders[i][key], orders[i].price>>],
     orders |-> orders, level |-> level, best |-> best]

\* The orders with `new` at id and its predecessor linked to it.
Placed(orders, id, new, previous) ==
    [j \in DOMAIN orders |->
        IF j = id THEN new
        ELSE IF j = previous THEN [orders[j] EXCEPT !.next_order = id]
        ELSE orders[j]]

\* `new` is an order of quantity q that belongs at a level behind `tail`, under
\* an id no open order has reached.
FitsQueue(key, orders, l, p, id, new, tail, q) ==
    /\ id \in DOMAIN orders /\ orders[id].status # "Open"
    /\ \A i \in DOMAIN orders : orders[i].status = "Open" => i < id
    /\ new.status = "Open" /\ new[key] = l /\ new.price = p
    /\ new.previous_order = tail /\ new.next_order = 0
    /\ new.remaining_quantity = q /\ q \in Nat

\* A level gains an order of quantity q behind its queue.
Gains(lv, lv2, id, q) ==
    /\ lv2.first_order = IF lv.last_order = 0 THEN id ELSE lv.first_order
    /\ lv2.last_order = id
    /\ lv2.order_count = lv.order_count + 1
    /\ lv2.total_remaining_quantity = lv.total_remaining_quantity + q

\* Placing such an order is what entering means.
LEMMA PlacedEnters ==
    ASSUME NEW key, NEW orders, OrderAccounts(key, orders), NEW level, NEW best,
           NEW l, NEW p, NEW id, NEW new, NEW q,
           FitsQueue(key, orders, l, p, id, new, level[l][p].last_order, q),
           NEW level2, NEW best2, Gains(level[l][p], level2[l][p], id, q)
    PROVE  Enters(IndexOf(key, orders, level, best),
                  IndexOf(key, Placed(orders, id, new, level[l][p].last_order), level2, best2),
                  l, p, id, q)
<1> DEFINE tail    == level[l][p].last_order
           orders2 == Placed(orders, id, new, tail)
           x       == IndexOf(key, orders, level, best)
           y       == IndexOf(key, orders2, level2, best2)
<1>0. /\ id \in DOMAIN orders /\ orders[id].status # "Open"
      /\ \A i \in DOMAIN orders : orders[i].status = "Open" => i < id
      /\ new.status = "Open" /\ new[key] = l /\ new.price = p
      /\ new.previous_order = tail /\ new.next_order = 0
      /\ new.remaining_quantity = q /\ q \in Nat
      /\ DOMAIN orders \subseteq Nat \ {0}
  BY DEF FitsQueue, OrderAccounts
<1>1. DOMAIN orders2 = DOMAIN orders /\ orders2[id] = new
  BY <1>0 DEF Placed
<1>2. ASSUME NEW j \in DOMAIN orders, j # id
      PROVE  /\ orders2[j].status = orders[j].status /\ orders2[j][key] = orders[j][key]
             /\ orders2[j].price = orders[j].price
             /\ orders2[j].remaining_quantity = orders[j].remaining_quantity
             /\ orders2[j].previous_order = orders[j].previous_order
             /\ orders2[j].next_order = IF j = tail THEN id ELSE orders[j].next_order
  <2>1. OrderFields \cup {key} \subseteq DOMAIN orders[j] /\ key \in {"list", "side"}
    BY DEF OrderAccounts
  <2>2. orders2[j] = IF j = tail THEN [orders[j] EXCEPT !.next_order = id] ELSE orders[j]
    BY <1>2 DEF Placed
  <2> HIDE DEF orders2, tail
  <2> QED
    BY ONLY <2>1, <2>2 DEF OrderFields
<1>3. /\ x.open = {i \in DOMAIN orders : orders[i].status = "Open"}
      /\ x.orders = orders /\ x.level = level
      /\ \A i \in DOMAIN orders : x.place[i] = <<orders[i][key], orders[i].price>>
  BY DEF IndexOf
<1>4. /\ y.open = {i \in DOMAIN orders2 : orders2[i].status = "Open"}
      /\ y.orders = orders2 /\ y.level = level2
      /\ \A i \in DOMAIN orders2 : y.place[i] = <<orders2[i][key], orders2[i].price>>
  BY DEF IndexOf
<1> HIDE DEF x, y, orders2, tail
<1>5. /\ y.open = x.open \cup {id} /\ y.place[id] = <<l, p>>
      /\ \A i \in x.open : i \in DOMAIN orders /\ i # id /\ i < id
  BY <1>0, <1>1, <1>2, <1>3, <1>4
<1>6. \A i \in x.open : /\ y.place[i] = x.place[i]
                        /\ y.orders[i].next_order = IF i = tail THEN id
                                                    ELSE x.orders[i].next_order
                        /\ y.orders[i].previous_order = x.orders[i].previous_order
                        /\ y.orders[i].remaining_quantity = x.orders[i].remaining_quantity
  BY <1>1, <1>2, <1>3, <1>4, <1>5
<1>7. /\ y.orders[id].previous_order = tail /\ y.orders[id].next_order = 0
      /\ y.orders[id].remaining_quantity = q
  BY <1>0, <1>1, <1>4
<1>8. Gains(x.level[l][p], y.level[l][p], id, q) /\ x.level[l][p].last_order = tail
  BY <1>3, <1>4 DEF tail
<1>9. id \in Nat \ {0} /\ q \in Nat /\ \A i \in x.open : i \in Nat \ {0} /\ i < id
  BY <1>0, <1>5
<1>10. Enters(x, y, l, p, id, q)
  BY ONLY <1>5, <1>6, <1>7, <1>8, <1>9 DEF Enters, Gains
<1> QED
  BY <1>10 DEF x, y, orders2, tail

\* The orders with `final` at i and its neighbours linked to each other.
Unlinked(orders, i, final) ==
    [j \in DOMAIN orders |->
        IF j = i THEN final
        ELSE [orders[j] EXCEPT
                 !.next_order     = IF j = orders[i].previous_order
                                    THEN orders[i].next_order ELSE @,
                 !.previous_order = IF j = orders[i].next_order
                                    THEN orders[i].previous_order ELSE @]]

\* A level loses order o.
Loses(lv, lv2, o) ==
    /\ lv2.first_order = IF o.previous_order = 0 THEN o.next_order ELSE lv.first_order
    /\ lv2.last_order = IF o.next_order = 0 THEN o.previous_order ELSE lv.last_order
    /\ lv2.order_count = lv.order_count - 1
    /\ lv2.total_remaining_quantity = lv.total_remaining_quantity - o.remaining_quantity

\* Unlinking an order is what leaving means.
LEMMA UnlinkedLeaves ==
    ASSUME NEW key, NEW orders, OrderAccounts(key, orders), NEW level, NEW best,
           NEW i \in DOMAIN orders, orders[i].status = "Open",
           NEW final, final.status # "Open",
           NEW level2, NEW best2,
           Loses(level[orders[i][key]][orders[i].price],
                 level2[orders[i][key]][orders[i].price], orders[i])
    PROVE  Leaves(IndexOf(key, orders, level, best),
                  IndexOf(key, Unlinked(orders, i, final), level2, best2),
                  orders[i][key], orders[i].price, i)
<1> DEFINE o       == orders[i]
           l       == o[key]
           p       == o.price
           orders2 == Unlinked(orders, i, final)
           x       == IndexOf(key, orders, level, best)
           y       == IndexOf(key, orders2, level2, best2)
<1>1. DOMAIN orders2 = DOMAIN orders /\ orders2[i] = final
  BY DEF Unlinked
<1>2. ASSUME NEW j \in DOMAIN orders, j # i
      PROVE  /\ orders2[j].status = orders[j].status /\ orders2[j][key] = orders[j][key]
             /\ orders2[j].price = orders[j].price
             /\ orders2[j].remaining_quantity = orders[j].remaining_quantity
             /\ orders2[j].next_order = IF j = o.previous_order THEN o.next_order
                                        ELSE orders[j].next_order
             /\ orders2[j].previous_order = IF j = o.next_order THEN o.previous_order
                                            ELSE orders[j].previous_order
  <2>1. OrderFields \cup {key} \subseteq DOMAIN orders[j] /\ key \in {"list", "side"}
    BY DEF OrderAccounts
  <2>2. orders2[j] = [orders[j] EXCEPT
                 !.next_order     = IF j = o.previous_order THEN o.next_order ELSE @,
                 !.previous_order = IF j = o.next_order THEN o.previous_order ELSE @]
    BY <1>2 DEF Unlinked
  <2> HIDE DEF orders2, o
  <2> QED
    BY ONLY <2>1, <2>2 DEF OrderFields
<1>3. /\ x.open = {j \in DOMAIN orders : orders[j].status = "Open"}
      /\ x.orders = orders /\ x.level = level
      /\ \A j \in DOMAIN orders : x.place[j] = <<orders[j][key], orders[j].price>>
  BY DEF IndexOf
<1>4. /\ y.open = {j \in DOMAIN orders2 : orders2[j].status = "Open"}
      /\ y.orders = orders2 /\ y.level = level2
      /\ \A j \in DOMAIN orders2 : y.place[j] = <<orders2[j][key], orders2[j].price>>
  BY DEF IndexOf
<1>5. Loses(level[l][p], level2[l][p], o) /\ 0 \notin DOMAIN orders
  BY DEF OrderAccounts
<1>6. i \in IdsAt(x, l, p)
  BY <1>3 DEF IdsAt
<1>7. x.orders[i] = o
  BY <1>3
<1> HIDE DEF x, y, orders2, o, l, p
<1>8. y.open = x.open \ {i} /\ 0 \notin x.open
  BY <1>1, <1>2, <1>3, <1>4, <1>5
<1>9. \A j \in x.open \ {i} :
          /\ y.place[j] = x.place[j]
          /\ y.orders[j].next_order = IF j = o.previous_order THEN o.next_order
                                      ELSE x.orders[j].next_order
          /\ y.orders[j].previous_order = IF j = o.next_order THEN o.previous_order
                                          ELSE x.orders[j].previous_order
          /\ y.orders[j].remaining_quantity = x.orders[j].remaining_quantity
  BY <1>1, <1>2, <1>3, <1>4
<1>10. Loses(x.level[l][p], y.level[l][p], x.orders[i])
  BY <1>3, <1>4, <1>5, <1>7
<1>11. Leaves(x, y, l, p, i)
  BY ONLY <1>6, <1>7, <1>8, <1>9, <1>10 DEF Leaves, Loses
<1> QED
  BY <1>11 DEF x, y, orders2, o, l, p

\* Order o of a level becomes `left`: it and the level have d less left.
Fills(key, o, left, lv, lv2, d) ==
    /\ left.status = "Open" /\ left[key] = o[key] /\ left.price = o.price
    /\ left.next_order = o.next_order /\ left.previous_order = o.previous_order
    /\ left.remaining_quantity = o.remaining_quantity - d /\ d \in Int
    /\ left.remaining_quantity \in Nat
    /\ lv2.first_order = lv.first_order /\ lv2.last_order = lv.last_order
    /\ lv2.order_count = lv.order_count
    /\ lv2.total_remaining_quantity = lv.total_remaining_quantity - d

\* A partial fill shrinks an order and its level.
LEMMA FilledShrinks ==
    ASSUME NEW key, NEW orders, OrderAccounts(key, orders), NEW level, NEW best,
           NEW i \in DOMAIN orders, orders[i].status = "Open", NEW left, NEW d,
           NEW level2, NEW best2,
           Fills(key, orders[i], left, level[orders[i][key]][orders[i].price],
                 level2[orders[i][key]][orders[i].price], d)
    PROVE  Shrinks(IndexOf(key, orders, level, best),
                   IndexOf(key, [orders EXCEPT ![i] = left], level2, best2),
                   orders[i][key], orders[i].price, i, d)
<1> DEFINE o       == orders[i]
           l       == o[key]
           p       == o.price
           orders2 == [orders EXCEPT ![i] = left]
           x       == IndexOf(key, orders, level, best)
           y       == IndexOf(key, orders2, level2, best2)
<1>1. /\ DOMAIN orders2 = DOMAIN orders /\ orders2[i] = left
      /\ \A j \in DOMAIN orders \ {i} : orders2[j] = orders[j]
  OBVIOUS
<1>2. /\ x.open = {j \in DOMAIN orders : orders[j].status = "Open"}
      /\ x.orders = orders /\ x.level = level
      /\ \A j \in DOMAIN orders : x.place[j] = <<orders[j][key], orders[j].price>>
  BY DEF IndexOf
<1>3. /\ y.open = {j \in DOMAIN orders2 : orders2[j].status = "Open"}
      /\ y.orders = orders2 /\ y.level = level2
      /\ \A j \in DOMAIN orders2 : y.place[j] = <<orders2[j][key], orders2[j].price>>
  BY DEF IndexOf
<1>4. i \in IdsAt(x, l, p) /\ x.orders[i] = o /\ y.orders[i] = left
  BY <1>1, <1>2, <1>3 DEF IdsAt
<1>5. Fills(key, o, left, level[l][p], level2[l][p], d)
  OBVIOUS
<1> HIDE DEF x, y, orders2, o, l, p
<1>6. /\ y.open = x.open
      /\ \A j \in x.open : y.place[j] = x.place[j]
      /\ \A j \in x.open \ {i} : y.orders[j] = x.orders[j]
  BY <1>1, <1>2, <1>3, <1>4, <1>5 DEF Fills
<1>7. Fills(key, x.orders[i], y.orders[i], x.level[l][p], y.level[l][p], d)
  BY <1>2, <1>3, <1>4, <1>5
<1>8. Shrinks(x, y, l, p, i, d)
  BY ONLY <1>4, <1>6, <1>7 DEF Shrinks, Fills, SameOrder
<1> QED
  BY <1>8 DEF x, y, orders2, o, l, p

\* The accounts of the lists of a book, whatever they say.
Accounts(lists, side, key, orders, level, best) ==
    /\ OrderAccounts(key, orders)
    /\ lists \subseteq DOMAIN level /\ lists \subseteq DOMAIN best
    /\ \A l \in lists : /\ side[l] \in Sides
                        /\ LevelAccounts(level[l])
                        /\ DOMAIN level[l] \subseteq Nat \ {0}

\* They form lists and queues.
BookIs(lists, side, key, orders, level, best) ==
    /\ Accounts(lists, side, key, orders, level, best)
    /\ IndexIs(lists, side, IndexOf(key, orders, level, best))

\* The queue of a level of such a book.
LEMMA BookQueue ==
    ASSUME NEW lists, NEW side, NEW key, NEW orders, NEW level, NEW best,
           BookIs(lists, side, key, orders, level, best),
           NEW l \in lists, NEW p \in DOMAIN level[l]
    PROVE  QueueIs(IdsAt(IndexOf(key, orders, level, best), l, p), orders, level[l][p])
<1> DEFINE x == IndexOf(key, orders, level, best)
<1>1. x.orders = orders /\ x.level = level
  BY DEF IndexOf
<1>2. IndexIs(lists, side, x)
  BY DEF BookIs
<1> HIDE DEF x
<1>3. QueueIs(IdsAt(x, l, p), orders, level[l][p])
  BY <1>1, <1>2 DEF IndexIs
<1> QED
  BY <1>3 DEF x

\* Changing one list leaves the others.
LEMMA OtherLists ==
    ASSUME NEW lists, NEW key, NEW orders, NEW level, NEW best, NEW orders2, NEW l,
           NEW levels2, NEW best2
    PROVE  OneList(lists, IndexOf(key, orders, level, best),
                   IndexOf(key, orders2, [level EXCEPT ![l] = levels2],
                           [best EXCEPT ![l] = best2]), l)
<1> DEFINE x == IndexOf(key, orders, level, best)
           y == IndexOf(key, orders2, [level EXCEPT ![l] = levels2], [best EXCEPT ![l] = best2])
<1>1. /\ x.level = level /\ x.best = best
      /\ y.level = [level EXCEPT ![l] = levels2] /\ y.best = [best EXCEPT ![l] = best2]
  BY DEF IndexOf
<1> HIDE DEF x, y
<1>2. OneList(lists, x, y, l)
  BY <1>1 DEF OneList
<1> QED
  BY <1>2 DEF x, y

\* An order joins a level that exists.
LEMMA OrderAppended ==
    ASSUME NEW lists, NEW side, NEW key, NEW orders, NEW level, NEW best,
           BookIs(lists, side, key, orders, level, best),
           NEW l \in lists, NEW p \in DOMAIN level[l], level[l][p].order_count # 0,
           NEW id, NEW new, NEW q,
           FitsQueue(key, orders, l, p, id, new, level[l][p].last_order, q),
           NEW lv2, Gains(level[l][p], lv2, id, q),
           lv2.better_price = level[l][p].better_price,
           lv2.worse_price = level[l][p].worse_price
    PROVE  IndexIs(lists, side,
                   IndexOf(key, Placed(orders, id, new, level[l][p].last_order),
                           [level EXCEPT ![l] = [level[l] EXCEPT ![p] = lv2]],
                           [best EXCEPT ![l] = best[l]]))
<1> DEFINE levels2 == [level[l] EXCEPT ![p] = lv2]
           level2  == [level EXCEPT ![l] = levels2]
           best2   == [best EXCEPT ![l] = best[l]]
           orders2 == Placed(orders, id, new, level[l][p].last_order)
           x       == IndexOf(key, orders, level, best)
           y       == IndexOf(key, orders2, level2, best2)
<1>1. /\ OrderAccounts(key, orders) /\ l \in DOMAIN level /\ l \in DOMAIN best
      /\ IndexIs(lists, side, x)
  BY DEF BookIs, Accounts
<1>2. level2[l] = levels2 /\ levels2[p] = lv2 /\ best2[l] = best[l]
  BY <1>1
<1>3. /\ x.level = level /\ x.best = best /\ y.level = level2 /\ y.best = best2
  BY DEF IndexOf
<1>4. OneList(lists, x, y, l)
  BY OtherLists
<1>5. level[l][p].order_count \in Nat
  <2>1. QueueIs(IdsAt(x, l, p), orders, level[l][p])
    BY BookQueue
  <2> QED
    BY <2>1, FS_CardinalityType DEF QueueIs
<1>6. LevelKept(level[l], levels2, p)
  <2>1. level[l][p].order_count > 0 /\ lv2.order_count > 0
    BY <1>5 DEF Gains
  <2> QED
    BY <2>1 DEF LevelKept, SameQueue
<1>7. Enters(x, y, l, p, id, q)
  <2> HIDE DEF levels2, level2, best2
  <2>1. Gains(level[l][p], level2[l][p], id, q)
    BY <1>2
  <2> QED
    BY <1>1, <2>1, PlacedEnters
<1> HIDE DEF x, y, orders2, levels2, level2, best2
<1>8. AppendIn(lists, x, y, l, p, id, q)
  BY <1>2, <1>3, <1>4, <1>6, <1>7 DEF AppendIn
<1>9. IndexIs(lists, side, y)
  BY ONLY <1>1, <1>8, l \in lists, AppendKeepsIndex
<1> QED
  BY <1>9 DEF y, orders2, levels2, level2, best2

\* The levels with `new` at p between its neighbours.
Inserted(levels, p, new, better, worse) ==
    [r \in DOMAIN levels |->
        IF r = p THEN new
        ELSE [levels[r] EXCEPT !.worse_price  = IF r = better THEN p ELSE @,
                               !.better_price = IF r = worse THEN p ELSE @]]

\* A level between these two whose only order is id, with q to trade.
LevelOf(lv, id, q, better, worse) ==
    /\ lv.first_order = id /\ lv.last_order = id /\ lv.order_count = 1
    /\ lv.total_remaining_quantity = q
    /\ lv.better_price = better /\ lv.worse_price = worse

\* An order opens a level.
LEMMA LevelInserted ==
    ASSUME NEW lists, NEW side, NEW key, NEW orders, NEW level, NEW best,
           BookIs(lists, side, key, orders, level, best),
           NEW l \in lists, NEW p \in DOMAIN level[l], level[l][p].order_count = 0,
           NEW id, NEW new, NEW q, FitsQueue(key, orders, l, p, id, new, 0, q),
           NEW better, NEW worse,
           FitsLevel(PricesIn(level[l]), side[l], level[l], best[l], p, better, worse),
           NEW lv2, LevelOf(lv2, id, q, better, worse)
    PROVE  IndexIs(lists, side,
                   IndexOf(key, Placed(orders, id, new, 0),
                           [level EXCEPT ![l] = Inserted(level[l], p, lv2, better, worse)],
                           [best EXCEPT ![l] = IF better = 0 THEN p ELSE best[l]]))
<1> DEFINE levels  == level[l]
           levels2 == Inserted(levels, p, lv2, better, worse)
           level2  == [level EXCEPT ![l] = levels2]
           best2   == [best EXCEPT ![l] = IF better = 0 THEN p ELSE best[l]]
           orders2 == Placed(orders, id, new, 0)
           x       == IndexOf(key, orders, level, best)
           y       == IndexOf(key, orders2, level2, best2)
<1>0. /\ lv2.first_order = id /\ lv2.last_order = id /\ lv2.order_count = 1
      /\ lv2.total_remaining_quantity = q
      /\ lv2.better_price = better /\ lv2.worse_price = worse
  BY DEF LevelOf
<1>1. /\ OrderAccounts(key, orders) /\ l \in DOMAIN level /\ l \in DOMAIN best
      /\ LevelAccounts(levels) /\ p \in Nat \ {0} /\ side[l] \in Sides
      /\ IndexIs(lists, side, x)
  BY DEF BookIs, Accounts
<1>2. /\ level2[l] = levels2 /\ levels2[p] = lv2
      /\ best2[l] = IF better = 0 THEN p ELSE best[l]
  BY <1>1 DEF Inserted
<1>3. /\ x.level = level /\ x.best = best /\ y.level = level2 /\ y.best = best2
  BY DEF IndexOf
<1>4. OneList(lists, x, y, l)
  BY OtherLists
<1>5. /\ levels[p].first_order = 0 /\ levels[p].last_order = 0
      /\ levels[p].total_remaining_quantity = 0
  <2>1. QueueIs(IdsAt(x, l, p), orders, levels[p])
    BY BookQueue
  <2> QED
    BY <2>1, QueueOfNone
<1>6. ASSUME NEW r \in DOMAIN levels, r # p
      PROVE  /\ levels2[r].worse_price = IF r = better THEN p ELSE levels[r].worse_price
             /\ levels2[r].better_price = IF r = worse THEN p ELSE levels[r].better_price
             /\ SameQueue(levels[r], levels2[r])
  <2>1. LevelFields \subseteq DOMAIN levels[r]
    BY <1>1 DEF LevelAccounts
  <2>2. levels2[r] = [levels[r] EXCEPT !.worse_price  = IF r = better THEN p ELSE @,
                                       !.better_price = IF r = worse THEN p ELSE @]
    BY <1>6 DEF Inserted
  <2> HIDE DEF levels, levels2
  <2> QED
    BY ONLY <2>1, <2>2 DEF LevelFields, SameQueue
<1>7. LevelOpened(levels, levels2, p, better, worse)
  <2>1. DOMAIN levels2 = DOMAIN levels
    BY DEF Inserted
  <2> HIDE DEF levels2
  <2> QED
    BY <1>0, <1>2, <1>6, <2>1 DEF LevelOpened, LevelsLinkedIn
<1>8. Enters(x, y, l, p, id, q)
  <2> HIDE DEF levels2, level2, best2
  <2>1. Gains(level[l][p], level2[l][p], id, q) /\ level[l][p].last_order = 0
    <3>1. q \in Nat
      BY DEF FitsQueue
    <3> QED
      BY <1>0, <1>2, <1>5, <3>1 DEF Gains
  <2> QED
    BY <1>1, <2>1, PlacedEnters
<1> HIDE DEF x, y, orders2, levels2, level2, best2
<1>9. InsertIn(lists, side, x, y, l, p, id, q, better, worse)
  BY <1>0, <1>1, <1>2, <1>3, <1>4, <1>7, <1>8 DEF InsertIn
<1>10. IndexIs(lists, side, y)
  BY ONLY <1>1, <1>9, l \in lists, InsertKeepsIndex
<1> QED
  BY <1>10 DEF y, orders2, levels2, level2, best2

\* The levels of a list after o left level p: the level shrinks, or it is
\* replaced by `absent` and its neighbours become adjacent.
Without(levels, p, o, absent) ==
    LET lv == levels[p]
    IN  IF lv.order_count = 1
        THEN [r \in DOMAIN levels |->
                IF r = p THEN absent
                ELSE [levels[r] EXCEPT
                         !.worse_price  = IF r = lv.better_price THEN lv.worse_price ELSE @,
                         !.better_price = IF r = lv.worse_price THEN lv.better_price ELSE @]]
        ELSE [levels EXCEPT ![p] =
                [lv EXCEPT !.first_order = IF o.previous_order = 0 THEN o.next_order ELSE @,
                           !.last_order  = IF o.next_order = 0 THEN o.previous_order ELSE @,
                           !.order_count = @ - 1,
                           !.total_remaining_quantity = @ - o.remaining_quantity]]

\* A level nobody quotes.
Absent(lv) == /\ lv.first_order = 0 /\ lv.last_order = 0
              /\ lv.order_count = 0 /\ lv.total_remaining_quantity = 0

\* The only order of a level has no neighbours and is all there is to trade.
LEMMA OnlyOrder ==
    ASSUME NEW S, NEW orders, NEW lv, QueueIs(S, orders, lv), NEW i \in S,
           lv.order_count = 1
    PROVE  /\ orders[i].previous_order = 0 /\ orders[i].next_order = 0
           /\ lv.total_remaining_quantity = orders[i].remaining_quantity
<1> DEFINE f == [j \in S |-> orders[j].remaining_quantity]
           nx == [j \in S |-> orders[j].next_order]
           pv == [j \in S |-> orders[j].previous_order]
<1>1. S = {i}
  <2>1. IsFiniteSet(S) /\ Cardinality(S) = 1
    BY DEF QueueIs
  <2>2. PICK z : S = {z}
    BY <2>1, FS_Singleton
  <2> QED
    BY <2>2
<1>2. /\ Chain(S, IdRank, lv.first_order, nx, pv)
      /\ lv.total_remaining_quantity = SumFunctionOnSet(f, S)
      /\ f[i] \in Int /\ S \subseteq Nat \ {0} /\ IsFiniteSet(S)
  BY DEF QueueIs
<1>3. orders[i].previous_order = 0 /\ orders[i].next_order = 0
  BY <1>1, <1>2 DEF Chain, IsNext, IsPrevious, IdRank
<1>4. SumFunctionOnSet(f, S) = f[i]
  <2>1. IsFiniteSet(S) /\ (\A j \in S : f[j] \in Int) /\ f[i] \in Int
    BY <1>1, <1>2
  <2>2. S \ {i} = {} /\ SumFunctionOnSet(f, {}) = 0
    BY <1>1, SumEmpty
  <2> HIDE DEF f
  <2>3. \A j \in S : SumFunctionOnSet(f, S) = f[j] + SumFunctionOnSet(f, S \ {j})
    BY ONLY <2>1, SumRemove
  <2>4. SumFunctionOnSet(f, S) = f[i] + SumFunctionOnSet(f, S \ {i})
    BY <2>3
  <2>5. SumFunctionOnSet(f, S) = f[i] + 0
    BY <2>2, <2>4
  <2> QED
    BY <2>1, <2>5
<1> QED
  BY <1>2, <1>3, <1>4

\* An order leaves the book, complete or canceled.
LEMMA OrderTaken ==
    ASSUME NEW lists, NEW side, NEW key, NEW orders, NEW level, NEW best,
           BookIs(lists, side, key, orders, level, best),
           NEW i \in DOMAIN orders, orders[i].status = "Open",
           NEW l \in lists, l = orders[i][key], NEW p \in DOMAIN level[l], p = orders[i].price,
           NEW final, final.status # "Open", NEW absent, Absent(absent)
    PROVE  IndexIs(lists, side,
                   IndexOf(key, Unlinked(orders, i, final),
                           [level EXCEPT ![l] = Without(level[l], p, orders[i], absent)],
                           [best EXCEPT ![l] = IF /\ level[l][p].order_count = 1
                                                  /\ level[l][p].better_price = 0
                                               THEN level[l][p].worse_price ELSE best[l]]))
<1> DEFINE o       == orders[i]
           levels  == level[l]
           lv      == levels[p]
           levels2 == Without(levels, p, o, absent)
           lv2     == levels2[p]
           level2  == [level EXCEPT ![l] = levels2]
           bst     == IF lv.order_count = 1 /\ lv.better_price = 0 THEN lv.worse_price ELSE best[l]
           best2   == [best EXCEPT ![l] = bst]
           orders2 == Unlinked(orders, i, final)
           x       == IndexOf(key, orders, level, best)
           y       == IndexOf(key, orders2, level2, best2)
           S       == IdsAt(x, l, p)
<1>1. /\ OrderAccounts(key, orders) /\ l \in DOMAIN level /\ l \in DOMAIN best
      /\ LevelAccounts(levels) /\ side[l] \in Sides
      /\ IndexIs(lists, side, x)
  BY DEF BookIs, Accounts
<1>2. level2[l] = levels2 /\ best2[l] = bst
  BY <1>1
<1>3. /\ x.level = level /\ x.best = best /\ y.level = level2 /\ y.best = best2
  BY DEF IndexOf
<1>4. OneList(lists, x, y, l)
  BY OtherLists
<1>5. QueueIs(S, orders, lv) /\ i \in S
  <2>1. QueueIs(S, orders, lv)
    BY BookQueue
  <2>2. i \in S
    BY DEF IdsAt, IndexOf
  <2> QED
    BY <2>1, <2>2
<1>6. lv.order_count \in Nat \ {0}
  <2>1. /\ lv.order_count = Cardinality(S) /\ IsFiniteSet(S) /\ i \in S
    BY <1>5 DEF QueueIs
  <2> HIDE DEF S
  <2>2. Cardinality(S) # 0 /\ Cardinality(S) \in Nat
    BY <2>1, FS_EmptySet, FS_CardinalityType
  <2> QED
    BY <2>1, <2>2
<1>7. DOMAIN levels2 = DOMAIN levels
  BY DEF Without
<1>8. LevelFields \subseteq DOMAIN lv /\ \A r \in DOMAIN levels : LevelFields \subseteq DOMAIN levels[r]
  BY <1>1 DEF LevelAccounts
<1>9. CASE lv.order_count = 1
  <2>1. lv2 = absent /\ bst = IF lv.better_price = 0 THEN lv.worse_price ELSE best[l]
    BY <1>9 DEF Without
  <2>2. Loses(lv, lv2, o) /\ lv2.order_count = 0
    <3>1. /\ o.previous_order = 0 /\ o.next_order = 0
          /\ lv.total_remaining_quantity = o.remaining_quantity
      <4> HIDE DEF S, lv
      <4> QED
        BY <1>5, <1>9, OnlyOrder
    <3>2. o.remaining_quantity \in Nat
      BY <1>5 DEF QueueIs
    <3> HIDE DEF o, lv, lv2
    <3> QED
      BY <1>9, <2>1, <3>1, <3>2 DEF Loses, Absent
  <2>3. ASSUME NEW r \in DOMAIN levels \ {p}
        PROVE  /\ levels2[r].worse_price = IF r = lv.better_price THEN lv.worse_price
                                           ELSE levels[r].worse_price
               /\ levels2[r].better_price = IF r = lv.worse_price THEN lv.better_price
                                            ELSE levels[r].better_price
               /\ SameQueue(levels[r], levels2[r])
    <3>1. levels2[r] = [levels[r] EXCEPT
                         !.worse_price  = IF r = lv.better_price THEN lv.worse_price ELSE @,
                         !.better_price = IF r = lv.worse_price THEN lv.better_price ELSE @]
      BY <1>9 DEF Without
    <3>2. LevelFields \subseteq DOMAIN levels[r]
      BY <1>8
    <3> HIDE DEF levels, levels2, lv
    <3> QED
      BY ONLY <3>1, <3>2 DEF LevelFields, SameQueue
  <2>4. LevelClosed(levels, levels2, p)
    <3> HIDE DEF levels2
    <3> QED
      BY <1>7, <1>9, <2>2, <2>3 DEF LevelClosed
  <2> HIDE DEF levels2, level2, best2, bst, lv2
  <2>5. Leaves(x, y, l, p, i)
    <3>1. Loses(level[l][p], level2[l][p], orders[i])
      BY <1>2, <2>2 DEF lv2
    <3> QED
      BY <1>1, <3>1, UnlinkedLeaves
  <2> HIDE DEF x, y, orders2, levels
  <2>6. RemoveIn(lists, x, y, l, p, i)
    BY <1>2, <1>3, <1>4, <1>9, <2>1, <2>4, <2>5 DEF RemoveIn, levels
  <2>7. IndexIs(lists, side, y)
    BY ONLY <1>1, <2>6, l \in lists, RemoveKeepsIndex
  <2> QED
    BY <2>7 DEF y, orders2, levels2, level2, best2, bst, levels
<1>10. CASE lv.order_count # 1
  <2>1. /\ lv2 = [lv EXCEPT !.first_order = IF o.previous_order = 0 THEN o.next_order ELSE @,
                            !.last_order  = IF o.next_order = 0 THEN o.previous_order ELSE @,
                            !.order_count = @ - 1,
                            !.total_remaining_quantity = @ - o.remaining_quantity]
        /\ bst = best[l]
        /\ \A r \in DOMAIN levels \ {p} : levels2[r] = levels[r]
    BY <1>10 DEF Without
  <2>2. /\ Loses(lv, lv2, o)
        /\ lv2.better_price = lv.better_price /\ lv2.worse_price = lv.worse_price
    <3> HIDE DEF o, lv, lv2
    <3> QED
      BY ONLY <1>8, <2>1 DEF LevelFields, Loses
  <2>3. lv.order_count > 0 /\ lv2.order_count > 0
    <3> HIDE DEF lv, lv2
    <3> QED
      BY <1>6, <1>10, <2>2 DEF Loses
  <2>4. LevelKept(levels, levels2, p)
    <3> HIDE DEF levels2
    <3> QED
      BY <1>7, <2>1, <2>2, <2>3 DEF LevelKept, SameQueue
  <2> HIDE DEF levels2, level2, best2, bst, lv2
  <2>5. Leaves(x, y, l, p, i)
    <3>1. Loses(level[l][p], level2[l][p], orders[i])
      BY <1>2, <2>2 DEF lv2
    <3> QED
      BY <1>1, <3>1, UnlinkedLeaves
  <2> HIDE DEF x, y, orders2, levels
  <2>6. RemoveIn(lists, x, y, l, p, i)
    BY <1>2, <1>3, <1>4, <1>10, <2>1, <2>4, <2>5 DEF RemoveIn, levels
  <2>7. IndexIs(lists, side, y)
    BY ONLY <1>1, <2>6, l \in lists, RemoveKeepsIndex
  <2> QED
    BY <2>7 DEF y, orders2, levels2, level2, best2, bst, levels
<1> QED
  BY <1>9, <1>10

\* An order of the book is filled in part.
LEMMA OrderReduced ==
    ASSUME NEW lists, NEW side, NEW key, NEW orders, NEW level, NEW best,
           BookIs(lists, side, key, orders, level, best),
           NEW i \in DOMAIN orders, orders[i].status = "Open",
           NEW l \in lists, l = orders[i][key], NEW p \in DOMAIN level[l], p = orders[i].price,
           NEW left, NEW lv2, NEW d, Fills(key, orders[i], left, level[l][p], lv2, d),
           lv2.better_price = level[l][p].better_price,
           lv2.worse_price = level[l][p].worse_price
    PROVE  IndexIs(lists, side,
                   IndexOf(key, [orders EXCEPT ![i] = left],
                           [level EXCEPT ![l] = [level[l] EXCEPT ![p] = lv2]],
                           [best EXCEPT ![l] = best[l]]))
<1> DEFINE levels2 == [level[l] EXCEPT ![p] = lv2]
           level2  == [level EXCEPT ![l] = levels2]
           best2   == [best EXCEPT ![l] = best[l]]
           orders2 == [orders EXCEPT ![i] = left]
           x       == IndexOf(key, orders, level, best)
           y       == IndexOf(key, orders2, level2, best2)
           S       == IdsAt(x, l, p)
<1>1. /\ OrderAccounts(key, orders) /\ l \in DOMAIN level /\ l \in DOMAIN best
      /\ IndexIs(lists, side, x)
  BY DEF BookIs, Accounts
<1>2. level2[l] = levels2 /\ levels2[p] = lv2 /\ best2[l] = best[l]
  BY <1>1
<1>3. /\ x.level = level /\ x.best = best /\ y.level = level2 /\ y.best = best2
  BY DEF IndexOf
<1>4. OneList(lists, x, y, l)
  BY OtherLists
<1>5. level[l][p].order_count \in Nat \ {0}
  <2>0. QueueIs(S, orders, level[l][p])
    BY BookQueue
  <2>1. QueueIs(S, orders, level[l][p]) /\ i \in S
    BY <2>0 DEF IdsAt, IndexOf
  <2> HIDE DEF S
  <2>2. level[l][p].order_count = Cardinality(S) /\ IsFiniteSet(S)
    BY <2>1 DEF QueueIs
  <2>3. Cardinality(S) # 0 /\ Cardinality(S) \in Nat
    BY <2>1, <2>2, FS_EmptySet, FS_CardinalityType
  <2> QED
    BY <2>2, <2>3
<1>6. LevelKept(level[l], levels2, p)
  <2>1. level[l][p].order_count > 0 /\ lv2.order_count > 0
    BY <1>5 DEF Fills
  <2> QED
    BY <2>1 DEF LevelKept, SameQueue
<1>7. Shrinks(x, y, l, p, i, d)
  <2> HIDE DEF levels2, level2, best2
  <2>1. Fills(key, orders[i], left, level[l][p], level2[l][p], d)
    BY <1>2
  <2> QED
    BY <1>1, <2>1, FilledShrinks
<1> HIDE DEF x, y, orders2, levels2, level2, best2
<1>8. ShrinkIn(lists, x, y, l, p, i, d)
  BY <1>2, <1>3, <1>4, <1>6, <1>7 DEF ShrinkIn
<1>9. IndexIs(lists, side, y)
  BY ONLY <1>1, <1>8, l \in lists, ShrinkKeepsIndex
<1> QED
  BY <1>9 DEF y, orders2, levels2, level2, best2

-----------------------------------------------------------------------------
(* Queues as sequences: what PriorityBook makes of a level *)

\* q lists the ids S from the smallest to the greatest.
Enumerates(q, S) ==
    /\ q \in Seq(Nat)
    /\ S = {q[k] : k \in 1 .. Len(q)}
    /\ \A j, k \in 1 .. Len(q) : j < k => q[j] < q[k]

\* Its places and what they hold.
LEMMA PlacesOf ==
    ASSUME NEW q \in Seq(Nat)
    PROVE  Len(q) \in Nat /\ \A k \in 1 .. Len(q) : k \in Nat /\ q[k] \in Nat
<1>1. Len(q) \in Nat
  BY LenProperties
<1>2. \A k \in 1 .. Len(q) : q[k] \in Nat
  BY ElementOfSeq
<1> QED
  BY <1>1, <1>2

\* It is enough that each id is greater than the one before.
LEMMA StepwiseIncreasing ==
    ASSUME NEW q \in Seq(Nat), \A k \in 1 .. Len(q) : k > 1 => q[k - 1] < q[k],
           NEW j \in 1 .. Len(q), NEW k \in 1 .. Len(q), j < k
    PROVE  q[j] < q[k]
<1> DEFINE Bad == {m \in Nat : m \in 1 .. Len(q) /\ j < m /\ ~ (q[j] < q[m])}
<1>0. Len(q) \in Nat /\ \A i \in 1 .. Len(q) : i \in Nat /\ q[i] \in Nat
  BY PlacesOf
<1> SUFFICES ASSUME ~ (q[j] < q[k]) PROVE FALSE
  OBVIOUS
<1>1. PICK m \in Bad : \A n \in Bad : m <= n
  <2>0. Bad # {}
    BY <1>0
  <2>1. Bad \in SUBSET Nat
    OBVIOUS
  <2> HIDE DEF Bad
  <2> QED
    BY <2>0, <2>1, Least
<1>2. /\ m \in 1 .. Len(q) /\ j < m /\ ~ (q[j] < q[m]) /\ Len(q) \in Nat
      /\ m \in Nat /\ j \in Nat /\ j >= 1
  BY <1>0, <1>1
<1> DEFINE p == m - 1
<1>3. p \in 1 .. Len(q) /\ p \in Nat /\ (p = j \/ j < p) /\ p < m
  BY ONLY <1>2
<1>4. p \notin Bad
  BY <1>1, <1>2, <1>3
<1>5. q[p] = q[j] \/ q[j] < q[p]
  BY <1>3, <1>4
<1>6. q[p] < q[m]
  <2>1. m > 1
    BY ONLY <1>2
  <2> QED
    BY <1>2, <2>1
<1>7. q[p] \in Nat /\ q[m] \in Nat /\ q[j] \in Nat
  BY <1>0, <1>2, <1>3
<1>8. \A a, b, c \in Nat : (b = a \/ a < b) /\ b < c => a < c
  OBVIOUS
<1>9. q[j] < q[m]
  BY ONLY <1>5, <1>6, <1>7, <1>8
<1> QED
  BY <1>2, <1>9

\* Two such lists of one set agree as far as one of them goes.
LEMMA EnumerationPrefix ==
    ASSUME NEW S, NEW q, Enumerates(q, S), NEW r, Enumerates(r, S), NEW k \in 1 .. Len(q)
    PROVE  k \in 1 .. Len(r) /\ r[k] = q[k]
<1> DEFINE Bad == {m \in Nat : m \in 1 .. Len(q) /\ ~ (m \in 1 .. Len(r) /\ r[m] = q[m])}
<1>1. /\ q \in Seq(Nat) /\ r \in Seq(Nat) /\ Len(q) \in Nat /\ Len(r) \in Nat
      /\ \A m \in 1 .. Len(q) : q[m] \in S /\ q[m] \in Nat
      /\ \A m \in 1 .. Len(r) : r[m] \in S /\ r[m] \in Nat
      /\ \A x \in S : \E m \in 1 .. Len(q) : x = q[m]
      /\ \A x \in S : \E m \in 1 .. Len(r) : x = r[m]
  <2>1. /\ q \in Seq(Nat) /\ S = {q[m] : m \in 1 .. Len(q)}
        /\ r \in Seq(Nat) /\ S = {r[m] : m \in 1 .. Len(r)}
    BY DEF Enumerates
  <2>2. /\ Len(q) \in Nat /\ \A m \in 1 .. Len(q) : q[m] \in Nat
        /\ Len(r) \in Nat /\ \A m \in 1 .. Len(r) : r[m] \in Nat
    BY <2>1, PlacesOf
  <2> QED
    BY <2>1, <2>2
<1>2. /\ \A i, j \in 1 .. Len(q) : i < j => q[i] < q[j]
      /\ \A i, j \in 1 .. Len(r) : i < j => r[i] < r[j]
  BY DEF Enumerates
<1> SUFFICES ASSUME ~ (k \in 1 .. Len(r) /\ r[k] = q[k]) PROVE FALSE
  OBVIOUS
<1>3. PICK m \in Bad : \A n \in Bad : m <= n
  <2>0. Bad # {}
    <3>1. k \in Nat
      BY <1>1
    <3> QED
      BY <3>1
  <2>1. Bad \in SUBSET Nat
    OBVIOUS
  <2> HIDE DEF Bad
  <2> QED
    BY <2>0, <2>1, Least
<1>4. m \in 1 .. Len(q) /\ ~ (m \in 1 .. Len(r) /\ r[m] = q[m])
  BY <1>3
<1>5. ASSUME NEW n \in Nat, n < m, n > 0 PROVE n \in 1 .. Len(q) /\ n \in 1 .. Len(r) /\ r[n] = q[n]
  <2>1. n \in 1 .. Len(q)
    BY <1>1, <1>4, <1>5
  <2>2. n \notin Bad
    BY <1>3, <1>4, <1>5
  <2> QED
    BY <2>1, <2>2
<1> HIDE DEF Bad
<1>6. PICK j \in 1 .. Len(r) : q[m] = r[j]
  BY <1>1, <1>4
<1>7. m <= j
  <2> SUFFICES ASSUME j < m PROVE FALSE
    BY <1>1, <1>4
  <2>1. r[j] = q[j] /\ j \in 1 .. Len(q)
    BY <1>5
  <2>2. q[j] < q[m]
    BY <1>2, <1>4, <2>1
  <2> QED
    BY <1>1, <1>4, <1>6, <2>1, <2>2
<1>8. m \in 1 .. Len(r)
  BY <1>1, <1>4, <1>7
<1>9. PICK i \in 1 .. Len(q) : r[m] = q[i]
  BY <1>1, <1>8
<1>10. m <= i
  <2> SUFFICES ASSUME i < m PROVE FALSE
    BY <1>1, <1>4
  <2>1. r[i] = q[i] /\ i \in 1 .. Len(r)
    BY <1>5
  <2>2. r[i] < r[m]
    BY <1>2, <1>8, <2>1
  <2> QED
    BY <1>1, <1>8, <1>9, <2>1, <2>2
<1>11. r[m] = r[j] \/ r[m] < r[j]
  <2>1. m = j \/ m < j
    BY <1>1, <1>4, <1>7
  <2> QED
    BY <1>2, <1>8, <2>1
<1>12. q[m] = q[i] \/ q[m] < q[i]
  <2>1. m = i \/ m < i
    BY <1>1, <1>4, <1>10
  <2> QED
    BY <1>2, <1>4, <2>1
<1>13. q[m] \in Nat /\ r[m] \in Nat
  BY <1>1, <1>4, <1>8
<1> QED
  BY <1>4, <1>6, <1>8, <1>9, <1>11, <1>12, <1>13

\* There is one such list of a set.
LEMMA EnumerationUnique ==
    ASSUME NEW S, NEW q, Enumerates(q, S), NEW r, Enumerates(r, S)
    PROVE  q = r
<1>1. q \in Seq(Nat) /\ r \in Seq(Nat)
  BY DEF Enumerates
<1>2. \A k \in 1 .. Len(q) : k \in 1 .. Len(r) /\ r[k] = q[k]
  BY EnumerationPrefix
<1>3. \A k \in 1 .. Len(r) : k \in 1 .. Len(q) /\ q[k] = r[k]
  BY EnumerationPrefix
<1>4. Len(q) = Len(r)
  <2>1. Len(q) \in Nat /\ Len(r) \in Nat
    BY <1>1
  <2>2. Len(q) > 0 => Len(q) \in 1 .. Len(r)
    BY <1>2, <2>1
  <2>3. Len(r) > 0 => Len(r) \in 1 .. Len(q)
    BY <1>3, <2>1
  <2> QED
    BY <2>1, <2>2, <2>3
<1> QED
  BY <1>1, <1>2, <1>4

\* Nothing is listed of the empty set, and of no other.
LEMMA EnumerationEmpty ==
    ASSUME NEW S, NEW q, Enumerates(q, S)
    PROVE  q = <<>> <=> S = {}
<1>1. q \in Seq(Nat) /\ S = {q[k] : k \in 1 .. Len(q)} /\ Len(q) \in Nat
  BY DEF Enumerates
<1>2. q = <<>> => S = {}
  BY <1>1
<1>3. S = {} => q = <<>>
  <2> SUFFICES ASSUME S = {}, q # <<>> PROVE FALSE
    OBVIOUS
  <2>1. Len(q) > 0
    BY <1>1
  <2>2. q[1] \in S
    <3>1. 1 \in 1 .. Len(q)
      BY <1>1, <2>1
    <3> QED
      BY <1>1, <3>1
  <2> QED
    BY <2>2
<1> QED
  BY <1>2, <1>3

\* A greater id goes behind all others.
LEMMA EnumerationAppend ==
    ASSUME NEW S, NEW q, Enumerates(q, S), NEW id \in Nat, \A i \in S : i < id
    PROVE  Enumerates(Append(q, id), S \cup {id})
<1> DEFINE r == Append(q, id)
<1>1. q \in Seq(Nat) /\ S = {q[k] : k \in 1 .. Len(q)} /\ Len(q) \in Nat
  BY DEF Enumerates
<1>2. /\ r \in Seq(Nat) /\ Len(r) = Len(q) + 1
      /\ \A k \in 1 .. Len(q) : r[k] = q[k]
      /\ r[Len(q) + 1] = id
  BY <1>1
<1> HIDE DEF r
<1>3. {r[k] : k \in 1 .. Len(r)} = S \cup {id}
  <2>1. \A k \in 1 .. Len(r) : r[k] \in S \cup {id}
    <3> TAKE k \in 1 .. Len(r)
    <3>1. CASE k = Len(q) + 1
      BY <1>2, <3>1
    <3>2. CASE k # Len(q) + 1
      <4>1. k \in 1 .. Len(q)
        BY <1>1, <1>2, <3>2
      <4> QED
        BY <1>1, <1>2, <4>1
    <3> QED
      BY <3>1, <3>2
  <2>2. id \in {r[k] : k \in 1 .. Len(r)}
    <3>1. Len(q) + 1 \in 1 .. Len(r)
      BY <1>1, <1>2
    <3> QED
      BY <1>2, <3>1
  <2>3. ASSUME NEW x \in S PROVE x \in {r[k] : k \in 1 .. Len(r)}
    <3>1. PICK k \in 1 .. Len(q) : x = q[k]
      BY <1>1
    <3>2. k \in 1 .. Len(r) /\ r[k] = x
      BY <1>1, <1>2, <3>1
    <3> QED
      BY <3>2
  <2> QED
    BY <2>1, <2>2, <2>3
<1>4. ASSUME NEW j \in 1 .. Len(r), NEW k \in 1 .. Len(r), j < k
      PROVE  r[j] < r[k]
  <2>1. j \in 1 .. Len(q) /\ r[j] = q[j] /\ q[j] \in S
    BY <1>1, <1>2, <1>4
  <2>2. CASE k = Len(q) + 1
    BY <1>2, <2>1, <2>2
  <2>3. CASE k # Len(q) + 1
    <3>0. k \in 1 .. Len(q)
      BY <1>1, <1>2, <2>3
    <3>1. k \in 1 .. Len(q) /\ r[k] = q[k]
      BY <1>2, <3>0
    <3>2. q[j] < q[k]
      BY <1>4, <2>1, <3>1 DEF Enumerates
    <3> QED
      BY <2>1, <3>1, <3>2
  <2> QED
    BY <2>2, <2>3
<1> QED
  BY <1>2, <1>3, <1>4 DEF Enumerates, r

\* An id is taken out of its place, the others close up.
LEMMA EnumerationRemove ==
    ASSUME NEW S, NEW q, Enumerates(q, S), NEW n \in 1 .. Len(q)
    PROVE  Enumerates(SubSeq(q, 1, n - 1) \o SubSeq(q, n + 1, Len(q)), S \ {q[n]})
<1> DEFINE a == SubSeq(q, 1, n - 1)
           b == SubSeq(q, n + 1, Len(q))
           r == a \o b
           m == Len(q)
<1>1. /\ q \in Seq(Nat) /\ S = {q[k] : k \in 1 .. m} /\ m \in Nat /\ n \in Nat
      /\ \A j, k \in 1 .. m : j < k => q[j] < q[k]
      /\ \A k \in 1 .. m : q[k] \in Nat
  BY DEF Enumerates
<1>2. /\ a \in Seq(Nat) /\ Len(a) = n - 1
      /\ \A k \in 1 .. n - 1 : a[k] = q[k]
  BY <1>1
<1>3. /\ b \in Seq(Nat) /\ Len(b) = m - n
      /\ \A k \in 1 .. m - n : b[k] = q[n + k]
  BY <1>1
<1>0. m \in Nat /\ n \in 1 .. m
  BY <1>1
<1> HIDE DEF a, b, m
<1>4. /\ r \in Seq(Nat) /\ Len(r) = m - 1
      /\ \A k \in 1 .. m - 1 : r[k] = IF k < n THEN q[k] ELSE q[k + 1]
  <2>1. r \in Seq(Nat) /\ Len(r) = m - 1
    BY <1>1, <1>2, <1>3
  <2>2. ASSUME NEW k \in 1 .. m - 1
        PROVE  r[k] = IF k < n THEN q[k] ELSE q[k + 1]
    <3>1. r[k] = IF k <= Len(a) THEN a[k] ELSE b[k - Len(a)]
      <4>1. k \in 1 .. Len(a) + Len(b)
        BY <1>1, <1>2, <1>3
      <4> QED
        BY ONLY <1>2, <1>3, <4>1, ConcatProperties DEF r
    <3>2. CASE k < n
      <4>1. k \in 1 .. n - 1 /\ k <= Len(a)
        BY <1>1, <1>2, <3>2
      <4> QED
        BY <1>2, <3>1, <3>2, <4>1
    <3>3. CASE ~ (k < n)
      <4>1. k - (n - 1) \in 1 .. m - n /\ n + (k - (n - 1)) = k + 1 /\ ~ (k <= Len(a))
        BY <1>1, <1>2, <3>3
      <4>2. r[k] = b[k - (n - 1)]
        BY <1>2, <3>1, <4>1
      <4> QED
        BY <1>3, <3>3, <4>1, <4>2
    <3> QED
      BY <3>2, <3>3
  <2> QED
    BY <2>1, <2>2
<1> HIDE DEF r
<1>5. {r[k] : k \in 1 .. Len(r)} = S \ {q[n]}
  <2>1. ASSUME NEW k \in 1 .. Len(r) PROVE r[k] \in S \ {q[n]}
    <3>1. CASE k < n
      <4>1. k \in 1 .. m - 1 /\ k \in 1 .. m
        BY <1>0, <1>4
      <4>2. r[k] = q[k] /\ q[k] < q[n]
        BY <1>0, <1>1, <1>4, <3>1, <4>1
      <4> QED
        BY <1>0, <1>1, <4>1, <4>2
    <3>2. CASE ~ (k < n)
      <4>1. k \in 1 .. m - 1 /\ k + 1 \in 1 .. m /\ n < k + 1
        BY <1>0, <1>4, <3>2
      <4>2. r[k] = q[k + 1]
        BY <1>4, <3>2, <4>1
      <4>3. q[n] < q[k + 1]
        BY <1>0, <1>1, <4>1
      <4> QED
        BY <1>0, <1>1, <4>1, <4>2, <4>3
    <3> QED
      BY <3>1, <3>2
  <2>2. ASSUME NEW x \in S, x # q[n] PROVE x \in {r[k] : k \in 1 .. Len(r)}
    <3>1. PICK k \in 1 .. m : x = q[k]
      BY <1>1
    <3>2. CASE k < n
      <4>1. k \in 1 .. Len(r) /\ k \in 1 .. m - 1
        BY <1>0, <1>4, <3>2
      <4>2. r[k] = x
        BY <1>4, <3>1, <3>2, <4>1
      <4> QED
        BY <4>1, <4>2
    <3>3. CASE k > n
      <4>1. k - 1 \in 1 .. Len(r) /\ ~ (k - 1 < n) /\ (k - 1) + 1 = k
        BY <1>0, <1>4, <3>3
      <4>2. r[k - 1] = x
        BY <1>4, <3>1, <4>1
      <4> QED
        BY <4>1, <4>2
    <3>4. k # n
      BY <2>2, <3>1
    <3> QED
      BY <1>0, <3>2, <3>3, <3>4
  <2> QED
    BY <2>1, <2>2
<1>6. ASSUME NEW j \in 1 .. Len(r), NEW k \in 1 .. Len(r), j < k
      PROVE  r[j] < r[k]
  <2> DEFINE up(i) == IF i < n THEN i ELSE i + 1
  <2>1. r[j] = q[up(j)] /\ r[k] = q[up(k)]
    BY <1>4
  <2>2. up(j) \in 1 .. m /\ up(k) \in 1 .. m /\ up(j) < up(k)
    BY <1>0, <1>4, <1>6
  <2> HIDE DEF up
  <2> QED
    BY <1>1, <2>1, <2>2
<1> QED
  BY <1>4, <1>5, <1>6 DEF Enumerates, r, a, b, m

\* The first id leaves, the rest stays.
LEMMA EnumerationTail ==
    ASSUME NEW S, NEW q, Enumerates(q, S), q # <<>>
    PROVE  Head(q) = q[1] /\ Enumerates(Tail(q), S \ {q[1]})
<1> DEFINE r == Tail(q)
<1>1. /\ q \in Seq(Nat) /\ S = {q[k] : k \in 1 .. Len(q)} /\ Len(q) \in Nat
      /\ \A j, k \in 1 .. Len(q) : j < k => q[j] < q[k]
      /\ \A k \in 1 .. Len(q) : q[k] \in Nat
      /\ Len(q) > 0 /\ Head(q) = q[1]
  BY DEF Enumerates
<1>2. /\ r \in Seq(Nat) /\ Len(r) = Len(q) - 1
      /\ \A k \in 1 .. Len(r) : r[k] = q[k + 1]
  BY <1>1
<1> HIDE DEF r
<1>3. {r[k] : k \in 1 .. Len(r)} = S \ {q[1]}
  <2>1. ASSUME NEW k \in 1 .. Len(r) PROVE r[k] \in S \ {q[1]}
    <3>1. r[k] = q[k + 1] /\ k + 1 \in 1 .. Len(q) /\ 1 \in 1 .. Len(q) /\ 1 < k + 1
      BY <1>1, <1>2
    <3>2. q[1] < q[k + 1] /\ q[1] \in Nat /\ q[k + 1] \in Nat
      BY <1>1, <3>1
    <3> QED
      BY <1>1, <3>1, <3>2
  <2>2. ASSUME NEW x \in S, x # q[1] PROVE x \in {r[k] : k \in 1 .. Len(r)}
    <3>1. PICK k \in 1 .. Len(q) : x = q[k]
      BY <1>1
    <3>2. k - 1 \in 1 .. Len(r) /\ (k - 1) + 1 = k
      BY <1>1, <1>2, <2>2, <3>1
    <3> QED
      BY <1>2, <3>1, <3>2
  <2> QED
    BY <2>1, <2>2
<1>4. ASSUME NEW j \in 1 .. Len(r), NEW k \in 1 .. Len(r), j < k
      PROVE  r[j] < r[k]
  <2>1. j + 1 \in 1 .. Len(q) /\ k + 1 \in 1 .. Len(q) /\ j + 1 < k + 1
    BY <1>1, <1>2, <1>4
  <2> QED
    BY <1>1, <1>2, <2>1
<1> QED
  BY <1>1, <1>2, <1>3, <1>4 DEF Enumerates, r

\* A walk along the links of a queue lists its orders.
LEMMA QueueEnumerates ==
    ASSUME NEW S, NEW orders, NEW lv, QueueIs(S, orders, lv), NEW Ids, S \subseteq Ids
    PROVE  LET q == Walk(lv.first_order, [i \in Ids |-> orders[i].next_order], lv.order_count)
           IN  Enumerates(q, S) /\ (S # {} => q[1] = lv.first_order)
<1> DEFINE n  == lv.order_count
           nx == [i \in Ids |-> orders[i].next_order]
           h  == lv.first_order
           q  == Walk(h, nx, n)
<1>1. n = Cardinality(S) /\ n \in Nat /\ IsFiniteSet(S) /\ S \subseteq Nat
  BY FS_CardinalityType DEF QueueIs
<1>2. QueueMet(S, orders, lv, q)
  BY QueueWalk
<1> HIDE DEF n, nx, h
<1>3. q = [k \in 1 .. n |-> q[k]] /\ (n > 0 => q[1] = h)
  BY <1>1, WalkIs
<1> HIDE DEF q
<1>4. /\ {q[k] : k \in 1 .. n} = S
      /\ \A k \in 1 .. n : q[k] \in S /\ (k > 1 => q[k - 1] < q[k])
  BY <1>2 DEF QueueMet, n
<1>5. q \in Seq(Nat) /\ Len(q) = n
  <2>1. \A k \in 1 .. n : q[k] \in Nat
    BY <1>1, <1>4
  <2>2. [k \in 1 .. n |-> q[k]] \in Seq(Nat)
    BY <1>1, <2>1, IsASeq
  <2>3. DOMAIN q = 1 .. n
    BY <1>3
  <2>4. q \in Seq(Nat)
    BY ONLY <1>3, <2>2
  <2>5. Len(q) \in Nat /\ 1 .. Len(q) = 1 .. n
    BY ONLY <2>3, <2>4, LenProperties
  <2> QED
    BY ONLY <1>1, <2>4, <2>5
<1>6. \A j, k \in 1 .. Len(q) : j < k => q[j] < q[k]
  BY <1>4, <1>5, StepwiseIncreasing
<1>7. S # {} => n > 0
  BY <1>1, <1>4
<1> QED
  BY <1>3, <1>4, <1>5, <1>6, <1>7 DEF Enumerates, q, n, nx, h

-----------------------------------------------------------------------------
(* The queues of all books, lists and prices at once, and what every order *)
(* ever placed has left: the state of PriorityBook                         *)

\* f has a value for every book, list and price.
ByLevel(f, Books, Lists, Prices) ==
    f = [b \in Books |-> [l \in Lists |-> [p \in Prices |-> f[b][l][p]]]]

\* Queue q of a level lists the ids of the level, for all levels.
QueuesAre(q, ids, Books, Lists, Prices) ==
    /\ ByLevel(q, Books, Lists, Prices)
    /\ \A b \in Books, l \in Lists, p \in Prices : Enumerates(q[b][l][p], ids[b][l][p])

\* A level that changed, as PriorityBook writes it.
LEMMA OneLevelChanged ==
    ASSUME NEW Books, NEW Lists, NEW Prices, NEW f, ByLevel(f, Books, Lists, Prices),
           NEW g, ByLevel(g, Books, Lists, Prices),
           NEW b \in Books, NEW l \in Lists, NEW p \in Prices,
           \A c \in Books, k \in Lists, r \in Prices :
               c # b \/ k # l \/ r # p => g[c][k][r] = f[c][k][r]
    PROVE  g = [f EXCEPT ![b][l][p] = g[b][l][p]]
<1> DEFINE h == [f EXCEPT ![b][l][p] = g[b][l][p]]
<1>1. /\ f = [c \in Books |-> [k \in Lists |-> [r \in Prices |-> f[c][k][r]]]]
      /\ g = [c \in Books |-> [k \in Lists |-> [r \in Prices |-> g[c][k][r]]]]
  BY DEF ByLevel
<1>2. /\ DOMAIN f = Books /\ DOMAIN g = Books
      /\ \A c \in Books : /\ f[c] = [k \in Lists |-> [r \in Prices |-> f[c][k][r]]]
                          /\ g[c] = [k \in Lists |-> [r \in Prices |-> g[c][k][r]]]
  BY <1>1
<1>3. /\ \A c \in Books : DOMAIN f[c] = Lists /\ DOMAIN g[c] = Lists
      /\ \A c \in Books, k \in Lists : /\ f[c][k] = [r \in Prices |-> f[c][k][r]]
                                       /\ g[c][k] = [r \in Prices |-> g[c][k][r]]
  BY <1>2
<1>4. /\ h = [c \in Books |-> IF c = b THEN [f[b] EXCEPT ![l][p] = g[b][l][p]] ELSE f[c]]
      /\ [f[b] EXCEPT ![l][p] = g[b][l][p]] =
             [k \in Lists |-> IF k = l THEN [f[b][l] EXCEPT ![p] = g[b][l][p]] ELSE f[b][k]]
      /\ [f[b][l] EXCEPT ![p] = g[b][l][p]] =
             [r \in Prices |-> IF r = p THEN g[b][l][p] ELSE f[b][l][r]]
  BY <1>2, <1>3
<1>5. g[b][l] = [f[b][l] EXCEPT ![p] = g[b][l][p]]
  <2>1. \A r \in Prices : g[b][l][r] = IF r = p THEN g[b][l][p] ELSE f[b][l][r]
    OBVIOUS
  <2>2. g[b][l] = [r \in Prices |-> g[b][l][r]]
    BY <1>3
  <2> QED
    BY <1>4, <2>1, <2>2
<1>6. \A c \in Books, k \in Lists : c # b \/ k # l => g[c][k] = f[c][k]
  <2> TAKE c \in Books, k \in Lists
  <2> HAVE c # b \/ k # l
  <2>1. \A r \in Prices : g[c][k][r] = f[c][k][r]
    OBVIOUS
  <2>2. /\ g[c][k] = [r \in Prices |-> g[c][k][r]]
        /\ f[c][k] = [r \in Prices |-> f[c][k][r]]
    BY <1>3
  <2> QED
    BY <2>1, <2>2
<1>7. g[b] = [f[b] EXCEPT ![l][p] = g[b][l][p]]
  <2>1. g[b] = [k \in Lists |-> g[b][k]]
    BY <1>2, <1>3
  <2>2. \A k \in Lists : g[b][k] = IF k = l THEN [f[b][l] EXCEPT ![p] = g[b][l][p]] ELSE f[b][k]
    BY <1>5, <1>6
  <2> QED
    BY <1>4, <2>1, <2>2
<1>8. \A c \in Books : c # b => g[c] = f[c]
  <2> TAKE c \in Books
  <2> HAVE c # b
  <2>1. \A k \in Lists : g[c][k] = f[c][k]
    BY <1>6
  <2>2. g[c] = [k \in Lists |-> g[c][k]] /\ f[c] = [k \in Lists |-> f[c][k]]
    BY <1>2, <1>3
  <2> QED
    BY <2>1, <2>2
<1>9. g = [c \in Books |-> g[c]]
  BY <1>1
<1>10. \A c \in Books : g[c] = IF c = b THEN [f[b] EXCEPT ![l][p] = g[b][l][p]] ELSE f[c]
  BY <1>7, <1>8
<1>11. g = h
  BY <1>4, <1>9, <1>10
<1> QED
  BY <1>11

\* The same for what one order has left.
LEMMA OneLeftChanged ==
    ASSUME NEW Books, NEW Ids, NEW f, NEW g,
           f = [b \in Books |-> [i \in Ids |-> f[b][i]]],
           g = [b \in Books |-> [i \in Ids |-> g[b][i]]],
           NEW b \in Books, NEW i \in Ids,
           \A c \in Books, j \in Ids : c # b \/ j # i => g[c][j] = f[c][j]
    PROVE  g = [f EXCEPT ![b][i] = g[b][i]]
<1>1. /\ DOMAIN f = Books /\ DOMAIN g = Books
      /\ \A c \in Books : /\ f[c] = [j \in Ids |-> f[c][j]]
                          /\ g[c] = [j \in Ids |-> g[c][j]]
  OBVIOUS
<1>2. g[b] = [f[b] EXCEPT ![i] = g[b][i]]
  <2>1. \A j \in Ids : g[b][j] = IF j = i THEN g[b][i] ELSE f[b][j]
    OBVIOUS
  <2> QED
    BY <1>1, <2>1
<1>3. \A c \in Books : c # b => g[c] = f[c]
  <2> TAKE c \in Books
  <2> HAVE c # b
  <2>1. \A j \in Ids : g[c][j] = f[c][j]
    OBVIOUS
  <2> QED
    BY <1>1, <2>1
<1>4. [f EXCEPT ![b][i] = g[b][i]] =
          [c \in Books |-> IF c = b THEN [f[b] EXCEPT ![i] = g[b][i]] ELSE f[c]]
  BY <1>1
<1>5. g = [c \in Books |-> g[c]]
  OBVIOUS
<1>6. \A c \in Books : g[c] = IF c = b THEN [f[b] EXCEPT ![i] = g[b][i]] ELSE f[c]
  BY <1>2, <1>3
<1> QED
  BY <1>4, <1>5, <1>6

\* A level whose ids stay keeps its queue.
LEMMA QueuesStay ==
    ASSUME NEW Books, NEW Lists, NEW Prices, NEW q, NEW ids, NEW q2, NEW ids2,
           QueuesAre(q, ids, Books, Lists, Prices),
           QueuesAre(q2, ids2, Books, Lists, Prices),
           NEW c \in Books, NEW k \in Lists, NEW r \in Prices,
           ids2[c][k][r] = ids[c][k][r]
    PROVE  q2[c][k][r] = q[c][k][r]
<1>1. Enumerates(q[c][k][r], ids[c][k][r]) /\ Enumerates(q2[c][k][r], ids[c][k][r])
  BY DEF QueuesAre
<1> QED
  BY <1>1, EnumerationUnique

\* Ids that stay everywhere keep all queues.
LEMMA QueuesSame ==
    ASSUME NEW Books, NEW Lists, NEW Prices, NEW q, NEW ids, NEW q2, NEW ids2,
           QueuesAre(q, ids, Books, Lists, Prices),
           QueuesAre(q2, ids2, Books, Lists, Prices),
           \A c \in Books, k \in Lists, r \in Prices : ids2[c][k][r] = ids[c][k][r]
    PROVE  q2 = q
<1>1. \A c \in Books, k \in Lists, r \in Prices : q2[c][k][r] = q[c][k][r]
  BY QueuesStay
<1>2. /\ q = [c \in Books |-> [k \in Lists |-> [r \in Prices |-> q[c][k][r]]]]
      /\ q2 = [c \in Books |-> [k \in Lists |-> [r \in Prices |-> q2[c][k][r]]]]
  BY DEF QueuesAre, ByLevel
<1>3. [c \in Books |-> [k \in Lists |-> [r \in Prices |-> q[c][k][r]]]] =
      [c \in Books |-> [k \in Lists |-> [r \in Prices |-> q2[c][k][r]]]]
  BY <1>1
<1> QED
  BY <1>2, <1>3

\* The ids of every level but this one stay.
OthersStay(ids, ids2, Books, Lists, Prices, b, l, p) ==
    \A c \in Books, k \in Lists, r \in Prices :
        c # b \/ k # l \/ r # p => ids2[c][k][r] = ids[c][k][r]

\* As PriorityBook writes it: one queue changed, and no other.
OneQueueChanges(q, q2, b, l, p) == q2 = [q EXCEPT ![b][l][p] = q2[b][l][p]]

\* s2 is s without the one place i had in it.
TakenOut(s, s2, i) ==
    \E n \in DOMAIN s :
        s[n] = i /\ s2 = SubSeq(s, 1, n - 1) \o SubSeq(s, n + 1, Len(s))

\* The queue of the level that changed is all that changed.
LEMMA QueuesChange ==
    ASSUME NEW Books, NEW Lists, NEW Prices, NEW q, NEW ids, NEW q2, NEW ids2,
           QueuesAre(q, ids, Books, Lists, Prices),
           QueuesAre(q2, ids2, Books, Lists, Prices),
           NEW b \in Books, NEW l \in Lists, NEW p \in Prices,
           OthersStay(ids, ids2, Books, Lists, Prices, b, l, p)
    PROVE  OneQueueChanges(q, q2, b, l, p)
<1>1. \A c \in Books, k \in Lists, r \in Prices :
          c # b \/ k # l \/ r # p => q2[c][k][r] = q[c][k][r]
  BY QueuesStay DEF OthersStay
<1> QED
  BY <1>1, OneLevelChanged DEF QueuesAre, OneQueueChanges

\* A new greatest id joins one level.
LEMMA QueuesAppend ==
    ASSUME NEW Books, NEW Lists, NEW Prices, NEW q, NEW ids, NEW q2, NEW ids2,
           QueuesAre(q, ids, Books, Lists, Prices),
           QueuesAre(q2, ids2, Books, Lists, Prices),
           NEW b \in Books, NEW l \in Lists, NEW p \in Prices,
           OthersStay(ids, ids2, Books, Lists, Prices, b, l, p),
           NEW id \in Nat, \A i \in ids[b][l][p] : i < id,
           ids2[b][l][p] = ids[b][l][p] \cup {id}
    PROVE  /\ q2[b][l][p] = Append(q[b][l][p], id)
           /\ OneQueueChanges(q, q2, b, l, p)
<1> DEFINE s  == q[b][l][p]
           s2 == q2[b][l][p]
           S  == ids[b][l][p]
<1>1. Enumerates(s, S) /\ Enumerates(s2, S \cup {id})
  BY DEF QueuesAre
<1>2. OneQueueChanges(q, q2, b, l, p)
  BY QueuesChange
<1>3. \A i \in S : i < id
  OBVIOUS
<1> HIDE DEF s, s2, S
<1>4. Enumerates(Append(s, id), S \cup {id})
  BY <1>1, <1>3, EnumerationAppend
<1>5. s2 = Append(s, id)
  BY <1>1, <1>4, EnumerationUnique
<1> QED
  BY <1>2, <1>5 DEF s, s2

\* An id leaves one level.
LEMMA QueuesRemove ==
    ASSUME NEW Books, NEW Lists, NEW Prices, NEW q, NEW ids, NEW q2, NEW ids2,
           QueuesAre(q, ids, Books, Lists, Prices),
           QueuesAre(q2, ids2, Books, Lists, Prices),
           NEW b \in Books, NEW l \in Lists, NEW p \in Prices,
           OthersStay(ids, ids2, Books, Lists, Prices, b, l, p),
           NEW i \in ids[b][l][p], ids2[b][l][p] = ids[b][l][p] \ {i}
    PROVE  /\ TakenOut(q[b][l][p], q2[b][l][p], i)
           /\ OneQueueChanges(q, q2, b, l, p)
           /\ q[b][l][p][1] = i =>
                  Head(q[b][l][p]) = i /\ q2[b][l][p] = Tail(q[b][l][p])
<1> DEFINE s  == q[b][l][p]
           s2 == q2[b][l][p]
           S  == ids[b][l][p]
<1>1. Enumerates(s, S) /\ Enumerates(s2, S \ {i})
  BY DEF QueuesAre
<1>2. OneQueueChanges(q, q2, b, l, p)
  BY QueuesChange
<1>3. i \in S
  OBVIOUS
<1> HIDE DEF s, s2, S
<1>4. s \in Seq(Nat) /\ DOMAIN s = 1 .. Len(s) /\ S = {s[k] : k \in 1 .. Len(s)}
  BY <1>1, LenProperties DEF Enumerates
<1>5. PICK n \in 1 .. Len(s) : s[n] = i
  BY <1>3, <1>4
<1>6. s2 = SubSeq(s, 1, n - 1) \o SubSeq(s, n + 1, Len(s))
  <2>1. Enumerates(SubSeq(s, 1, n - 1) \o SubSeq(s, n + 1, Len(s)), S \ {i})
    BY <1>1, <1>5, EnumerationRemove
  <2> QED
    BY <1>1, <2>1, EnumerationUnique
<1>7. s[1] = i => Head(s) = i /\ s2 = Tail(s)
  <2>1. s # <<>>
    BY <1>1, <1>3, EnumerationEmpty
  <2>2. Head(s) = s[1] /\ Enumerates(Tail(s), S \ {s[1]})
    BY <1>1, <2>1, EnumerationTail
  <2> QED
    BY <1>1, <2>2, EnumerationUnique
<1>8. TakenOut(s, s2, i)
  BY <1>4, <1>5, <1>6 DEF TakenOut
<1> QED
  BY <1>2, <1>7, <1>8 DEF s, s2
=============================================================================
