--------------------------- MODULE SaleMoneyProofs ---------------------------
(***************************************************************************)
(* Proofs about the money of a sale, for any number of orders of any value,*)
(* any refunds and any fee up to a half.  BooksBalance is not inductive by *)
(* itself: what is due and what stands only move together because a row    *)
(* that was not paid is settled for its commission (RowsAgree).            *)
(***************************************************************************)
EXTENDS MCMarketplace, Integers, SumTheorems, TLAPS

\* A step is one component's, and leaves the variables of the others alone.
marketVars == <<component, peopleVars, servedVars>>

-----------------------------------------------------------------------------
LEMMA MoneyParameters ==
    /\ IsFiniteSet(Order)
    /\ Values \subseteq Nat \ {0} /\ Refunds \subseteq Nat \ {0}
    /\ FeePercent \in 0..50
    /\ MinPayout \in Nat \ {0} /\ MaxRefunds \in Nat
    /\ NULL \notin Money!Conversion
  <1>1. Money!MoneyAssumption
    BY MarketplaceAssumption DEF MarketplaceAssumption
  <1>2. QED
    BY <1>1 DEF Money!MoneyAssumption, Money!IsFiniteSet, IsFiniteSet

LEMMA MoneySum ==
    \A f, S : Money!SumFunctionOnSet(f, S) = SumFunctionOnSet(f, S)
  BY DEF Money!SumFunctionOnSet, Money!FoldFunctionOnSet, Money!MapThenFoldSet,
         SumFunctionOnSet, FoldFunctionOnSet, MapThenFoldSet

Earners == {alice, bob}
Sales == Order \X Earners

\* The amounts to be paid to an affiliate, and the commission of what stands.
Due(c, a) == [o \in Order |->
    IF c[o, a] # NULL /\ c[o, a].commission = "APPROVED" THEN c[o, a].amount ELSE 0]
Stands(c, a) == [o \in Order |->
    IF c[o, a] # NULL /\ c[o, a].status = "APPROVED"
    THEN c[o, a].commissionAmount ELSE 0]

LEMMA SaleOf ==
    ASSUME NEW c \in [Sales -> Money!Conversion \cup {NULL}], NEW o \in Order,
           NEW a \in Earners
    PROVE  c[o, a] \in Money!Conversion \cup {NULL}
  BY DEF Sales

LEMMA DueType ==
    ASSUME NEW c \in [Sales -> Money!Conversion \cup {NULL}], NEW a \in Earners
    PROVE  /\ \A o \in Order : Due(c, a)[o] \in Nat
           /\ \A o \in Order : Stands(c, a)[o] \in Nat
           /\ SumFunctionOnSet(Due(c, a), Order) \in Nat
           /\ SumFunctionOnSet(Stands(c, a), Order) \in Nat
  <1>1. \A o \in Order : Due(c, a)[o] \in Nat
    BY SaleOf DEF Due, Money!Conversion
  <1>2. \A o \in Order : Stands(c, a)[o] \in Nat
    BY SaleOf DEF Stands, Money!Conversion
  <1>3. QED
    BY <1>1, <1>2, SumType, MoneyParameters, Zenon

LEMMA BalanceSums ==
    ASSUME NEW c \in [Sales -> Money!Conversion \cup {NULL}], NEW a \in Earners
    PROVE  LET due == {o \in Order : /\ c[o, a] # NULL
                                     /\ c[o, a].commission = "APPROVED"}
               standing == {o \in Order : /\ c[o, a] # NULL
                                          /\ c[o, a].status = "APPROVED"}
           IN
           /\ Money!SumFunctionOnSet([o \in due |-> c[o, a].amount], due)
                  = SumFunctionOnSet(Due(c, a), Order)
           /\ Money!SumFunctionOnSet([o \in standing |-> c[o, a].commissionAmount],
                                     standing)
                  = SumFunctionOnSet(Stands(c, a), Order)
  <1> DEFINE due == {o \in Order : /\ c[o, a] # NULL
                                   /\ c[o, a].commission = "APPROVED"}
             standing == {o \in Order : /\ c[o, a] # NULL
                                        /\ c[o, a].status = "APPROVED"}
             f == [o \in due |-> c[o, a].amount]
             g == [o \in standing |-> c[o, a].commissionAmount]
  <1>1. due \in SUBSET Order /\ standing \in SUBSET Order
    OBVIOUS
  <1>2. IsFiniteSet(due) /\ IsFiniteSet(standing)
    BY <1>1, MoneyParameters, FS_Subset, Zenon
  <1>3. /\ \A o \in due : f[o] = Due(c, a)[o]
        /\ \A o \in Order \ due : Due(c, a)[o] = 0
    BY DEF Due
  <1>4. /\ \A o \in standing : g[o] = Stands(c, a)[o]
        /\ \A o \in Order \ standing : Stands(c, a)[o] = 0
    BY DEF Stands
  <1> HIDE DEF due, standing, f, g
  <1>5. SumFunctionOnSet(f, due) = SumFunctionOnSet(Due(c, a), due)
    BY <1>2, <1>3, SumSame, Zenon
  <1>6. SumFunctionOnSet(g, standing) = SumFunctionOnSet(Stands(c, a), standing)
    BY <1>2, <1>4, SumSame, Zenon
  <1>7. SumFunctionOnSet(Due(c, a), Order) = SumFunctionOnSet(Due(c, a), due)
    BY <1>1, <1>3, DueType, MoneyParameters, SumWithin, Zenon
  <1>8. SumFunctionOnSet(Stands(c, a), Order) = SumFunctionOnSet(Stands(c, a), standing)
    BY <1>1, <1>4, DueType, MoneyParameters, SumWithin, Zenon
  <1>9. Money!SumFunctionOnSet(f, due) = SumFunctionOnSet(Due(c, a), Order)
    BY <1>5, <1>7, MoneySum, Zenon
  <1>10. Money!SumFunctionOnSet(g, standing) = SumFunctionOnSet(Stands(c, a), Order)
    BY <1>6, <1>8, MoneySum, Zenon
  <1>11. QED
    BY <1>9, <1>10 DEF due, standing, f, g

\* What an affiliate has or is to be paid is what stands and is not taken back.
Balanced(c, ow, p, a) ==
    /\ p[a].gross + SumFunctionOnSet(Due(c, a), Order)
          = ow[a] + SumFunctionOnSet(Stands(c, a), Order)
    /\ p[a].fee + p[a].net = p[a].gross

LEMMA BooksAreBalanced ==
    ASSUME sold \in [Sales -> Money!Conversion \cup {NULL}]
    PROVE  /\ Money!BooksBalance <=> \A a \in Earners : Balanced(sold, owed, payouts, a)
           /\ \A a \in Earners : Money!TotalOf(Money!Payable(a), a)
                                     = SumFunctionOnSet(Due(sold, a), Order)
  <1>1. ASSUME NEW a \in Earners
        PROVE  /\ Money!TotalOf(Money!Payable(a), a)
                     = SumFunctionOnSet(Due(sold, a), Order)
               /\ Money!SumFunctionOnSet(
                      [o \in Money!Standing(a) |-> sold[o, a].commissionAmount],
                      Money!Standing(a))
                     = SumFunctionOnSet(Stands(sold, a), Order)
    <2>1. /\ Money!SumFunctionOnSet(
                [o \in Money!Payable(a) |-> sold[o, a].amount], Money!Payable(a))
                     = SumFunctionOnSet(Due(sold, a), Order)
          /\ Money!SumFunctionOnSet(
                      [o \in Money!Standing(a) |-> sold[o, a].commissionAmount],
                      Money!Standing(a))
                     = SumFunctionOnSet(Stands(sold, a), Order)
      BY BalanceSums DEF Money!Payable, Money!Standing
    <2>2. QED
      BY <2>1 DEF Money!TotalOf
  <1>2. QED
    BY <1>1, Zenon DEF Money!BooksBalance, Balanced, Earners

LEMMA BooksAreBalancedNext ==
    ASSUME sold' \in [Sales -> Money!Conversion \cup {NULL}],
           \A a \in Earners : Balanced(sold', owed', payouts', a)
    PROVE  Money!BooksBalance'
  <1>1. ASSUME NEW a \in Earners
        PROVE  /\ Money!SumFunctionOnSet(
                [o \in Money!Payable(a)' |-> sold'[o, a].amount], Money!Payable(a)')
                     = SumFunctionOnSet(Due(sold', a), Order)
               /\ Money!SumFunctionOnSet(
                      [o \in Money!Standing(a)' |-> sold'[o, a].commissionAmount],
                      Money!Standing(a)')
                     = SumFunctionOnSet(Stands(sold', a), Order)
    BY BalanceSums DEF Money!Payable, Money!Standing
  <1>2. QED
    BY <1>1, Zenon DEF Money!BooksBalance, Balanced, Earners, Money!TotalOf

-----------------------------------------------------------------------------
LEMMA Product == \A n, m \in Nat : n * m \in Nat
  OBVIOUS
LEMMA ProductGrows == \A n, m, k \in Nat : n <= m => n * k <= m * k
  OBVIOUS

LEMMA OneMore == \A n, m \in Nat : (n + 1) * m = n * m + m
  OBVIOUS

LEMMA CentsOf ==
    ASSUME NEW n \in Nat, NEW d \in Nat \ {0}, NEW c \in Money!Cents(n, d)
    PROVE  c \in Nat /\ 2 * c * d <= 2 * n + d /\ 2 * n <= 2 * c * d + d
  <1>1. n \div d \in Nat
    OBVIOUS
  <1>2. QED
    BY <1>1 DEF Money!Cents

\* A rounded amount does not exceed a whole one that the amount does not.
LEMMA CentsWithin ==
    ASSUME NEW n \in Nat, NEW d \in Nat \ {0}, NEW m \in Nat, n <= m * d,
           NEW c \in Money!Cents(n, d)
    PROVE  c <= m
  <1>1. c \in Nat /\ 2 * c * d <= 2 * n + d
    BY CentsOf
  <1>2. SUFFICES ASSUME c >= m + 1 PROVE FALSE
    BY <1>1
  <1>3. (m + 1) * d <= c * d
    BY <1>1, <1>2, ProductGrows
  <1>4. (m + 1) * d = m * d + d /\ 2 * c * d = 2 * (c * d)
    BY <1>1
  <1>5. m * d \in Nat /\ c * d \in Nat
    BY <1>1, Product
  <1> DEFINE x == m * d
             y == c * d
  <1>6. x \in Nat /\ y \in Nat /\ x + d <= y /\ 2 * y <= 2 * n + d /\ n <= x
    BY <1>1, <1>3, <1>4, <1>5
  <1> HIDE DEF x, y
  <1>7. QED
    BY <1>6

LEMMA KeptWithin ==
    ASSUME NEW c \in Money!Conversion, NEW part \in Nat \ {0}, part <= c.value,
           NEW kept \in Money!KeptOf(c, part)
    PROVE  /\ kept \in Nat /\ kept <= c.commissionAmount
           /\ part = c.value => kept = 0
           /\ 2 * kept * c.value <= 2 * (c.commissionAmount * (c.value - part)) + c.value
           /\ 2 * (c.commissionAmount * (c.value - part)) <= 2 * kept * c.value + c.value
  <1> DEFINE v == c.value
             m == c.commissionAmount
             left == v - part
  <1>1. v \in Nat \ {0} /\ m \in Nat /\ left \in Nat /\ left <= v
    BY DEF Money!Conversion
  <1>2. kept \in Money!Cents(m * left, v)
    BY <1>1 DEF Money!KeptOf
  <1>3. m * left \in Nat /\ m * left <= m * v
    <2> HIDE DEF v, m, left
    <2>1. left * m <= v * m
      BY <1>1, ProductGrows
    <2>2. QED
      BY <1>1, <2>1, Product
  <1>4. kept \in Nat /\ 2 * kept * v <= 2 * (m * left) + v
        /\ 2 * (m * left) <= 2 * kept * v + v
    <2> HIDE DEF v, m, left
    <2>1. QED
      BY <1>1, <1>2, <1>3, CentsOf
  <1>5. kept <= m
    <2> HIDE DEF v, m, left
    <2>1. QED
      BY <1>1, <1>2, <1>3, CentsWithin
  <1>6. ASSUME left = 0 PROVE kept <= 0
    <2> HIDE DEF v, m, left
    <2>1. m * left = 0
      BY <1>1, <1>6
    <2>2. 0 <= 0 * v
      BY <1>1
    <2>3. QED
      BY <1>1, <1>2, <2>1, <2>2, CentsWithin
  <1>7. QED
    BY <1>1, <1>4, <1>5, <1>6

\* A part rounds once: what was within n half cents is within n + 1.
LEMMA OneRounding ==
    ASSUME NEW m \in Nat, NEW v \in Nat \ {0}, NEW left \in Nat, left <= v,
           NEW kept \in Nat, NEW S \in Nat, NEW E \in Nat, NEW n \in Nat
    PROVE  /\ 2 * kept * v <= 2 * (m * left) + v /\ 2 * m * S <= 2 * E * v + n * S
                => 2 * kept * S <= 2 * E * left + (n + 1) * S
           /\ 2 * (m * left) <= 2 * kept * v + v /\ 2 * E * v <= 2 * m * S + n * S
                => 2 * E * left <= 2 * kept * S + (n + 1) * S
  <1>1. ASSUME 2 * kept * v <= 2 * (m * left) + v, 2 * m * S <= 2 * E * v + n * S
        PROVE  2 * kept * S <= 2 * E * left + (n + 1) * S
    <2>1. (2 * kept * v) * S <= (2 * (m * left) + v) * S
      BY <1>1, ProductGrows
    <2>2. (2 * m * S) * left <= (2 * E * v + n * S) * left
      BY <1>1, ProductGrows
    <2>3. (n * S) * left <= (n * S) * v
      BY ProductGrows
    <2>4. (2 * kept * S) * v <= (2 * E * left + (n + 1) * S) * v
      BY <2>1, <2>2, <2>3
    <2>5. SUFFICES ASSUME 2 * kept * S >= (2 * E * left + (n + 1) * S) + 1 PROVE FALSE
      OBVIOUS
    <2>6. ((2 * E * left + (n + 1) * S) + 1) * v <= (2 * kept * S) * v
      BY <2>5, ProductGrows
    <2>7. QED
      BY <2>4, <2>6
  <1>2. ASSUME 2 * (m * left) <= 2 * kept * v + v, 2 * E * v <= 2 * m * S + n * S
        PROVE  2 * E * left <= 2 * kept * S + (n + 1) * S
    <2>1. (2 * (m * left)) * S <= (2 * kept * v + v) * S
      BY <1>2, ProductGrows
    <2>2. (2 * E * v) * left <= (2 * m * S + n * S) * left
      BY <1>2, ProductGrows
    <2>3. (n * S) * left <= (n * S) * v
      BY ProductGrows
    <2>4. (2 * E * left) * v <= (2 * kept * S + (n + 1) * S) * v
      BY <2>1, <2>2, <2>3
    <2>5. SUFFICES ASSUME 2 * E * left >= (2 * kept * S + (n + 1) * S) + 1 PROVE FALSE
      OBVIOUS
    <2>6. ((2 * kept * S + (n + 1) * S) + 1) * v <= (2 * E * left) * v
      BY <2>5, ProductGrows
    <2>7. QED
      BY <2>4, <2>6
  <1>3. QED
    BY <1>1, <1>2

-----------------------------------------------------------------------------
Terms == {Flat, Bounded, Tiered}
Fraction == [n : Nat, d : Nat \ {0}]

LEMMA TierOf ==
    ASSUME NEW prior \in Nat
    PROVE  Money!TierFor(Tiered.tiers, prior).percentage \in Nat
  <1> DEFINE tiers == Tiered.tiers
             reached == {t \in tiers : t.minSales <= prior}
             low == [minSales |-> 0, percentage |-> 10]
             high == [minSales |-> 1, percentage |-> 50]
  <1>1. tiers = {low, high}
    BY DEF Tiered
  <1>2. low \in reached
    BY <1>1
  <1>3. \E t \in reached : \A u \in reached : u.minSales <= t.minSales
    <2>1. CASE high \in reached
      BY <1>1, <2>1
    <2>2. CASE high \notin reached
      BY <1>1, <1>2, <2>2
    <2>3. QED
      BY <2>1, <2>2
  <1>4. \A t \in reached : t.percentage \in Nat
    BY <1>1
  <1>5. (CHOOSE t \in reached : \A u \in reached : u.minSales <= t.minSales) \in reached
    <2> HIDE DEF reached
    <2>1. QED
      BY <1>3
  <1>6. Money!TierFor(tiers, prior)
            = CHOOSE t \in reached : \A u \in reached : u.minSales <= t.minSales
    BY <1>2 DEF Money!TierFor
  <1>7. QED
    BY <1>4, <1>5, <1>6

LEMMA AmountType ==
    ASSUME NEW t \in Terms, NEW n \in Nat, NEW d \in Nat \ {0}, NEW prior \in Nat
    PROVE  Money!Amount(t, n, d, prior) \in Fraction
  <1>1. CASE t = Flat
    BY <1>1 DEF Money!Amount, Flat, Fraction
  <1>2. CASE t = Bounded
    <2>1. Money!Percent(30, n, d) \in Fraction
      BY DEF Money!Percent, Fraction
    <2>2. Money!AtLeast(Money!Percent(30, n, d), 2) \in Fraction
      BY <2>1 DEF Money!AtLeast, Fraction
    <2>3. Money!AtMost(Money!AtLeast(Money!Percent(30, n, d), 2), 4) \in Fraction
      BY <2>2 DEF Money!AtMost, Fraction
    <2>4. QED
      BY <1>2, <2>3 DEF Money!Amount, Bounded
  <1>3. CASE t = Tiered
    <2>1. Money!Amount(t, n, d, prior)
              = Money!Percent(Money!TierFor(Tiered.tiers, prior).percentage, n, d)
      BY <1>3 DEF Money!Amount, Tiered
    <2>2. QED
      BY <2>1, TierOf, Product DEF Money!Percent, Fraction
  <1>4. QED
    BY <1>1, <1>2, <1>3 DEF Terms

LEMMA CommissionType ==
    ASSUME NEW t \in Terms, NEW n \in Nat, NEW d \in Nat \ {0}, NEW prior \in Nat,
           NEW c \in Money!calculateCommission(t, n, d, prior)
    PROVE  c \in Nat
  <1>1. Money!Amount(t, n, d, prior) \in Fraction
    BY AmountType
  <1>2. PICK x \in Fraction : x = Money!Amount(t, n, d, prior)
    BY <1>1
  <1>3. x.n \in Nat /\ x.d \in Nat \ {0} /\ c \in Money!Cents(x.n, x.d)
    BY <1>2 DEF Money!calculateCommission, Fraction
  <1>4. QED
    BY <1>3, CentsOf

LEMMA TermsAreTerms ==
    ASSUME Money!TypeOK, NEW a \in Earners
    PROVE  Money!TermsOf(a) \in Terms
  BY DEF Money!TypeOK, Money!TermsOf, Terms, Earners

LEMMA PriorType ==
    ASSUME NEW a PROVE Money!PriorCount(a) \in Nat
  <1> DEFINE S == {o \in Order : /\ sold[o, a] # NULL
                                 /\ sold[o, a].status = "APPROVED"}
  <1>1. IsFiniteSet(S)
    BY MoneyParameters, FS_Subset
  <1>2. Cardinality(S) \in Nat
    BY <1>1, FS_CardinalityType
  <1>3. QED
    BY <1>2 DEF Money!PriorCount, Money!Cardinality, Cardinality

LEMMA MoneyInit == Money!Init => Money!MoneyInv
  <1> SUFFICES ASSUME Money!Init PROVE Money!MoneyInv
    OBVIOUS
  <1>1. Money!TypeOK
    BY MoneyParameters DEF Money!Init, Money!TypeOK
  <1>2. sold \in [Sales -> Money!Conversion \cup {NULL}]
    BY <1>1 DEF Money!TypeOK, Sales, Earners
  <1>3. Money!RowsAgree /\ Money!KeepsItsShare
    BY DEF Money!Init, Money!RowsAgree, Money!KeepsItsShare
  <1>4. ASSUME NEW a \in Earners PROVE Balanced(sold, owed, payouts, a)
    <2>1. \A o \in Order : sold[o, a] = NULL
      BY <1>4 DEF Money!Init, Earners
    <2>2. \A o \in Order : Due(sold, a)[o] = 0 /\ Stands(sold, a)[o] = 0
      BY <2>1 DEF Due, Stands
    <2>3. /\ SumFunctionOnSet(Due(sold, a), Order) = 0
          /\ SumFunctionOnSet(Stands(sold, a), Order) = 0
      BY <2>2, SumZero, MoneyParameters, Zenon
    <2>4. payouts[a] = [gross |-> 0, fee |-> 0, net |-> 0] /\ owed[a] = 0
      BY <1>4 DEF Money!Init, Earners
    <2>5. QED
      BY <2>3, <2>4 DEF Balanced
  <1>5. Money!BooksBalance
    BY <1>2, <1>4, BooksAreBalanced, Zenon
  <1>6. QED
    BY <1>1, <1>3, <1>5 DEF Money!MoneyInv

\* What the invariant says, of the rows and of the sums.
LEMMA MoneyFacts ==
    ASSUME Money!MoneyInv
    PROVE  /\ Money!TypeOK /\ Money!RowsAgree /\ Money!KeepsItsShare
           /\ sold \in [Sales -> Money!Conversion \cup {NULL}]
           /\ \A a \in Earners : Balanced(sold, owed, payouts, a)
           /\ \A a \in Earners : /\ owed[a] \in Nat
                                 /\ payouts[a] \in [gross : Nat, fee : Nat, net : Nat]
           /\ owed \in [Earners -> Nat]
  <1>1. Money!TypeOK /\ Money!RowsAgree /\ Money!KeepsItsShare /\ Money!BooksBalance
    BY DEF Money!MoneyInv
  <1>2. sold \in [Sales -> Money!Conversion \cup {NULL}]
    BY <1>1 DEF Money!TypeOK, Sales, Earners
  <1>3. QED
    BY <1>1, <1>2, BooksAreBalanced DEF Money!TypeOK, Earners

\* One sale changes, and with it what is due and what stands of its earner.
LEMMA OneSaleChanges ==
    ASSUME NEW c \in [Sales -> Money!Conversion \cup {NULL}], NEW o \in Order,
           NEW a \in Earners, NEW d \in [Sales -> Money!Conversion \cup {NULL}],
           \A s \in Sales : s # <<o, a>> => d[s] = c[s]
    PROVE  /\ SumFunctionOnSet(Due(d, a), Order)
                  = SumFunctionOnSet(Due(c, a), Order) + Due(d, a)[o] - Due(c, a)[o]
           /\ SumFunctionOnSet(Stands(d, a), Order)
                  = SumFunctionOnSet(Stands(c, a), Order)
                        + Stands(d, a)[o] - Stands(c, a)[o]
           /\ \A b \in Earners \ {a} : Due(d, b) = Due(c, b) /\ Stands(d, b) = Stands(c, b)
  <1>1. \A p \in Order, b \in Earners : <<p, b>> # <<o, a>> => d[p, b] = c[p, b]
    BY DEF Sales
  <1>2. /\ \A p \in Order \ {o} : Due(d, a)[p] = Due(c, a)[p]
        /\ \A p \in Order \ {o} : Stands(d, a)[p] = Stands(c, a)[p]
    BY <1>1 DEF Due, Stands
  <1>3. /\ \A p \in Order : Due(c, a)[p] \in Nat /\ Due(d, a)[p] \in Nat
        /\ \A p \in Order : Stands(c, a)[p] \in Nat /\ Stands(d, a)[p] \in Nat
    BY DueType
  <1>4. SumFunctionOnSet(Due(d, a), Order)
                  = SumFunctionOnSet(Due(c, a), Order) + Due(d, a)[o] - Due(c, a)[o]
    BY <1>2, <1>3, SumChange, MoneyParameters
  <1>5. SumFunctionOnSet(Stands(d, a), Order)
                  = SumFunctionOnSet(Stands(c, a), Order)
                        + Stands(d, a)[o] - Stands(c, a)[o]
    BY <1>2, <1>3, SumChange, MoneyParameters
  <1>6. ASSUME NEW b \in Earners \ {a}
        PROVE  Due(d, b) = Due(c, b) /\ Stands(d, b) = Stands(c, b)
    <2>1. \A p \in Order : d[p, b] = c[p, b]
      BY <1>1, <1>6
    <2>2. QED
      BY <2>1 DEF Due, Stands
  <1>7. QED
    BY <1>4, <1>5, <1>6

-----------------------------------------------------------------------------
\* What RowsAgree and KeepsItsShare say of a conversion.
Agrees(c) ==
    /\ c.status = "PENDING" <=> c.commission = "LOCKED"
    /\ c.status = "APPROVED" => c.commission \in {"APPROVED", "PAID"}
    /\ c.commission = "APPROVED" => c.status = "APPROVED"
    /\ c.commission \in {"LOCKED", "APPROVED"} => c.amount = c.commissionAmount
Fair(c) ==
    /\ 2 * c.commissionAmount * c.sold
          <= 2 * c.earned * c.value + c.refunds * c.sold
    /\ 2 * c.earned * c.value
          <= 2 * c.commissionAmount * c.sold + c.refunds * c.sold

\* The invariant, from what it says of every conversion and every affiliate.
LEMMA MoneyInvNext ==
    ASSUME Money!TypeOK', \A a \in Earners : Balanced(sold', owed', payouts', a),
           \A s \in Sales : sold'[s] # NULL =>
               value'[s[1]] # 0 /\ Agrees(sold'[s]) /\ Fair(sold'[s])
    PROVE  Money!MoneyInv'
  <1>1. sold' \in [Sales -> Money!Conversion \cup {NULL}]
    BY DEF Money!TypeOK, Sales, Earners
  <1>2. DOMAIN sold' = Sales
    BY <1>1
  <1>3. Money!BooksBalance'
    BY <1>1, BooksAreBalancedNext, Zenon
  <1>4. Money!RowsAgree'
    BY <1>2, Zenon DEF Money!RowsAgree, Agrees
  <1>5. Money!KeepsItsShare'
    BY <1>2, Zenon DEF Money!KeepsItsShare, Fair
  <1>6. QED
    BY <1>3, <1>4, <1>5 DEF Money!MoneyInv

LEMMA EverySale ==
    ASSUME Money!MoneyInv, NEW s \in Sales, sold[s] # NULL
    PROVE  /\ sold[s] \in Money!Conversion
           /\ value[s[1]] # 0 /\ Agrees(sold[s]) /\ Fair(sold[s])
  <1>1. /\ sold \in [Sales -> Money!Conversion \cup {NULL}]
        /\ Money!RowsAgree /\ Money!KeepsItsShare
    BY MoneyFacts
  <1>2. DOMAIN sold = Sales
    BY <1>1
  <1>3. value[s[1]] # 0 /\ Agrees(sold[s])
    BY <1>1, <1>2, Zenon DEF Money!RowsAgree, Agrees
  <1>4. Fair(sold[s])
    BY <1>1, <1>2, Zenon DEF Money!KeepsItsShare, Fair
  <1>5. QED
    BY <1>1, <1>3, <1>4

DueOf(c) == IF c.commission = "APPROVED" THEN c.amount ELSE 0
StandsOf(c) == IF c.status = "APPROVED" THEN c.commissionAmount ELSE 0

\* A conversion is approved or refunded: the books stay balanced if what is due,
\* owed and stands of it does.
LEMMA MoneySaleMoves ==
    ASSUME Money!MoneyInv, NEW o \in Order, NEW a \in Earners, sold[o, a] # NULL,
           NEW c \in Money!Conversion,
           sold' \in [Sales -> Money!Conversion \cup {NULL}], sold'[o, a] = c,
           \A s \in Sales : s # <<o, a>> => sold'[s] = sold[s],
           terms' = terms, deal' = deal, value' = value, payouts' = payouts,
           NEW back \in Nat, owed' \in [Earners -> Nat], owed'[a] = owed[a] + back,
           \A b \in Earners \ {a} : owed'[b] = owed[b],
           Agrees(c), Fair(c),
           DueOf(c) - DueOf(sold[o, a])
               = back + StandsOf(c) - StandsOf(sold[o, a])
    PROVE  Money!MoneyInv'
  <1>1. /\ Money!TypeOK /\ sold \in [Sales -> Money!Conversion \cup {NULL}]
        /\ \A b \in Earners : Balanced(sold, owed, payouts, b)
        /\ \A b \in Earners : /\ owed[b] \in Nat
                              /\ payouts[b] \in [gross : Nat, fee : Nat, net : Nat]
        /\ owed \in [Earners -> Nat]
    BY MoneyFacts
  <1>2. <<o, a>> \in Sales
    BY DEF Sales
  <1>4. Money!TypeOK'
    <2>1. QED
      BY <1>1 DEF Money!TypeOK, Earners, Sales
  <1>5. /\ SumFunctionOnSet(Due(sold', a), Order)
              = SumFunctionOnSet(Due(sold, a), Order) + Due(sold', a)[o] - Due(sold, a)[o]
        /\ SumFunctionOnSet(Stands(sold', a), Order)
              = SumFunctionOnSet(Stands(sold, a), Order)
                    + Stands(sold', a)[o] - Stands(sold, a)[o]
        /\ \A b \in Earners \ {a} :
              Due(sold', b) = Due(sold, b) /\ Stands(sold', b) = Stands(sold, b)
    <2>1. PICK d : d = sold'
      OBVIOUS
    <2>2. /\ d \in [Sales -> Money!Conversion \cup {NULL}]
          /\ \A s \in Sales : s # <<o, a>> => d[s] = sold[s]
      BY <2>1, Zenon
    <2>3. /\ SumFunctionOnSet(Due(d, a), Order)
                = SumFunctionOnSet(Due(sold, a), Order) + Due(d, a)[o] - Due(sold, a)[o]
          /\ SumFunctionOnSet(Stands(d, a), Order)
                = SumFunctionOnSet(Stands(sold, a), Order)
                      + Stands(d, a)[o] - Stands(sold, a)[o]
          /\ \A b \in Earners \ {a} :
                Due(d, b) = Due(sold, b) /\ Stands(d, b) = Stands(sold, b)
      <3>1. PICK c0 : c0 = sold
        OBVIOUS
      <3>2. c0 \in [Sales -> Money!Conversion \cup {NULL}]
        BY <1>1, <3>1
      <3>3. \A s \in Sales : s # <<o, a>> => d[s] = c0[s]
        BY <2>2, <3>1
      <3>4. /\ SumFunctionOnSet(Due(d, a), Order)
                = SumFunctionOnSet(Due(c0, a), Order) + Due(d, a)[o] - Due(c0, a)[o]
          /\ SumFunctionOnSet(Stands(d, a), Order)
                = SumFunctionOnSet(Stands(c0, a), Order)
                      + Stands(d, a)[o] - Stands(c0, a)[o]
          /\ \A b \in Earners \ {a} :
                Due(d, b) = Due(c0, b) /\ Stands(d, b) = Stands(c0, b)
        BY ONLY o \in Order, a \in Earners, <2>2, <3>2, <3>3, OneSaleChanges, Zenon
      <3>5. QED BY <3>1, <3>4, Zenon
    <2>4. QED
      BY <2>1, <2>3, Zenon
  <1>6. /\ Due(sold', a)[o] = DueOf(c) /\ Due(sold, a)[o] = DueOf(sold[o, a])
        /\ Stands(sold', a)[o] = StandsOf(c)
        /\ Stands(sold, a)[o] = StandsOf(sold[o, a])
    <2>1. c # NULL
      BY MoneyParameters
    <2>2. Due(sold', a)[o] = DueOf(c) /\ Stands(sold', a)[o] = StandsOf(c)
      BY <2>1 DEF Due, Stands, DueOf, StandsOf
    <2>3. QED
      BY <2>2, Zenon DEF Due, Stands, DueOf, StandsOf
  <1>8. Balanced(sold', owed', payouts', a)
    <2> DEFINE d == SumFunctionOnSet(Due(sold, a), Order)
               e == SumFunctionOnSet(Stands(sold, a), Order)
               dn == SumFunctionOnSet(Due(sold', a), Order)
               en == SumFunctionOnSet(Stands(sold', a), Order)
               x == DueOf(c)
               y == DueOf(sold[o, a])
               u == StandsOf(c)
               w == StandsOf(sold[o, a])
    <2>1. d \in Nat /\ e \in Nat /\ dn \in Nat /\ en \in Nat
      BY <1>1, DueType, Zenon
    <2>2. dn = d + x - y /\ en = e + u - w /\ x - y = back + u - w
      BY <1>5, <1>6
    <2>3. x \in Nat /\ y \in Nat /\ u \in Nat /\ w \in Nat
      <3>1. sold[o, a] \in Money!Conversion
        BY <1>1, <1>2
      <3>2. QED
        BY <3>1 DEF DueOf, StandsOf, Money!Conversion
    <2>4. payouts[a].gross + d = owed[a] + e /\ payouts[a].gross \in Nat /\ owed[a] \in Nat
      BY <1>1 DEF Balanced
    <2>5. payouts[a].gross + dn = owed'[a] + en
      <3> DEFINE g == payouts[a].gross
                 ow == owed[a]
                 on == owed'[a]
      <3>1. on = ow + back /\ g + d = ow + e /\ g \in Nat /\ ow \in Nat
        BY <2>4
      <3> HIDE DEF d, e, dn, en, x, y, u, w, g, ow, on
      <3>2. g + dn = on + en
        BY ONLY <2>1, <2>2, <2>3, <3>1, back \in Nat
      <3>3. QED
        BY <3>2 DEF g, on
    <2>6. QED
      BY <1>1, <2>5 DEF Balanced
  <1>9. ASSUME NEW b \in Earners \ {a} PROVE Balanced(sold', owed', payouts', b)
    <2>1. Due(sold', b) = Due(sold, b) /\ Stands(sold', b) = Stands(sold, b)
          /\ owed'[b] = owed[b]
      BY <1>5
    <2>2. Balanced(sold, owed, payouts, b)
      BY <1>1
    <2>3. QED
      BY <2>1, <2>2 DEF Balanced
  <1>10. ASSUME NEW s \in Sales, sold'[s] # NULL
         PROVE  value'[s[1]] # 0 /\ Agrees(sold'[s]) /\ Fair(sold'[s])
    <2>1. CASE s = <<o, a>>
      <3>1. value[s[1]] # 0
        BY <1>2, <2>1, EverySale
      <3>2. QED
        BY <2>1, <3>1
    <2>2. CASE s # <<o, a>>
      <3>1. sold'[s] = sold[s]
        BY <2>2
      <3>2. value[s[1]] # 0 /\ Agrees(sold[s]) /\ Fair(sold[s])
        BY <1>10, <3>1, EverySale
      <3>3. QED
        BY <3>1, <3>2
    <2>3. QED
      BY <2>1, <2>2
  <1>11. QED
    BY <1>4, <1>8, <1>9, <1>10, MoneyInvNext

LEMMA MoneyApprove ==
    ASSUME Money!MoneyInv, NEW o \in Order, NEW a \in Earners, Money!Approve(o, a)
    PROVE  Money!MoneyInv'
  <1> DEFINE c == sold[o, a]
             d == [[c EXCEPT !.status = "APPROVED"] EXCEPT !.commission = "APPROVED"]
  <1>1. <<o, a>> \in Sales /\ c # NULL /\ c.status = "PENDING"
    BY DEF Sales, Money!Approve
  <1>2. c \in Money!Conversion /\ Agrees(c) /\ Fair(c)
    BY <1>1, EverySale
  <1>3. /\ d \in Money!Conversion /\ d.status = "APPROVED" /\ d.commission = "APPROVED"
        /\ d.amount = c.amount /\ d.commissionAmount = c.commissionAmount
        /\ d.sold = c.sold /\ d.earned = c.earned /\ d.value = c.value
        /\ d.refunds = c.refunds
    BY <1>2 DEF Money!Conversion
  <1>4. sold \in [Sales -> Money!Conversion \cup {NULL}] /\ owed \in [Earners -> Nat]
    BY MoneyFacts
  <1>5. /\ sold' = [sold EXCEPT ![<<o, a>>] = d]
        /\ terms' = terms /\ deal' = deal /\ value' = value /\ payouts' = payouts
        /\ owed' = owed
    BY <1>1, <1>4 DEF Money!Approve
  <1>6. c.commission = "LOCKED" /\ c.amount = c.commissionAmount
    BY <1>1, <1>2 DEF Agrees
  <1>7. Agrees(d) /\ Fair(d)
    BY <1>2, <1>3, <1>6 DEF Agrees, Fair
  <1>8. DueOf(d) - DueOf(c) = 0 + StandsOf(d) - StandsOf(c)
    <2> HIDE DEF c, d
    <2>1. c.amount \in Nat
      BY <1>2 DEF Money!Conversion
    <2>2. QED
      BY <1>1, <1>3, <1>6, <2>1 DEF DueOf, StandsOf
  <1>9. /\ sold' \in [Sales -> Money!Conversion \cup {NULL}] /\ sold'[o, a] = d
        /\ \A s \in Sales : s # <<o, a>> => sold'[s] = sold[s]
    <2> HIDE DEF d
    <2>1. QED
      BY <1>1, <1>3, <1>4, <1>5
  <1>10. /\ owed' \in [Earners -> Nat] /\ owed'[a] = owed[a] + 0
         /\ \A b \in Earners \ {a} : owed'[b] = owed[b]
    BY <1>4, <1>5
  <1> HIDE DEF d
  <1>11. QED
    BY <1>1, <1>3, <1>5, <1>7, <1>8, <1>9, <1>10, 0 \in Nat, MoneySaleMoves

\* A row takes one more part: the bound is on all of them.
LEMMA OneMoreRefund ==
    ASSUME Money!TypeOK, NEW s \in Sales, sold[s] # NULL,
           Money!RefundsOf(DOMAIN sold) < MaxRefunds
    PROVE  sold[s].refunds + 1 \in 0..MaxRefunds
  <1> DEFINE f == [r \in Sales |-> IF sold[r] = NULL THEN 0 ELSE sold[r].refunds]
             left == SumFunctionOnSet(f, Sales \ {s})
  <1>1. sold \in [Sales -> Money!Conversion \cup {NULL}]
    BY DEF Money!TypeOK, Sales, Earners
  <1>2. \A r \in Sales : f[r] \in Nat
    BY <1>1, MoneyParameters DEF Money!Conversion
  <1>3. IsFiniteSet(Sales)
    <2>1. IsFiniteSet(Earners)
      <3>1. IsFiniteSet({alice})
        BY FS_Singleton, Zenon
      <3>2. Earners = {alice} \cup {bob}
        BY DEF Earners
      <3>3. QED
        BY <3>1, <3>2, FS_AddElement, Zenon
    <2>2. QED
      BY <2>1, MoneyParameters, FS_Product, Zenon DEF Sales
  <1>4. Money!RefundsOf(DOMAIN sold) = SumFunctionOnSet(f, Sales)
    <2>1. DOMAIN sold = Sales
      BY <1>1
    <2>2. QED
      BY <2>1, MoneySum, Zenon DEF Money!RefundsOf
  <1>5. left \in Nat
    <2>1. IsFiniteSet(Sales \ {s}) /\ \A r \in Sales \ {s} : f[r] \in Nat
      BY <1>2, <1>3, FS_Subset
    <2>2. QED
      BY <2>1, SumType, Zenon
  <1>6. SumFunctionOnSet(f, Sales) = f[s] + left
    <2> HIDE DEF f
    <2>1. QED
      BY <1>2, <1>3, SumAdd
  <1>7. f[s] = sold[s].refunds /\ f[s] \in Nat
    BY <1>2
  <1> HIDE DEF f, left
  <1>8. f[s] + left < MaxRefunds
    BY <1>4, <1>6
  <1>9. QED
    BY <1>5, <1>7, <1>8, MoneyParameters

\* The row that a part leaves, and what it takes back of a paid one.
Refunded(c, part, kept) ==
    [(IF part = c.value
      THEN [c EXCEPT !.status = "REJECTED"]
      ELSE [c EXCEPT !.value = @ - part, !.commissionAmount = kept])
     EXCEPT !.amount = IF c.commission = "PAID" \/ part = c.value
                       THEN @ ELSE kept,
            !.commission = IF @ # "PAID" /\ part = c.value
                           THEN "CLAWED_BACK" ELSE @,
            !.refunds = @ + 1]

LEMMA RefundedRow ==
    ASSUME NEW c \in Money!Conversion, c.status = "APPROVED", Agrees(c), Fair(c),
           NEW part \in Nat \ {0}, part <= c.value,
           c.refunds + 1 \in 0..MaxRefunds, NEW kept \in Money!KeptOf(c, part)
    PROVE  LET d == Refunded(c, part, kept)
               back == IF c.commission = "PAID" THEN c.commissionAmount - kept ELSE 0
           IN
           /\ d \in Money!Conversion /\ back \in Nat
           /\ Agrees(d) /\ Fair(d)
           /\ DueOf(d) - DueOf(c) = back + StandsOf(d) - StandsOf(c)
  <1> DEFINE d == Refunded(c, part, kept)
             back == IF c.commission = "PAID" THEN c.commissionAmount - kept ELSE 0
  <1>1. /\ c.value \in Nat /\ c.commissionAmount \in Nat /\ c.amount \in Nat
        /\ c.sold \in Nat /\ c.earned \in Nat /\ c.refunds \in Nat
        /\ c.commission \in {"APPROVED", "PAID"}
        /\ c.commission = "APPROVED" => c.amount = c.commissionAmount
        /\ c.value - part \in Nat /\ c.value - part <= c.value /\ c.value \in Nat \ {0}
    BY DEF Money!Conversion, Agrees
  <1>2. /\ kept \in Nat /\ kept <= c.commissionAmount
        /\ part = c.value => kept = 0
        /\ 2 * kept * c.value <= 2 * (c.commissionAmount * (c.value - part)) + c.value
        /\ 2 * (c.commissionAmount * (c.value - part)) <= 2 * kept * c.value + c.value
    BY KeptWithin
  <1>3. back \in Nat
    BY <1>1, <1>2
  <1>4. CASE part = c.value
    <2>1. d = [[[[c EXCEPT !.status = "REJECTED"] EXCEPT !.amount = @]
                    EXCEPT !.commission = IF @ # "PAID" THEN "CLAWED_BACK" ELSE @]
                    EXCEPT !.refunds = @ + 1]
      BY <1>4, Zenon DEF Refunded
    <2>2. /\ d \in Money!Conversion /\ d.status = "REJECTED"
          /\ d.amount = c.amount /\ d.commissionAmount = c.commissionAmount
          /\ d.sold = c.sold /\ d.earned = c.earned /\ d.value = c.value
          /\ d.refunds = c.refunds + 1
          /\ d.commission = IF c.commission # "PAID" THEN "CLAWED_BACK" ELSE "PAID"
      <3> HIDE DEF d
      <3>1. QED
        BY <2>1 DEF Money!Conversion
    <2> HIDE DEF d
    <2>3. Agrees(d)
      BY <1>1, <2>2 DEF Agrees
    <2>4. Fair(d)
      <3>1. (c.refunds + 1) * c.sold = c.refunds * c.sold + c.sold
        BY <1>1, OneMore, Zenon
      <3> DEFINE x == 2 * c.commissionAmount * c.sold
                 y == 2 * c.earned * c.value
                 z == c.refunds * c.sold
                 zn == (c.refunds + 1) * c.sold
      <3>2. x \in Nat /\ y \in Nat /\ z \in Nat /\ x <= y + z /\ y <= x + z
        BY <1>1, Product DEF Fair
      <3>3. x <= y + zn /\ y <= x + zn
        <4>1. zn = z + c.sold
          BY <3>1
        <4> HIDE DEF x, y, z, zn
        <4>2. QED
          BY <1>1, <3>2, <4>1
      <3>4. QED
        BY <2>2, <3>3 DEF Fair
    <2>5. DueOf(d) - DueOf(c) = back + StandsOf(d) - StandsOf(c)
      <3> DEFINE m == c.commissionAmount
      <3>1. /\ DueOf(d) = 0 /\ StandsOf(d) = 0 /\ StandsOf(c) = m
            /\ DueOf(c) = IF c.commission = "PAID" THEN 0 ELSE m
            /\ back = IF c.commission = "PAID" THEN m - 0 ELSE 0
        BY <1>1, <1>2, <1>4, <2>2, Zenon DEF DueOf, StandsOf
      <3>2. m \in Nat
        BY <1>1
      <3> HIDE DEF m, back
      <3>3. QED
        BY ONLY <3>1, <3>2
    <2>6. QED
      BY <1>3, <2>2, <2>3, <2>4, <2>5 DEF d
  <1>5. CASE part # c.value
    <2> DEFINE z == c.value - part
               x == [c EXCEPT !.value = z, !.commissionAmount = kept]
               y == [x EXCEPT !.amount = IF c.commission = "PAID" THEN @ ELSE kept]
    <2>1. d = [[y EXCEPT !.commission = @] EXCEPT !.refunds = @ + 1]
      BY <1>5, Zenon DEF Refunded
    <2>7. /\ x \in Money!Conversion /\ x.status = c.status
          /\ x.amount = c.amount /\ x.commissionAmount = kept
          /\ x.sold = c.sold /\ x.earned = c.earned /\ x.value = z
          /\ x.refunds = c.refunds /\ x.commission = c.commission
      <3> HIDE DEF z
      <3>1. z \in Nat
        BY <1>1 DEF z
      <3>2. QED
        BY <1>2, <3>1 DEF Money!Conversion
    <2>8. /\ y \in Money!Conversion /\ y.status = c.status
          /\ y.amount = IF c.commission = "PAID" THEN c.amount ELSE kept
          /\ y.commissionAmount = kept
          /\ y.sold = c.sold /\ y.earned = c.earned /\ y.value = c.value - part
          /\ y.refunds = c.refunds /\ y.commission = c.commission
      <3> HIDE DEF x
      <3>1. QED
        BY <1>1, <1>2, <2>7 DEF Money!Conversion
    <2>2. /\ d \in Money!Conversion /\ d.status = c.status
          /\ d.amount = IF c.commission = "PAID" THEN c.amount ELSE kept
          /\ d.commissionAmount = kept
          /\ d.sold = c.sold /\ d.earned = c.earned /\ d.value = c.value - part
          /\ d.refunds = c.refunds + 1
          /\ d.commission = c.commission
      <3> HIDE DEF d, y
      <3>1. QED
        BY <1>1, <1>2, <2>1, <2>8 DEF Money!Conversion
    <2> HIDE DEF d
    <2>3. Agrees(d)
      BY <1>1, <2>2 DEF Agrees
    <2>4. Fair(d)
      <3>1. /\ 2 * c.commissionAmount * c.sold
                  <= 2 * c.earned * c.value + c.refunds * c.sold
            /\ 2 * c.earned * c.value
                  <= 2 * c.commissionAmount * c.sold + c.refunds * c.sold
        BY DEF Fair
      <3> DEFINE m == c.commissionAmount
                 v == c.value
                 w == c.value - part
                 S == c.sold
                 E == c.earned
                 n == c.refunds
      <3>2. /\ m \in Nat /\ v \in Nat \ {0} /\ w \in Nat /\ w <= v /\ S \in Nat
            /\ E \in Nat /\ n \in Nat /\ kept \in Nat
            /\ 2 * kept * v <= 2 * (m * w) + v /\ 2 * (m * w) <= 2 * kept * v + v
            /\ 2 * m * S <= 2 * E * v + n * S /\ 2 * E * v <= 2 * m * S + n * S
        BY <1>1, <1>2, <3>1
      <3>3. /\ 2 * kept * c.sold
                  <= 2 * c.earned * (c.value - part) + (c.refunds + 1) * c.sold
            /\ 2 * c.earned * (c.value - part)
                  <= 2 * kept * c.sold + (c.refunds + 1) * c.sold
        <4> HIDE DEF m, v, w, S, E, n
        <4>1. /\ 2 * kept * S <= 2 * E * w + (n + 1) * S
              /\ 2 * E * w <= 2 * kept * S + (n + 1) * S
          BY ONLY <3>2, OneRounding, Zenon
        <4>2. QED
          BY <4>1 DEF w, S, E, n
      <3>4. QED
        BY <2>2, <3>3 DEF Fair
    <2>5. DueOf(d) - DueOf(c) = back + StandsOf(d) - StandsOf(c)
      BY <1>1, <1>2, <1>5, <2>2 DEF DueOf, StandsOf
    <2>6. QED
      BY <1>3, <2>2, <2>3, <2>4, <2>5 DEF d
  <1>6. QED
    BY <1>4, <1>5

LEMMA MoneyReverse ==
    ASSUME Money!MoneyInv, NEW o \in Order, NEW a \in Earners, NEW part,
           part \in Refunds \/ part = sold[o, a].value,
           Money!Reverse(o, a, part)
    PROVE  Money!MoneyInv'
  <1> DEFINE c == sold[o, a]
  <1>1. /\ <<o, a>> \in Sales /\ c # NULL /\ c.status = "APPROVED"
        /\ Money!RefundsOf(DOMAIN sold) < MaxRefunds
        /\ 0 < part /\ part <= c.value
        /\ terms' = terms /\ deal' = deal /\ value' = value /\ payouts' = payouts
    BY DEF Sales, Money!Reverse
  <1>2. c \in Money!Conversion /\ Agrees(c) /\ Fair(c)
    BY <1>1, EverySale
  <1>3. part \in Nat \ {0}
    <2>1. c.value \in Nat
      BY <1>2 DEF Money!Conversion
    <2>2. QED
      <3>1. CASE part \in Refunds
        BY <3>1, MoneyParameters
      <3>2. CASE part = c.value
        <4> HIDE DEF c
        <4>1. QED
          BY ONLY <1>1, <2>1, <3>2
      <3>3. QED
        BY <3>1, <3>2
  <1>4. PICK outcome \in Money!calculateRefund(c, part) :
            /\ sold' = [sold EXCEPT ![<<o, a>>] = Refunded(c, part, outcome.kept)]
            /\ owed' = IF c.commission = "PAID"
                       THEN [owed EXCEPT ![a] = @ + outcome.clawback]
                       ELSE owed
    BY Zenon DEF Money!Reverse, Refunded
  <1>5. PICK kept \in Money!KeptOf(c, part) :
            outcome = [kept |-> kept, clawback |-> c.commissionAmount - kept]
    BY <1>4, Zenon DEF Money!calculateRefund
  <1> DEFINE d == Refunded(c, part, kept)
             back == IF c.commission = "PAID" THEN c.commissionAmount - kept ELSE 0
  <1>6. sold \in [Sales -> Money!Conversion \cup {NULL}] /\ owed \in [Earners -> Nat]
        /\ Money!TypeOK
    BY MoneyFacts
  <1>7. c.refunds + 1 \in 0..MaxRefunds
    BY <1>1, <1>6, OneMoreRefund
  <1>8. /\ d \in Money!Conversion /\ back \in Nat
        /\ Agrees(d) /\ Fair(d)
        /\ DueOf(d) - DueOf(c) = back + StandsOf(d) - StandsOf(c)
    <2> HIDE DEF c
    <2>1. QED
      BY <1>1, <1>2, <1>3, <1>5, <1>7, RefundedRow
  <1>9. outcome.kept = kept /\ outcome.clawback = c.commissionAmount - kept
    BY <1>5
  <1>10. sold' = [sold EXCEPT ![<<o, a>>] = d]
    BY <1>4, <1>9, Zenon
  <1>11. /\ sold' \in [Sales -> Money!Conversion \cup {NULL}] /\ sold'[o, a] = d
         /\ \A s \in Sales : s # <<o, a>> => sold'[s] = sold[s]
    <2> HIDE DEF d
    <2>1. QED
      BY <1>1, <1>6, <1>8, <1>10
  <1>12. /\ owed' \in [Earners -> Nat] /\ owed'[a] = owed[a] + back
         /\ \A b \in Earners \ {a} : owed'[b] = owed[b]
    <2> HIDE DEF c
    <2>1. CASE c.commission = "PAID"
      <3>1. owed' = [owed EXCEPT ![a] = @ + back]
        BY <1>4, <1>9, <2>1
      <3> HIDE DEF back
      <3>2. QED
        BY ONLY <1>6, <1>8, <3>1, a \in Earners
    <2>2. CASE c.commission # "PAID"
      <3>1. owed' = owed /\ back = 0
        BY <1>4, <2>2, Zenon
      <3> HIDE DEF back
      <3>2. QED
        BY ONLY <1>6, <3>1, a \in Earners
    <2>3. QED
      BY <2>1, <2>2
  <1> HIDE DEF d, back
  <1>13. QED
    BY <1>1, <1>8, <1>11, <1>12, MoneySaleMoves

\* A payout's items: what the row of each becomes.
LEMMA PaidRow ==
    ASSUME NEW c \in Money!Conversion, c.commission = "APPROVED", Agrees(c), Fair(c)
    PROVE  LET d == [c EXCEPT !.commission = "PAID"] IN
           /\ d \in Money!Conversion /\ Agrees(d) /\ Fair(d)
           /\ d.commission = "PAID" /\ d.status = c.status
           /\ d.commissionAmount = c.commissionAmount
  <1> DEFINE d == [c EXCEPT !.commission = "PAID"]
  <1>1. /\ d \in Money!Conversion /\ d.status = c.status
        /\ d.amount = c.amount /\ d.commissionAmount = c.commissionAmount
        /\ d.sold = c.sold /\ d.earned = c.earned /\ d.value = c.value
        /\ d.refunds = c.refunds /\ d.commission = "PAID"
    BY DEF Money!Conversion
  <1> HIDE DEF d
  <1>2. Agrees(d) /\ Fair(d)
    BY <1>1 DEF Agrees, Fair
  <1>3. QED
    BY <1>1, <1>2 DEF d

\* The fee is not more than what it is taken from.
LEMMA FeeWithin ==
    ASSUME NEW gross \in Nat, NEW b \in Money!calculatePayoutBreakdown(gross)
    PROVE  /\ b.gross = gross /\ b.fee \in Nat /\ b.net \in Nat
           /\ b.fee + b.net = gross
  <1>1. PICK fee \in Money!Cents(gross * FeePercent, 100) :
            b = [gross |-> gross, fee |-> fee, net |-> gross - fee]
    BY DEF Money!calculatePayoutBreakdown
  <1>2. FeePercent \in Nat /\ FeePercent <= 100
    BY MoneyParameters
  <1>3. gross * FeePercent \in Nat /\ gross * FeePercent <= gross * 100
    <2>1. FeePercent * gross <= 100 * gross
      BY <1>2, ProductGrows
    <2>2. QED
      BY <1>2, <2>1, Product
  <1>4. fee \in Nat /\ fee <= gross
    <2>1. fee \in Nat
      BY <1>3, CentsOf
    <2>2. fee <= gross
      BY <1>3, CentsWithin
    <2>3. QED
      BY <2>1, <2>2
  <1>5. QED
    BY <1>1, <1>4

LEMMA MoneyPayOut ==
    ASSUME Money!MoneyInv, NEW a \in Earners, Money!PayOut(a)
    PROVE  Money!MoneyInv'
  <1> DEFINE items == Money!Payable(a)
             due == SumFunctionOnSet(Due(sold, a), Order)
             stands == SumFunctionOnSet(Stands(sold, a), Order)
  <1>1. /\ Money!TypeOK /\ sold \in [Sales -> Money!Conversion \cup {NULL}]
        /\ \A b \in Earners : Balanced(sold, owed, payouts, b)
        /\ \A b \in Earners : /\ owed[b] \in Nat
                              /\ payouts[b] \in [gross : Nat, fee : Nat, net : Nat]
        /\ owed \in [Earners -> Nat]
    BY MoneyFacts
  <1>2. Money!TotalOf(items, a) = due /\ due \in Nat /\ stands \in Nat
    BY <1>1, BooksAreBalanced, DueType, Zenon
  <1>3. /\ due >= owed[a] + MinPayout
        /\ owed' = [owed EXCEPT ![a] = 0]
        /\ sold' = [s \in DOMAIN sold |->
              IF s[2] = a /\ s[1] \in items
              THEN [sold[s] EXCEPT !.commission = "PAID"]
              ELSE sold[s]]
        /\ terms' = terms /\ deal' = deal /\ value' = value
    BY <1>2 DEF Money!PayOut
  <1>4. PICK b \in Money!calculatePayoutBreakdown(due - owed[a]) :
            payouts' = [payouts EXCEPT ![a] =
                [gross |-> @.gross + b.gross, fee |-> @.fee + b.fee,
                 net |-> @.net + b.net]]
    BY <1>2, Zenon DEF Money!PayOut
  <1>5. due - owed[a] \in Nat
    BY <1>1, <1>2, <1>3, MoneyParameters
  <1>6. /\ b.gross = due - owed[a] /\ b.fee \in Nat /\ b.net \in Nat
        /\ b.fee + b.net = due - owed[a]
    BY <1>4, <1>5, FeeWithin
  <1>7. ASSUME NEW s \in Sales
        PROVE  /\ sold'[s] \in Money!Conversion \cup {NULL}
               /\ sold'[s] # NULL => Agrees(sold'[s]) /\ Fair(sold'[s])
               /\ sold'[s] # NULL <=> sold[s] # NULL
               /\ sold[s] # NULL =>
                     /\ sold'[s].status = sold[s].status
                     /\ sold'[s].commissionAmount = sold[s].commissionAmount
               /\ s[2] = a /\ sold[s] # NULL => sold'[s].commission # "APPROVED"
               /\ s[2] # a => sold'[s] = sold[s]
    <2>1. s[1] \in Order /\ s = <<s[1], s[2]>>
      BY DEF Sales
    <2>2. sold[s] \in Money!Conversion \cup {NULL}
      BY <1>1
    <2>3. sold[s] # NULL => Agrees(sold[s]) /\ Fair(sold[s])
      BY EverySale
    <2>4. CASE s[2] = a /\ s[1] \in items
      <3>1. sold[s] # NULL /\ sold[s].commission = "APPROVED"
        BY <2>1, <2>4 DEF Money!Payable
      <3>2. sold'[s] = [sold[s] EXCEPT !.commission = "PAID"]
        BY <1>1, <1>3, <2>4
      <3>3. sold[s] \in Money!Conversion
        BY <2>2, <3>1
      <3>4. /\ sold'[s] \in Money!Conversion
            /\ Agrees(sold'[s]) /\ Fair(sold'[s])
            /\ sold'[s].commission = "PAID" /\ sold'[s].status = sold[s].status
            /\ sold'[s].commissionAmount = sold[s].commissionAmount
        BY <2>3, <3>1, <3>2, <3>3, PaidRow
      <3>5. QED
        BY <2>4, <3>1, <3>4, MoneyParameters
    <2>5. CASE ~(s[2] = a /\ s[1] \in items)
      <3>1. sold'[s] = sold[s]
        BY <1>1, <1>3, <2>5
      <3>2. s[2] = a /\ sold[s] # NULL => sold[s].commission # "APPROVED"
        BY <2>1, <2>5 DEF Money!Payable
      <3>3. QED
        BY <2>2, <2>3, <3>1, <3>2
    <2>6. QED
      BY <2>4, <2>5
  <1>8. sold' \in [Sales -> Money!Conversion \cup {NULL}]
    <2>1. sold' = [s \in Sales |-> sold'[s]]
      BY <1>1, <1>3
    <2>2. QED
      BY <1>7, <2>1
  <1>9. /\ payouts' \in [Earners -> [gross : Nat, fee : Nat, net : Nat]]
        /\ payouts'[a].gross = payouts[a].gross + (due - owed[a])
        /\ payouts'[a].fee + payouts'[a].net = payouts'[a].gross
        /\ \A c \in Earners \ {a} : payouts'[c] = payouts[c]
    <2> DEFINE p == [gross |-> payouts[a].gross + b.gross,
                     fee |-> payouts[a].fee + b.fee, net |-> payouts[a].net + b.net]
    <2>1. payouts \in [Earners -> [gross : Nat, fee : Nat, net : Nat]]
      BY <1>1 DEF Money!TypeOK, Earners
    <2>2. /\ payouts[a].gross \in Nat /\ payouts[a].fee \in Nat /\ payouts[a].net \in Nat
          /\ payouts[a].fee + payouts[a].net = payouts[a].gross
      BY <1>1 DEF Balanced
    <2>3. /\ p \in [gross : Nat, fee : Nat, net : Nat]
          /\ p.gross = payouts[a].gross + (due - owed[a])
          /\ p.fee + p.net = p.gross
      BY <1>5, <1>6, <2>2
    <2>4. payouts' = [payouts EXCEPT ![a] = p]
      BY <1>4
    <2> HIDE DEF p
    <2>5. QED
      BY <2>1, <2>3, <2>4
  <1>10. owed' \in [Earners -> Nat] /\ owed'[a] = 0
         /\ \A c \in Earners \ {a} : owed'[c] = owed[c]
    BY <1>1, <1>3
  <1>11. Money!TypeOK'
    BY <1>1, <1>3, <1>8, <1>9, <1>10 DEF Money!TypeOK, Earners, Sales
  <1>12. ASSUME NEW c \in Earners PROVE Stands(sold', c) = Stands(sold, c)
    <2>1. ASSUME NEW o \in Order
          PROVE  /\ sold'[o, c] # NULL <=> sold[o, c] # NULL
                 /\ sold[o, c] # NULL =>
                       /\ sold'[o, c].status = sold[o, c].status
                       /\ sold'[o, c].commissionAmount = sold[o, c].commissionAmount
      <3>1. <<o, c>> \in Sales
        BY DEF Sales
      <3>2. QED
        BY <1>7, <3>1
    <2>2. QED
      BY <2>1, Zenon DEF Stands
  <1>13. SumFunctionOnSet(Due(sold', a), Order) = 0
    <2>1. ASSUME NEW o \in Order PROVE Due(sold', a)[o] = 0
      <3>1. <<o, a>> \in Sales /\ <<o, a>>[2] = a
        BY DEF Sales
      <3>2. sold'[o, a] # NULL => sold'[o, a].commission # "APPROVED"
        BY <1>7, <3>1
      <3>3. QED
        BY <3>2, Zenon DEF Due
    <2>2. QED
      BY <2>1, SumZero, MoneyParameters, Zenon
  <1>14. Balanced(sold', owed', payouts', a)
    <2>1. payouts[a].gross + due = owed[a] + stands
      BY <1>1 DEF Balanced
    <2>2. payouts[a].gross \in Nat /\ owed[a] \in Nat
      BY <1>1
    <2>3. payouts'[a].gross + 0 = 0 + stands
      <3> DEFINE g == payouts[a].gross
                 w == owed[a]
                 h == payouts'[a].gross
      <3>1. h = g + (due - w) /\ g + due = w + stands /\ g \in Nat /\ w \in Nat
        BY <1>9, <2>1, <2>2
      <3> HIDE DEF g, w, h, due, stands
      <3>2. h + 0 = 0 + stands
        BY ONLY <1>2, <3>1
      <3>3. QED
        BY <3>2 DEF h
    <2>4. SumFunctionOnSet(Stands(sold', a), Order) = stands
      BY <1>12, Zenon
    <2>5. QED
      BY <1>9, <1>10, <1>13, <2>3, <2>4, Zenon DEF Balanced
  <1>15. ASSUME NEW c \in Earners \ {a} PROVE Balanced(sold', owed', payouts', c)
    <2>1. ASSUME NEW o \in Order PROVE sold'[o, c] = sold[o, c]
      <3>1. <<o, c>> \in Sales /\ <<o, c>>[2] # a
        BY DEF Sales
      <3>2. QED
        BY <1>7, <3>1
    <2>2. Due(sold', c) = Due(sold, c)
      BY <2>1, Zenon DEF Due
    <2>3. Stands(sold', c) = Stands(sold, c)
      BY <1>12
    <2>4. owed'[c] = owed[c] /\ payouts'[c] = payouts[c]
      BY <1>9, <1>10
    <2>5. QED
      BY <1>1, <2>2, <2>3, <2>4 DEF Balanced
  <1>16. ASSUME NEW s \in Sales, sold'[s] # NULL
         PROVE  value'[s[1]] # 0 /\ Agrees(sold'[s]) /\ Fair(sold'[s])
    <2>1. sold[s] # NULL
      BY <1>7, <1>16
    <2>2. value[s[1]] # 0
      BY <2>1, EverySale
    <2>3. QED
      BY <1>3, <1>7, <1>16, <2>2
  <1>17. QED
    BY <1>11, <1>14, <1>15, <1>16, MoneyInvNext

NewSale(share, earned) ==
    [value |-> share, commissionAmount |-> earned, amount |-> earned,
     status |-> "PENDING", commission |-> "LOCKED", sold |-> share,
     earned |-> earned, refunds |-> 0]

LEMMA NewRow ==
    ASSUME NEW share \in Nat, NEW earned \in Nat
    PROVE  LET d == NewSale(share, earned) IN
           /\ d \in Money!Conversion /\ Agrees(d) /\ Fair(d)
           /\ DueOf(d) = 0 /\ StandsOf(d) = 0
  <1> DEFINE d == NewSale(share, earned)
  <1>1. /\ d \in Money!Conversion /\ d.status = "PENDING" /\ d.commission = "LOCKED"
        /\ d.value = share /\ d.sold = share /\ d.amount = earned
        /\ d.commissionAmount = earned /\ d.earned = earned /\ d.refunds = 0
    BY MoneyParameters DEF NewSale, Money!Conversion
  <1> HIDE DEF d
  <1>2. Agrees(d) /\ DueOf(d) = 0 /\ StandsOf(d) = 0
    BY <1>1 DEF Agrees, DueOf, StandsOf
  <1>3. Fair(d)
    <2>1. 2 * earned * share \in Nat /\ 0 * share = 0
      BY Product
    <2>2. QED
      BY <1>1, <2>1 DEF Fair
  <1>4. QED
    BY <1>1, <1>2, <1>3 DEF d

LEMMA MoneyReport ==
    ASSUME Money!MoneyInv, NEW o \in Order, NEW v \in Values,
           NEW earners \in SUBSET Earners, Money!Report(o, v, earners)
    PROVE  Money!MoneyInv'
  <1> DEFINE n == Money!Cardinality(earners)
  <1>1. /\ Money!TypeOK /\ sold \in [Sales -> Money!Conversion \cup {NULL}]
        /\ \A b \in Earners : Balanced(sold, owed, payouts, b)
        /\ \A b \in Earners : /\ owed[b] \in Nat
                              /\ payouts[b] \in [gross : Nat, fee : Nat, net : Nat]
        /\ owed \in [Earners -> Nat]
    BY MoneyFacts
  <1>2. n = Cardinality(earners)
    BY DEF Money!Cardinality, Cardinality
  <1>3. /\ value[o] = 0 /\ earners # {} /\ value' = [value EXCEPT ![o] = v]
        /\ terms' = terms /\ deal' = deal /\ owed' = owed /\ payouts' = payouts
    BY DEF Money!Report
  <1>4. PICK share \in [earners -> Money!Cents(v, n)],
             earned \in [earners ->
                 UNION {Money!calculateCommission(Money!TermsOf(a), v, n,
                                                  Money!PriorCount(a)) :
                        a \in earners}] :
            /\ \A a \in earners : earned[a] \in
                  Money!calculateCommission(Money!TermsOf(a), v, n, Money!PriorCount(a))
            /\ sold' = [s \in DOMAIN sold |->
                  IF s[1] = o /\ s[2] \in earners
                  THEN NewSale(share[s[2]], earned[s[2]])
                  ELSE sold[s]]
    BY Zenon DEF Money!Report, NewSale
  <1>5. n \in Nat \ {0} /\ v \in Nat \ {0}
    <2>1. IsFiniteSet(earners)
      <3>1. IsFiniteSet(Earners)
        <4>1. IsFiniteSet({alice})
          BY FS_Singleton, Zenon
        <4>2. Earners = {alice} \cup {bob}
          BY DEF Earners
        <4>3. QED
          BY <4>1, <4>2, FS_AddElement, Zenon
      <3>2. QED
        BY <3>1, FS_Subset
    <2>2. n \in Nat /\ n # 0
      BY <1>2, <1>3, <2>1, FS_CardinalityType, FS_EmptySet, Zenon
    <2>3. QED
      BY <2>2, MoneyParameters
  <1>6. ASSUME NEW a \in earners PROVE share[a] \in Nat /\ earned[a] \in Nat
    <2>1. share[a] \in Money!Cents(v, n)
      BY <1>4
    <2>2. Money!TermsOf(a) \in Terms /\ Money!PriorCount(a) \in Nat
      BY <1>1, TermsAreTerms, PriorType
    <2>3. earned[a] \in
              Money!calculateCommission(Money!TermsOf(a), v, n, Money!PriorCount(a))
      BY <1>4
    <2>4. share[a] \in Nat
      <3> HIDE DEF n
      <3>1. v \in Nat
        BY <1>5
      <3>2. QED
        BY <1>5, <2>1, <3>1, CentsOf
    <2>5. earned[a] \in Nat
      <3> HIDE DEF n
      <3>1. v \in Nat
        BY <1>5
      <3>2. QED
        BY <1>5, <2>2, <2>3, <3>1, CommissionType
    <2>6. QED
      BY <2>4, <2>5
  <1>7. ASSUME NEW s \in Sales, s[1] = o PROVE sold[s] = NULL
    BY <1>3, <1>7, EverySale
  <1>8. ASSUME NEW s \in Sales
        PROVE  /\ sold'[s] \in Money!Conversion \cup {NULL}
               /\ sold'[s] # NULL => /\ value'[s[1]] # 0
                                     /\ Agrees(sold'[s]) /\ Fair(sold'[s])
               /\ s[1] # o => sold'[s] = sold[s]
               /\ s[1] = o /\ sold'[s] # NULL => DueOf(sold'[s]) = 0 /\ StandsOf(sold'[s]) = 0
    <2>1. s[1] \in Order /\ value \in [Order -> Values \cup {0}]
      BY <1>1 DEF Sales, Money!TypeOK
    <2>2. CASE s[1] = o /\ s[2] \in earners
      <3>1. sold'[s] = NewSale(share[s[2]], earned[s[2]])
        BY <1>1, <1>4, <2>2
      <3>2. share[s[2]] \in Nat /\ earned[s[2]] \in Nat
        BY <1>6, <2>2
      <3>3. /\ sold'[s] \in Money!Conversion /\ Agrees(sold'[s]) /\ Fair(sold'[s])
            /\ DueOf(sold'[s]) = 0 /\ StandsOf(sold'[s]) = 0
        BY <3>1, <3>2, NewRow
      <3>4. value'[s[1]] # 0
        BY <1>3, <1>5, <2>1, <2>2
      <3>5. QED
        BY <2>2, <3>3, <3>4
    <2>3. CASE ~(s[1] = o /\ s[2] \in earners)
      <3>1. sold'[s] = sold[s]
        BY <1>1, <1>4, <2>3
      <3>2. sold[s] # NULL => /\ sold[s] \in Money!Conversion
                              /\ value[s[1]] # 0 /\ Agrees(sold[s]) /\ Fair(sold[s])
        BY EverySale
      <3>3. sold[s] # NULL => s[1] # o
        BY <1>7
      <3>4. s[1] # o => value'[s[1]] = value[s[1]]
        BY <1>3, <2>1
      <3>5. QED
        BY <1>1, <3>1, <3>2, <3>3, <3>4
    <2>4. QED
      BY <2>2, <2>3
  <1>9. sold' \in [Sales -> Money!Conversion \cup {NULL}]
    <2>1. sold' = [s \in Sales |-> sold'[s]]
      BY <1>1, <1>4
    <2>2. QED
      BY <1>8, <2>1
  <1>10. Money!TypeOK'
    BY <1>1, <1>3, <1>9 DEF Money!TypeOK, Earners, Sales
  <1>11. ASSUME NEW a \in Earners PROVE Balanced(sold', owed', payouts', a)
    <2>1. ASSUME NEW p \in Order
          PROVE  Due(sold', a)[p] = Due(sold, a)[p] /\ Stands(sold', a)[p] = Stands(sold, a)[p]
      <3>1. <<p, a>> \in Sales /\ <<p, a>>[1] = p
        BY DEF Sales
      <3>2. CASE p # o
        <4>1. sold'[p, a] = sold[p, a]
          BY <1>8, <3>1, <3>2
        <4>2. QED
          BY <4>1, Zenon DEF Due, Stands
      <3>3. CASE p = o
        <4>1. sold[p, a] = NULL
          BY <1>7, <3>1, <3>3
        <4>2. sold'[p, a] # NULL => DueOf(sold'[p, a]) = 0 /\ StandsOf(sold'[p, a]) = 0
          BY <1>8, <3>1, <3>3
        <4>3. Due(sold, a)[p] = 0 /\ Stands(sold, a)[p] = 0
          BY <4>1 DEF Due, Stands
        <4>4. Due(sold', a)[p] = 0 /\ Stands(sold', a)[p] = 0
          BY <4>2 DEF Due, Stands, DueOf, StandsOf
        <4>5. QED
          BY <4>3, <4>4
      <3>4. QED
        BY <3>2, <3>3
    <2>2. /\ Due(sold', a) = [p \in Order |-> Due(sold', a)[p]]
          /\ Due(sold, a) = [p \in Order |-> Due(sold, a)[p]]
          /\ Stands(sold', a) = [p \in Order |-> Stands(sold', a)[p]]
          /\ Stands(sold, a) = [p \in Order |-> Stands(sold, a)[p]]
      BY DEF Due, Stands
    <2>3. Due(sold', a) = Due(sold, a) /\ Stands(sold', a) = Stands(sold, a)
      BY <2>1, <2>2
    <2>4. Balanced(sold, owed, payouts, a)
      BY <1>1
    <2>5. QED
      BY <1>3, <2>2, <2>3, <2>4, Zenon DEF Balanced
  <1>12. QED
    BY <1>8, <1>10, <1>11, MoneyInvNext

LEMMA MoneyNext ==
    ASSUME Money!MoneyInv, Money!Next PROVE Money!MoneyInv'
  <1>1. CASE \E o \in Order, v \in Values, earners \in SUBSET Earners :
                 Money!Report(o, v, earners)
    BY <1>1, MoneyReport
  <1>2. CASE \E o \in Order, a \in Earners :
                 \/ Money!Approve(o, a)
                 \/ sold[o, a] # NULL
                    /\ \E part \in Refunds \cup {sold[o, a].value} :
                          Money!Reverse(o, a, part)
    <2>1. PICK o \in Order, a \in Earners :
                 \/ Money!Approve(o, a)
                 \/ sold[o, a] # NULL
                    /\ \E part \in Refunds \cup {sold[o, a].value} :
                          Money!Reverse(o, a, part)
      BY <1>2, Zenon
    <2>2. CASE Money!Approve(o, a)
      BY <2>2, MoneyApprove
    <2>3. CASE \E part \in Refunds \cup {sold[o, a].value} : Money!Reverse(o, a, part)
      <3>1. PICK part \in Refunds \cup {sold[o, a].value} : Money!Reverse(o, a, part)
        BY <2>3, Zenon
      <3>2. part \in Refunds \/ part = sold[o, a].value
        OBVIOUS
      <3>3. QED
        BY <3>1, <3>2, MoneyReverse
    <2>4. QED
      BY <2>1, <2>2, <2>3, Zenon
  <1>3. CASE \E a \in Earners : Money!PayOut(a)
    BY <1>3, MoneyPayOut
  <1>4. QED
    BY <1>1, <1>2, <1>3, Zenon DEF Money!Next, Earners

LEMMA MoneyAlone ==
    [MarketplaceNext]_marketVars => Money!Next \/ UNCHANGED moneyVars
  BY Zenon DEF MarketplaceNext, marketVars, peopleVars

LEMMA MoneyStep ==
    ASSUME Money!MoneyInv, [MarketplaceNext]_marketVars
    PROVE  Money!MoneyInv'
  <1>1. CASE Money!Next
    BY <1>1, MoneyNext
  <1>2. CASE UNCHANGED moneyVars
    <2>1. /\ Money!TypeOK /\ Money!RowsAgree /\ Money!BooksBalance /\ Money!KeepsItsShare
          /\ terms' = terms /\ deal' = deal /\ value' = value /\ sold' = sold
          /\ owed' = owed /\ payouts' = payouts
      BY <1>2 DEF moneyVars, Money!MoneyInv
    <2>2. Money!TypeOK' /\ Money!RowsAgree' /\ Money!KeepsItsShare'
      BY <2>1 DEF Money!TypeOK, Money!RowsAgree, Money!KeepsItsShare
    <2>3. Money!BooksBalance'
      BY <2>1, Zenon DEF Money!BooksBalance, Money!Payable, Money!Standing, Money!TotalOf
    <2>4. QED
      BY <2>2, <2>3 DEF Money!MoneyInv
  <1>3. QED
    BY <1>1, <1>2, MoneyAlone

\* The books balance to the cent, and who is refunded bit by bit keeps the share
\* of the commission that the customer kept of the order, to half a cent for each
\* refund: for any number of orders of any value, any refunds, any platform fee up
\* to a half and any minimum payout (refund-math.ts, payout-math.ts).
THEOREM MoneyIsAccountedFor == MarketplaceSpec => []MoneyAddsUp
  <1>1. MarketplaceInit => Money!MoneyInv
    BY MoneyInit DEF MarketplaceInit
  <1>2. Money!MoneyInv /\ [MarketplaceNext]_marketVars => Money!MoneyInv'
    BY MoneyStep
  <1>3. Money!MoneyInv => MoneyAddsUp
    BY Zenon DEF Money!MoneyInv, MoneyAddsUp
  <1>4. QED
    BY <1>1, <1>2, <1>3, PTL DEF MarketplaceSpec, marketVars
=============================================================================
