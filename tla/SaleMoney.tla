------------------------------ MODULE SaleMoney ------------------------------
(***************************************************************************)
(* The arithmetic of a sale, in cents: its shares, their commission, what  *)
(* refunds leave of it, and the payouts with their fee.  The states a      *)
(* commission and a payout go through, and who may change them at the same *)
(* time, are the ledger's (CommissionLedger); here every handler is one    *)
(* step, and a payout that is requested is paid.                           *)
(*                                                                         *)
(* The code computes in binary floating point and rounds to cents.  Amounts*)
(* are far from the limits of a double, so a result is the nearest cent;   *)
(* of a half cent it may be either neighbour, which the model leaves open. *)
(***************************************************************************)
EXTENDS Naturals, FiniteSets, Functions

CONSTANTS
    Order, Affiliate,
    Values,         \* what an order may be worth
    Structures,     \* the commission structures of campaigns
    Partner,        \* the relationships: a status and a custom structure or NULL
    Refunds,        \* what may be refunded at once, besides all of it
    FeePercent, MinPayout,
    MaxRefunds,     \* bound on the refunds
    NULL

Conversion == [value : Nat, commissionAmount : Nat, amount : Nat,
               status : {"PENDING", "APPROVED", "REJECTED"},
               commission : {"LOCKED", "APPROVED", "PAID", "CLAWED_BACK"},
               sold : Nat, earned : Nat, refunds : 0..MaxRefunds]

MoneyAssumption ==
    /\ IsFiniteSet(Order) /\ IsFiniteSet(Affiliate)
    /\ Values \subseteq Nat \ {0} /\ Refunds \subseteq Nat \ {0}
    /\ FeePercent \in 0..50
    /\ MinPayout \in Nat \ {0} /\ MaxRefunds \in Nat
    /\ NULL \notin Structures \cup Conversion

VARIABLES
    campaign,   \* the campaign's commission structure
    partner,    \* the brand's relationship with every affiliate
    value,      \* what an order was worth, 0 until it is reported
    conversion, \* the conversion of an order that an affiliate earns, or NULL
    owed,       \* the unsettled clawbacks of an affiliate
    payouts     \* what was paid to an affiliate: gross, fee and net, summed up

vars == <<campaign, partner, value, conversion, owed, payouts>>

TypeOK ==
    /\ campaign \in Structures
    /\ partner \in [Affiliate -> Partner]
    /\ value \in [Order -> Values \cup {0}]
    /\ conversion \in [Order \X Affiliate -> Conversion \cup {NULL}]
    /\ owed \in [Affiliate -> Nat]
    /\ payouts \in [Affiliate -> [gross : Nat, fee : Nat, net : Nat]]

Init ==
    /\ campaign \in Structures
    /\ partner \in [Affiliate -> Partner]
    /\ value = [o \in Order |-> 0]
    /\ conversion = [s \in Order \X Affiliate |-> NULL]
    /\ owed = [a \in Affiliate |-> 0]
    /\ payouts = [a \in Affiliate |-> [gross |-> 0, fee |-> 0, net |-> 0]]

-----------------------------------------------------------------------------
\* The cents that n / d may be rounded to.
Cents(n, d) == {c \in {n \div d, (n \div d) + 1} :
                   2 * c * d <= 2 * n + d /\ 2 * n <= 2 * c * d + d}

\* resolveCommissionStructure: the override of an approved partner, or the
\* campaign's terms.
TermsOf(a) ==
    IF partner[a].status = "APPROVED" /\ partner[a].custom # NULL
    THEN partner[a].custom
    ELSE campaign

\* calculateCommission of n / d cents.
Percent(percentage, n, d) == [n |-> n * percentage, d |-> 100 * d]

\* The last tier whose threshold is reached, or the first of all.
TierFor(tiers, prior) ==
    LET reached == {t \in tiers : t.minSales <= prior}
    IN  IF reached = {}
        THEN CHOOSE t \in tiers : \A u \in tiers : t.minSales <= u.minSales
        ELSE CHOOSE t \in reached : \A u \in reached : u.minSales <= t.minSales

\* The minimum first and then the maximum, which wins when they cross.
AtLeast(x, least) ==
    IF least # NULL /\ x.n < least * x.d THEN [n |-> least, d |-> 1] ELSE x
AtMost(x, most) ==
    IF most # NULL /\ x.n > most * x.d THEN [n |-> most, d |-> 1] ELSE x

Amount(terms, n, d, prior) ==
    CASE terms.type = "flat_per_sale" -> [n |-> terms.flatAmount, d |-> 1]
      [] terms.type = "percentage" ->
            AtMost(AtLeast(Percent(terms.percentage, n, d),
                           terms.minCommission), terms.maxCommission)
      [] terms.type = "tiered_percentage" ->
            Percent(TierFor(terms.tiers, prior).percentage, n, d)
      [] terms.type = "recurring" -> Percent(terms.percentage, n, d)

calculateCommission(terms, n, d, prior) ==
    LET x == Amount(terms, n, d, prior) IN Cents(x.n, x.d)

\* The conversions this affiliate has APPROVED on the campaign before the sale.
PriorCount(a) ==
    Cardinality({o \in Order : /\ conversion[o, a] # NULL
                               /\ conversion[o, a].status = "APPROVED"})

-----------------------------------------------------------------------------
\* report, when the sale is attributed to links of these affiliates: each gets
\* an equal share of the value, and the commission of that share.
Report(o, v, earners) ==
    LET n == Cardinality(earners) IN
    /\ value[o] = 0
    /\ earners # {}
    /\ value' = [value EXCEPT ![o] = v]
    /\ \E share \in [earners -> Cents(v, n)],
          earned \in [earners ->
              UNION {calculateCommission(TermsOf(a), v, n, PriorCount(a)) :
                     a \in earners}] :
          /\ \A a \in earners : earned[a] \in
                calculateCommission(TermsOf(a), v, n, PriorCount(a))
          /\ conversion' = [s \in DOMAIN conversion |->
                IF s[1] = o /\ s[2] \in earners
                THEN [value |-> share[s[2]], commissionAmount |-> earned[s[2]],
                      amount |-> earned[s[2]], status |-> "PENDING",
                      commission |-> "LOCKED", sold |-> share[s[2]],
                      earned |-> earned[s[2]], refunds |-> 0]
                ELSE conversion[s]]
    /\ UNCHANGED <<campaign, partner, owed, payouts>>

\* The conversion is approved and its commission's lock runs out.
Approve(o, a) ==
    /\ conversion[o, a] # NULL
    /\ conversion[o, a].status = "PENDING"
    /\ conversion' = [conversion EXCEPT
          ![<<o, a>>].status = "APPROVED", ![<<o, a>>].commission = "APPROVED"]
    /\ UNCHANGED <<campaign, partner, value, owed, payouts>>

\* calculateRefund: what the affiliate keeps, and what is taken back.  A sale
\* worth nothing keeps nothing.
KeptOf(c, refund) ==
    IF c.value = 0 THEN {0}
    ELSE Cents(c.commissionAmount * (c.value - refund), c.value)

\* Mutant: both parts are rounded.
RoundedApart(c, refund) ==
    {[kept |-> kept, clawback |-> back] :
        kept \in KeptOf(c, refund),
        back \in Cents(c.commissionAmount * refund, c.value)}

calculateRefund(c, refund) ==
    {[kept |-> kept, clawback |-> c.commissionAmount - kept] :
        kept \in KeptOf(c, refund)}

RefundsOf(sales) ==
    SumFunctionOnSet([s \in sales |-> IF conversion[s] = NULL THEN 0
                                      ELSE conversion[s].refunds], sales)

\* reverse, in full or in part: a paid commission is left as it is and an
\* adjustment takes back the difference.
Reverse(o, a, refund) ==
    LET c == conversion[o, a] IN
    /\ c # NULL
    /\ c.status = "APPROVED"
    /\ RefundsOf(DOMAIN conversion) < MaxRefunds
    /\ 0 < refund /\ refund <= c.value
    /\ \E outcome \in calculateRefund(c, refund) :
          /\ conversion' = [conversion EXCEPT ![<<o, a>>] =
                [(IF refund = c.value
                  THEN [c EXCEPT !.status = "REJECTED"]
                  ELSE [c EXCEPT !.value = @ - refund,
                                 !.commissionAmount = outcome.kept])
                 EXCEPT !.amount = IF c.commission = "PAID" \/ refund = c.value
                                   THEN @ ELSE outcome.kept,
                        !.commission = IF @ # "PAID" /\ refund = c.value
                                       THEN "CLAWED_BACK" ELSE @,
                        !.refunds = @ + 1]]
          /\ owed' = IF c.commission = "PAID"
                     THEN [owed EXCEPT ![a] = @ + outcome.clawback]
                     ELSE owed
    /\ UNCHANGED <<campaign, partner, value, payouts>>

\* The approved commissions of an affiliate, less what is owed back.
Payable(a) == {o \in Order : /\ conversion[o, a] # NULL
                             /\ conversion[o, a].commission = "APPROVED"}
TotalOf(orders, a) ==
    SumFunctionOnSet([o \in orders |-> conversion[o, a].amount], orders)

\* calculatePayoutBreakdown: the fee is rounded, the net is what is left.
calculatePayoutBreakdown(gross) ==
    {[gross |-> gross, fee |-> fee, net |-> gross - fee] :
        fee \in Cents(gross * FeePercent, 100)}

\* requestPayout, and the payout is paid.
PayOut(a) ==
    LET items == Payable(a) IN
    /\ items # {}
    /\ TotalOf(items, a) >= owed[a] + MinPayout
    /\ \E b \in calculatePayoutBreakdown(TotalOf(items, a) - owed[a]) :
          payouts' = [payouts EXCEPT ![a] =
              [gross |-> @.gross + b.gross, fee |-> @.fee + b.fee,
               net |-> @.net + b.net]]
    /\ owed' = [owed EXCEPT ![a] = 0]
    /\ conversion' = [s \in DOMAIN conversion |->
          IF s[2] = a /\ s[1] \in items
          THEN [conversion[s] EXCEPT !.commission = "PAID"]
          ELSE conversion[s]]
    /\ UNCHANGED <<campaign, partner, value>>

Next ==
    \/ \E o \in Order, v \in Values, earners \in SUBSET Affiliate :
          Report(o, v, earners)
    \/ \E o \in Order, a \in Affiliate :
          \/ Approve(o, a)
          \/ conversion[o, a] # NULL
             /\ \E refund \in Refunds \cup {conversion[o, a].value} :
                   Reverse(o, a, refund)
    \/ \E a \in Affiliate : PayOut(a)

-----------------------------------------------------------------------------
Standing(a) == {o \in Order : /\ conversion[o, a] # NULL
                              /\ conversion[o, a].status = "APPROVED"}

\* What an affiliate was paid and is still to be paid, less what is owed back,
\* is the commission of the sales that stand, to the cent, and every payout is
\* its fee and its net: refund-math.ts and payout-math.ts derive one part by
\* subtraction so that no "penny the books cannot explain" is left.
BooksBalance == \A a \in Affiliate :
    /\ payouts[a].gross + TotalOf(Payable(a), a)
          = owed[a] + SumFunctionOnSet(
                [o \in Standing(a) |-> conversion[o, a].commissionAmount],
                Standing(a))
    /\ payouts[a].fee + payouts[a].net = payouts[a].gross

\* However a sale is refunded bit by bit, the affiliate keeps the share of the
\* commission that the customer kept of the order: every refund rounds to the
\* nearest cent once, and the roundings do not add up to more.
KeepsItsShare == \A s \in DOMAIN conversion :
    LET c == conversion[s] IN
    c # NULL =>
        /\ 2 * c.commissionAmount * c.sold
              <= 2 * c.earned * c.value + c.refunds * c.sold
        /\ 2 * c.earned * c.value
              <= 2 * c.commissionAmount * c.sold + c.refunds * c.sold

\* Only a conversion that was paid or taken back whole is settled for another
\* amount than its commission, and only one that stands can be paid.
RowsAgree == \A s \in DOMAIN conversion :
    LET c == conversion[s] IN
    c # NULL =>
        /\ value[s[1]] # 0
        /\ c.status = "PENDING" <=> c.commission = "LOCKED"
        /\ c.status = "APPROVED" => c.commission \in {"APPROVED", "PAID"}
        /\ c.commission = "APPROVED" => c.status = "APPROVED"
        /\ c.commission \in {"LOCKED", "APPROVED"}
               => c.amount = c.commissionAmount

MoneyInv == TypeOK /\ RowsAgree /\ BooksBalance /\ KeepsItsShare

\* attribution.test.ts of the API: "The split must not invent or lose money."
\* The shares of a sale add up to its value.
SplitConservesMoney == \A o \in Order :
    LET earners == {a \in Affiliate : conversion[o, a] # NULL} IN
    earners # {} =>
        SumFunctionOnSet([a \in earners |-> conversion[o, a].sold], earners)
            = value[o]
=============================================================================
