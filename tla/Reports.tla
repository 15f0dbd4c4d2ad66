------------------------------- MODULE Reports -------------------------------
(***************************************************************************)
(* What a brand and an affiliate read about their clicks and conversions:  *)
(* the daily series with its comparison (analytics.service.ts, periods.ts) *)
(* and the breakdowns by campaign, partner, link and sub-ID                *)
(* (breakdown.service.ts).  Reports are computed from the tables as they   *)
(* are; the model changes the tables and compares the reports.  The        *)
(* commission columns are computed like the revenue and left out.          *)
(***************************************************************************)
EXTENDS Integers, FiniteSetsExt, SequencesExt

CONSTANTS
    Brand, Campaign, BrandOf, Link, CampaignOf, AffiliateOf, Affiliate,
    Tag,            \* the values of the sub-ID key that is reported
    Click, Conversion, ValueOf,
    MaxTime, Day,   \* bound on the time, and the length of a day
    DefaultDays,    \* the range when no start is asked for
    MaxRange,       \* the longest range that may be asked for
    RowLimit,       \* how many rows a breakdown returns
    NULL

Time == 0..MaxTime
Statuses == {"PENDING", "APPROVED", "REJECTED"}
ClickRow == [link : Link, at : Time, isCounted : BOOLEAN,
             tag : Tag \cup {NULL}]
ConversionRow == [link : Link, at : Time, status : Statuses,
                  tag : Tag \cup {NULL}]

ReportAssumption ==
    /\ IsFiniteSet(Campaign) /\ BrandOf \in [Campaign -> Brand]
    /\ IsFiniteSet(Link)
    /\ CampaignOf \in [Link -> Campaign] /\ AffiliateOf \in [Link -> Affiliate]
    /\ Brand \cap Affiliate = {}
    /\ IsFiniteSet(Click) /\ IsFiniteSet(Conversion)
    /\ ValueOf \in [Conversion -> Nat]
    /\ MaxTime \in Nat /\ Day \in Nat \ {0}
    /\ DefaultDays \in Nat /\ MaxRange \in Nat
    /\ RowLimit \in Nat \ {0}
    /\ NULL \notin Tag \cup Nat /\ NULL \notin ClickRow /\ NULL \notin ConversionRow

VARIABLES
    click,      \* ClickEvent: link, time, whether it is counted, sub-ID value
    conversion, \* Conversion: link, time, status, the click's sub-ID value
    partner     \* BrandAffiliate: its status, for every brand and affiliate

vars == <<click, conversion, partner>>

TypeOK ==
    /\ click \in [Click -> ClickRow \cup {NULL}]
    /\ conversion \in [Conversion -> ConversionRow \cup {NULL}]
    /\ partner \in [Brand \X Affiliate -> {"APPROVED", "DEACTIVATED"}]

Init ==
    /\ click = [c \in Click |-> NULL]
    /\ conversion = [v \in Conversion |-> NULL]
    /\ partner = [p \in Brand \X Affiliate |-> "APPROVED"]

-----------------------------------------------------------------------------
\* The tables change.

Visit(c, row) ==
    /\ click[c] = NULL
    /\ click' = [click EXCEPT ![c] = row]
    /\ UNCHANGED <<conversion, partner>>

\* A conversion copies the sub-IDs of the click it is attributed to.
Convert(v, c, at) ==
    /\ conversion[v] = NULL
    /\ click[c] # NULL
    /\ click[c].at <= at
    /\ conversion' = [conversion EXCEPT ![v] =
          [link |-> click[c].link, at |-> at, status |-> "PENDING",
           tag |-> click[c].tag]]
    /\ UNCHANGED <<click, partner>>

Review(v, status) ==
    /\ conversion[v] # NULL
    /\ conversion[v].status = "PENDING"
    /\ conversion' = [conversion EXCEPT ![v].status = status]
    /\ UNCHANGED <<click, partner>>

Deactivate(b, a) ==
    /\ partner[b, a] = "APPROVED"
    /\ partner' = [partner EXCEPT ![<<b, a>>] = "DEACTIVATED"]
    /\ UNCHANGED <<click, conversion>>

Next ==
    \/ \E c \in Click, row \in ClickRow : Visit(c, row)
    \/ \E v \in Conversion, c \in Click, at \in Time : Convert(v, c, at)
    \/ \E v \in Conversion, s \in {"APPROVED", "REJECTED"} : Review(v, s)
    \/ \E b \in Brand, a \in Affiliate : Deactivate(b, a)

-----------------------------------------------------------------------------
\* Periods.  A window has both its ends.

Within(at, w) == w.start <= at /\ at <= w.end

previousPeriod(w) ==
    [start |-> w.start - (w.end - w.start) - 1, end |-> w.start - 1]

\* resolveRange: the range that is asked for, or why it is refused.
Refused(reason) == [ok |-> FALSE, reason |-> reason]

resolveRange(from, to, now) ==
    LET end == IF to = NULL THEN now ELSE to
        start == IF from = NULL THEN end - DefaultDays * Day ELSE from
    IN  CASE start > now -> Refused("start_in_future")
          [] start <= now /\ end < start -> Refused("end_before_start")
          [] start <= now /\ end - start > MaxRange -> Refused("range_too_long")
          [] OTHER -> [ok |-> TRUE, range |-> [start |-> start, end |-> end]]

\* The windows that may be asked for.
Window ==
    LET asked == {resolveRange(from, to, now) : from \in Time \cup {NULL},
                                                to \in Time \cup {NULL},
                                                now \in Time}
    IN  {r.range : r \in {r \in asked : r.ok}}

-----------------------------------------------------------------------------
\* What the queries select.

LinksOf(scope) == {l \in Link : \/ AffiliateOf[l] = scope
                                \/ BrandOf[CampaignOf[l]] = scope}

Counted(w) == {c \in Click : /\ click[c] # NULL
                             /\ click[c].isCounted
                             /\ Within(click[c].at, w)}

Occurred(w) == {v \in Conversion : /\ conversion[v] # NULL
                                   /\ Within(conversion[v].at, w)}

\* statusFilter: booked or confirmed.
Filtered(w, includePending) ==
    {v \in Occurred(w) :
        conversion[v].status \in
            IF includePending THEN {"APPROVED", "PENDING"} ELSE {"APPROVED"}}

Revenue(cs) == SumFunctionOnSet(ValueOf, cs)

\* A day of the series counts every conversion, whatever became of it.
SeriesDay(scope, w, day) ==
    LET cs == {v \in Occurred(w) : /\ conversion[v].link \in LinksOf(scope)
                                   /\ conversion[v].at \div Day = day}
    IN  [clicks |-> Cardinality({c \in Counted(w) :
                        /\ click[c].link \in LinksOf(scope)
                        /\ click[c].at \div Day = day}),
         conversions |-> Cardinality(cs), revenue |-> Revenue(cs)]

\* buildDailySeries: a day without an event has a row too.
Series(scope, w) ==
    [day \in (w.start \div Day)..(w.end \div Day) |-> SeriesDay(scope, w, day)]

\* Mutant: the clicks and the conversions of a row are joined, and multiply.
JoinedRow(key, clicks, cs) ==
    LET n == Cardinality(clicks) m == Cardinality(cs) IN
    [key |-> key, clicks |-> IF m = 0 THEN n ELSE n * m,
     conversions |-> IF n = 0 THEN m ELSE n * m,
     revenue |-> Revenue(cs)]

\* A row of a breakdown: clicks and conversions are aggregated apart.
BreakdownRow(key, clicks, cs) ==
    [key |-> key, clicks |-> Cardinality(clicks),
     conversions |-> Cardinality(cs), revenue |-> Revenue(cs)]

\* A row for every key, with what has that key among these links.
Breakdown(keys, links, KeyOf(_), w, includePending) ==
    {BreakdownRow(k,
        {c \in Counted(w) : click[c].link \in links /\ KeyOf(click[c]) = k},
        {v \in Filtered(w, includePending) :
            conversion[v].link \in links /\ KeyOf(conversion[v]) = k}) :
     k \in keys}

CampaignKey(row) == CampaignOf[row.link]
AffiliateKey(row) == AffiliateOf[row.link]
LinkKey(row) == row.link
TagKey(row) == row.tag

byCampaign(b, w, includePending) ==
    Breakdown({k \in Campaign : BrandOf[k] = b}, LinksOf(b), CampaignKey, w,
              includePending)

\* Only the partners that are approved now are listed.
byAffiliate(b, w, includePending) ==
    Breakdown({a \in Affiliate : partner[b, a] = "APPROVED"}, LinksOf(b),
              AffiliateKey, w, includePending)

forAffiliateOwnCampaigns(a, w, includePending) ==
    Breakdown({CampaignOf[l] : l \in LinksOf(a)}, LinksOf(a), CampaignKey, w,
              includePending)

forAffiliateLinks(a, w, includePending) ==
    Breakdown(LinksOf(a), LinksOf(a), LinkKey, w, includePending)

\* The values that clicks or approved conversions have for the key.
subIdReport(a, w) ==
    Breakdown(({click[c].tag : c \in {c \in Counted(w) :
                                        click[c].link \in LinksOf(a)}}
               \cup {conversion[v].tag : v \in {v \in Filtered(w, FALSE) :
                                        conversion[v].link \in LinksOf(a)}})
              \ {NULL},
              LinksOf(a), TagKey, w, FALSE)

\* ORDER BY total_revenue: the column is a text, so its digits are compared.
Digits[n \in Nat] ==
    IF n < 10 THEN <<n>> ELSE Append(Digits[n \div 10], n % 10)
TextBefore(m, n) ==
    LET s == Digits[m] t == Digits[n] IN
    \/ IsStrictPrefix(s, t)
    \/ \E i \in DOMAIN s \cap DOMAIN t :
          /\ SubSeq(s, 1, i - 1) = SubSeq(t, 1, i - 1)
          /\ s[i] < t[i]

\* The rows a breakdown sorted by revenue may return first.
Returned(rows) ==
    {top \in SUBSET rows :
        /\ Cardinality(top) = IF Cardinality(rows) < RowLimit
                              THEN Cardinality(rows) ELSE RowLimit
        /\ \A r \in top, other \in rows \ top :
              ~TextBefore(r.revenue, other.revenue)}

-----------------------------------------------------------------------------
Total(rows, column) == SumFunctionOnSet([r \in rows |-> r[column]], rows)
TotalOfSeries(scope, w, column) ==
    LET s == Series(scope, w)
    IN  SumFunctionOnSet([day \in DOMAIN s |-> s[day][column]], DOMAIN s)

Rejected(scope, w) == {v \in Occurred(w) :
                          /\ conversion[v].status = "REJECTED"
                          /\ conversion[v].link \in LinksOf(scope)}

\* A brand's campaigns add up to its series, but for the rejected conversions,
\* which only the series counts.
CampaignsAddUp(b, w) ==
    LET rows == byCampaign(b, w, TRUE) IN
    /\ Total(rows, "clicks") = TotalOfSeries(b, w, "clicks")
    /\ Total(rows, "conversions")
          = TotalOfSeries(b, w, "conversions") - Cardinality(Rejected(b, w))
    /\ Total(rows, "revenue")
          = TotalOfSeries(b, w, "revenue") - Revenue(Rejected(b, w))

\* A partner's row is what the partner sees of this brand's campaigns.
PartnersAgree(b, w) == \A r \in byAffiliate(b, w, FALSE) :
    LET own == {o \in forAffiliateOwnCampaigns(r.key, w, FALSE) :
                   BrandOf[o.key] = b}
    IN  /\ r.clicks = Total(own, "clicks")
        /\ r.conversions = Total(own, "conversions")

\* An affiliate's links add up to its campaigns.
LinksAddUp(a, w) == \A column \in {"clicks", "conversions", "revenue"} :
    Total(forAffiliateLinks(a, w, FALSE), column)
       = Total(forAffiliateOwnCampaigns(a, w, FALSE), column)

\* An affiliate's sub-IDs add up to what carries one.
SubIdsAddUp(a, w) ==
    Total(subIdReport(a, w), "clicks")
       = Cardinality({c \in Counted(w) : /\ click[c].link \in LinksOf(a)
                                         /\ click[c].tag # NULL})

\* The reports tell the same story: no row is counted once for every row of the
\* other table ("That fan-out is the classic way to get an analytics query
\* quietly, plausibly wrong", breakdown.service.ts).
ReportsAgree == \A w \in Window :
    /\ \A b \in Brand : CampaignsAddUp(b, w) /\ PartnersAgree(b, w)
    /\ \A a \in Affiliate : LinksAddUp(a, w) /\ SubIdsAddUp(a, w)

\* A window and the one it is compared with are of the same length, and every
\* click from the start of the earlier to the end of the later is in one of
\* them: "Sharing a boundary instant would double-count anything landing on it"
\* (periods.ts).
PeriodsMeet == \A w \in Window, scope \in Brand \cup Affiliate :
    LET earlier == previousPeriod(w) IN
    /\ earlier.end - earlier.start = w.end - w.start
    /\ TotalOfSeries(scope, w, "clicks") + TotalOfSeries(scope, earlier, "clicks")
          = Cardinality({c \in Counted([start |-> earlier.start, end |-> w.end]) :
                           click[c].link \in LinksOf(scope)})

\* breakdown.service.ts: the rows are ordered by total_revenue, so those that
\* the limit cuts off earned no more than those that are shown.
RankedByRevenue == \A w \in Window, b \in Brand :
    LET rows == byCampaign(b, w, FALSE) IN
    \A top \in Returned(rows) : \A r \in top, other \in rows \ top :
        other.revenue <= r.revenue
=============================================================================
