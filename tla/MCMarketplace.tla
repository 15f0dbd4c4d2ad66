---------------------------- MODULE MCMarketplace ----------------------------
(***************************************************************************)
(* What the people of the marketplace do with it, one component at a time: *)
(* the initial state chooses the component that runs and the others stay   *)
(* as they are, so that their states add up instead of multiplying.        *)
(* Sessions are extended, the others are instances. Invariants that are    *)
(* costly to evaluate are only evaluated of the component that runs.       *)
(***************************************************************************)
EXTENDS Sessions, FiniteSets, TLC

CONSTANTS
    alice, bob,
    \* campaigns and partners
    Request, Affiliate, Rate, LinkLimit, MaxEdits,
    \* the money of a sale
    Order, Values, Refunds, FeePercent, MinPayout, MaxRefunds,
    \* pages and exports
    Id, Moment, PageSize, MaxReviews,
    \* CSV files
    Quote, Comma, LF, CR, BOM, Apostrophe, plus, Width, Length, MaxChunk,
    \* reports: two brands with a campaign and a link of alice each
    acme, bolt, shoes, lamps, shoesLink, lampsLink, tag, Click, sale,
    MaxTime, DefaultDays, MaxRange, RowLimit,
    \* banners
    BannerKey,
    \* fraud: two sales of one browser
    Sale, Browser, Sharer, DayLength, MaxTicks, MaxScored, Latency, HIGH_RISK_THRESHOLD,
    \* postbacks
    ApiKey, Payload, Handler, Tolerance, MaxClock, MaxSent,
    \* accounts, settings and the switches of the links page
    User, Mailbox, Bio, Switch, Toggle,
    \* the brand's list of conversions and its requests
    Listed, Mutation, Price, Typed, MaxPresses,
    NULL

VARIABLES
    component,
    campaign, relation, custom, history, links, told, late, op,
    terms, deal, value, sold, owed, payouts,
    table, reviews, seek, export,
    rows, layout, rest, parser, records, ended,
    click, conversion, partner,
    approved, asset, file, lost, served, transfer,
    now, row, scoring, counted, signals, review,
    clock, key, used, revoking, sent, postback, accepted,
    email, request, entered,
    user, form, profile, query, saving, asking, payout,
    active, shown, stale, list, toggle, missed,
    status, refunded, listed, dialog, reason, refund, mutation, pending, asked,
    presses, unanswered

sessionVars == <<token, logins, version, rotations, stored, memory, call>>
programVars == <<campaign, relation, custom, history, links, told, late, op>>
moneyVars == <<terms, deal, value, sold, owed, payouts>>
pageVars == <<table, reviews, seek, export>>
csvVars == <<rows, layout, rest, parser, records, ended>>
reportVars == <<click, conversion, partner>>
bannerVars == <<approved, asset, file, lost, served, transfer>>
fraudVars == <<now, row, scoring, counted, signals, review>>
postbackVars == <<clock, key, used, revoking, sent, postback, accepted>>
accountVars == <<email, request, entered>>
settingVars == <<user, form, profile, query, saving, asking, payout>>
toggleVars == <<active, shown, stale, list, toggle, missed>>
deskVars == <<status, refunded, listed, dialog, reason, refund, mutation, pending,
              asked, presses, unanswered>>

-----------------------------------------------------------------------------
Programs == INSTANCE Programs

Flat == [type |-> "flat_per_sale", flatAmount |-> 3]
\* Of ten cents 30 percent, and more than the maximum of a larger share.
Bounded == [type |-> "percentage", percentage |-> 30,
            minCommission |-> 2, maxCommission |-> 4]
Tiered == [type |-> "tiered_percentage",
           tiers |-> {[minSales |-> 0, percentage |-> 10],
                      [minSales |-> 1, percentage |-> 50]}]

Money == INSTANCE SaleMoney WITH
    Affiliate <- {alice, bob},
    Structures <- {Bounded, Tiered},
    Partner <- [status : {"APPROVED", "DEACTIVATED"}, custom : {Flat}],
    campaign <- terms,
    partner <- deal,
    conversion <- sold

Pages_ == INSTANCE Paging WITH Time <- Moment

\* An empty cell, one of nothing but a quote, a formula and a line end.
Files == INSTANCE CsvFiles WITH
    FormulaPrefixes <- {CR, plus},
    Values <- {<<>>, <<Quote>>, <<plus, Comma>>, <<CR, LF>>}

Reports == INSTANCE Reports WITH
    Brand <- {acme, bolt},
    Campaign <- {shoes, lamps},
    BrandOf <- shoes :> acme @@ lamps :> bolt,
    Link <- {shoesLink, lampsLink},
    CampaignOf <- shoesLink :> shoes @@ lampsLink :> lamps,
    Affiliate <- {alice},
    AffiliateOf <- [l \in {shoesLink, lampsLink} |-> alice],
    Tag <- {tag},
    Conversion <- {sale},
    ValueOf <- sale :> 9,
    Day <- 1

Banners == INSTANCE Creatives WITH
    Key <- BannerKey,
    Brand <- {acme, bolt},
    Owner <- acme,
    Faults <- {"database", "storage", "crash"},
    call <- transfer

Fraud == INSTANCE FraudScoring WITH
    Cookie <- Browser,
    Affiliate <- Sharer,
    Day <- DayLength,
    MaxTime <- MaxTicks,
    MaxConversions <- MaxScored,
    Latencies <- Latency

Postbacks == INSTANCE PostbackKeys WITH
    Key <- ApiKey,
    Campaign <- {shoes, lamps},
    Body <- Payload,
    MaxTime <- MaxClock,
    now <- clock,
    request <- postback

Accounts_ == INSTANCE Accounts

Settings_ == INSTANCE Settings WITH request <- asking

Toggles == INSTANCE LinkToggles WITH
    Link <- Switch,
    query <- list

Desk == INSTANCE ConversionDesk WITH
    Conversion <- Listed,
    shown <- listed,
    call <- mutation,
    lost <- unanswered

ASSUME MarketplaceAssumption ==
    /\ Programs!ProgramAssumption
    /\ Money!MoneyAssumption
    /\ Pages_!PagingAssumption
    /\ Files!CsvAssumption
    /\ Reports!ReportAssumption
    /\ Banners!CreativesAssumption
    /\ Fraud!FraudAssumption
    /\ Postbacks!PostbackAssumption
    /\ Accounts_!AccountAssumption
    /\ Settings_!SettingsAssumption
    /\ Toggles!ToggleAssumption
    /\ Desk!DeskAssumption

-----------------------------------------------------------------------------
Still(c, S) == component = c \/ S

\* A component that does not run begins in one of its initial states only.
MarketplaceInit ==
    /\ component \in {"sessions", "programs", "money", "pages", "files",
                      "reports", "banners", "fraud", "postbacks", "accounts",
                      "settings", "toggles", "desk"}
    /\ Init
    /\ Programs!Init
    /\ Still("programs", campaign.open)
    /\ Money!Init
    /\ Still("money", terms = Tiered
                      /\ deal = [a \in {alice, bob} |->
                                    [status |-> "APPROVED", custom |-> Flat]])
    /\ Pages_!Init
    /\ Files!Init
    /\ Still("files", layout = [mark |-> FALSE, lineEnd |-> <<LF>>,
                                blanks |-> 0, lastEnd |-> TRUE]
                      /\ rows = [i \in 1..Length |-> [c \in 1..Width |-> <<>>]])
    /\ Reports!Init
    /\ Banners!Init
    /\ Still("banners", approved)
    /\ Fraud!Init
    /\ Postbacks!Init
    /\ Accounts_!Init
    /\ Settings_!Init
    /\ Toggles!Init
    /\ Still("toggles", \A l \in DOMAIN active : active[l])
    /\ Desk!Init
    /\ Still("desk", \A c \in Listed : status[c] = "PENDING")

peopleVars == <<sessionVars, programVars, moneyVars, pageVars, csvVars, reportVars>>
servedVars == <<bannerVars, fraudVars, postbackVars, accountVars, settingVars,
                toggleVars, deskVars>>

MarketplaceNext ==
    \/ /\ component = "sessions"
       /\ Next
       /\ UNCHANGED <<component, programVars, moneyVars, pageVars, csvVars,
                       reportVars, servedVars>>
    \/ /\ component = "programs"
       /\ Programs!Next
       /\ UNCHANGED <<component, sessionVars, moneyVars, pageVars, csvVars,
                       reportVars, servedVars>>
    \/ /\ component = "money"
       /\ Money!Next
       /\ UNCHANGED <<component, sessionVars, programVars, pageVars, csvVars,
                       reportVars, servedVars>>
    \/ /\ component = "pages"
       /\ Pages_!Next
       /\ UNCHANGED <<component, sessionVars, programVars, moneyVars,
                       csvVars, reportVars, servedVars>>
    \/ /\ component = "files"
       /\ Files!Next
       /\ UNCHANGED <<component, sessionVars, programVars, moneyVars,
                       pageVars, reportVars, servedVars>>
    \/ /\ component = "reports"
       /\ Reports!Next
       /\ UNCHANGED <<component, sessionVars, programVars, moneyVars,
                       pageVars, csvVars, servedVars>>
    \/ /\ component = "banners"
       /\ Banners!Next
       /\ UNCHANGED <<component, fraudVars, postbackVars, accountVars,
                       settingVars, toggleVars, deskVars, peopleVars>>
    \/ /\ component = "fraud"
       /\ Fraud!Next
       /\ UNCHANGED <<component, bannerVars, postbackVars, accountVars,
                       settingVars, toggleVars, deskVars, peopleVars>>
    \/ /\ component = "postbacks"
       /\ Postbacks!Next
       /\ UNCHANGED <<component, bannerVars, fraudVars, accountVars,
                       settingVars, toggleVars, deskVars, peopleVars>>
    \/ /\ component = "accounts"
       /\ Accounts_!Next
       /\ UNCHANGED <<component, bannerVars, fraudVars, postbackVars,
                       settingVars, toggleVars, deskVars, peopleVars>>
    \/ /\ component = "settings"
       /\ Settings_!Next
       /\ UNCHANGED <<component, bannerVars, fraudVars, postbackVars,
                       accountVars, toggleVars, deskVars, peopleVars>>
    \/ /\ component = "toggles"
       /\ Toggles!Next
       /\ UNCHANGED <<component, bannerVars, fraudVars, postbackVars,
                       accountVars, settingVars, deskVars, peopleVars>>
    \/ /\ component = "desk"
       /\ Desk!Next
       /\ UNCHANGED <<component, bannerVars, fraudVars, postbackVars,
                       accountVars, settingVars, toggleVars, peopleVars>>

MarketplaceSpec ==
    /\ MarketplaceInit
    /\ [][MarketplaceNext]_<<component, peopleVars, servedVars>>

-----------------------------------------------------------------------------
\* Types, of the component that runs.
MarketplaceTypeOK ==
    CASE component = "sessions" -> TypeOK
      [] component = "programs" -> Programs!TypeOK
      [] component = "money"    -> Money!TypeOK
      [] component = "pages"    -> Pages_!TypeOK
      [] component = "files"    -> Files!TypeOK
      [] component = "reports"  -> Reports!TypeOK
      [] component = "banners"  -> Banners!TypeOK
      [] component = "fraud"    -> Fraud!TypeOK
      [] component = "postbacks" -> Postbacks!TypeOK
      [] component = "accounts" -> Accounts_!TypeOK
      [] component = "settings" -> Settings_!TypeOK
      [] component = "toggles"  -> Toggles!TypeOK
      [] component = "desk"     -> Desk!TypeOK

\* Links keep the terms and partners the rates they were promised.
PromisesAreKept == Programs!LinksKeepTheirTerms /\ Programs!RateIsOnRecord

\* What is owed adds up, and everyone keeps the share of it that is theirs.
MoneyAddsUp ==
    component = "money" => Money!BooksBalance /\ Money!KeepsItsShare

\* What a test of the linear split says of it: nothing is lost or invented.
SplitConservesMoney == component = "money" => Money!SplitConservesMoney

\* What a list or an export gives is every row once, and reads back as it was.
ExportsAreWhole ==
    /\ component = "pages" => Pages_!EachRowOnce
    /\ component = "files" => Files!FileReadsBack

\* Series, totals and breakdowns of one traffic tell the same numbers.
ReportsAgree == component = "reports" => Reports!ReportsAgree /\ Reports!PeriodsMeet

\* A banner has its file, and is served as what it was found to be.
BannersAccountedFor ==
    component = "banners" => Banners!FilesAccountedFor /\ Banners!ServedAsSniffed

\* Of two conversions of one cookie the later scored is told from a first one.
DuplicateIsSeen == component = "fraud" => Fraud!DuplicateIsSeen

\* What a postback is accepted for is what its key's holder signed, in time.
AcceptedAsSigned == component = "postbacks" => Postbacks!AcceptedAsSigned

\* What people keep at their pages: a mailbox is one account's, details are their
\* method's, a page with nothing under way shows what is stored, and what a
\* brand asks of a conversion was typed for it and is taken once, unless an
\* answer was lost.
AccountsAreKept ==
    /\ component = "accounts" => Accounts_!MailboxHasOneAccount
    /\ component = "settings" => Settings_!DetailsOfTheirMethod
    /\ component = "toggles" => Toggles!PageAtRestIsTrue
    /\ component = "desk" => Desk!SentAsTyped /\ Desk!TakenAsAsked

=============================================================================
