--------------------------- MODULE UsageAnalytics ---------------------------
(***************************************************************************)
(* The usage service's table of usage records and the reports the          *)
(* administrators read from it: totals of rolling and calendar windows,    *)
(* breakdowns by feature, model and provider, daily series, the table of   *)
(* users with its search, and the exported files.                          *)
(*                                                                         *)
(* The records are a sequence in the order of created_at.  Time is counted *)
(* in half days, which is enough to tell a window of 24 hours from one     *)
(* that starts at midnight; a week and a month are WeekDays and MonthDays  *)
(* days, a page of the auth service holds AuthPage users, and a PDF        *)
(* PdfLines lines (60 in the code), so that small tables reach every limit.*)
(* Sums are integers, an average is the pair of its sum and its count, and *)
(* SQL's order among equal keys is any order.                              *)
(***************************************************************************)
EXTENDS Integers, Sequences, FiniteSets, Functions, SequencesExt, Orders

CONSTANTS Requests,     \* the bodies POST /usage/record is called with
          Accounts,     \* the users of the auth service: [user, name, role, status]
          None,         \* NULL, and a query parameter that is not given
          WeekDays, MonthDays, AuthPage, PdfLines,
          MaxRecords, MaxTime    \* bounds of the runs

ASSUME AnalyticsAssumption ==
    /\ WeekDays \in Nat \ {0} /\ MonthDays \in Nat \ {0} /\ WeekDays <= MonthDays
    /\ AuthPage \in Nat \ {0} /\ PdfLines \in Nat /\ PdfLines >= 4
    /\ MaxRecords \in Nat /\ MaxTime \in Nat

VARIABLES ledger, now

analyticsVars == <<ledger, now>>

KnownFeatures == {"leetcode", "hackerrank", "course_generator", "dsa_pattern", "dsa",
                  "interview"}

UsageRecord ==
    [user : {a.user : a \in Accounts}, feature : STRING, model : STRING \cup {None},
     provider : STRING \cup {None}, session : STRING \cup {None},
     requests : Nat \ {0}, prompt : Nat, completion : Nat, tokens : Nat, cost : Nat,
     time : Nat, success : BOOLEAN, at : Nat]

\* A record has a user and a feature; and NULL is no list of users.
ASSUME RequestsAssumption ==
    /\ Requests \subseteq UsageRecord
    /\ \A r \in Requests : None \notin {r.user, r.feature}
ASSUME AccountsAssumption ==
    IsFiniteSet(Accounts) /\ \A s \in SUBSET {a.user : a \in Accounts} : s # None

-----------------------------------------------------------------------------
(* The operations on the table.                                            *)

AnalyticsInit == ledger = <<>> /\ now = 0

\* A token_usage of zero counts as not given.
RecordUsage(r) ==
    /\ Len(ledger) < MaxRecords
    /\ ledger' = Append(ledger,
           [r EXCEPT !.tokens = IF @ # 0 THEN @ ELSE r.prompt + r.completion, !.at = now])
    /\ UNCHANGED now

DeleteRecordsOf(u) ==
    LET kept == Ascending({i \in DOMAIN ledger : ledger[i].user # u}) IN
    /\ ledger' = [i \in DOMAIN kept |-> ledger[kept[i]]]
    /\ UNCHANGED now

HalfDayPasses ==
    /\ now < MaxTime
    /\ now' = now + 1
    /\ UNCHANGED ledger

AnalyticsNext ==
    \/ \E r \in Requests : RecordUsage(r)
    \/ \E a \in Accounts : DeleteRecordsOf(a.user)
    \/ HalfDayPasses

AnalyticsSpec == AnalyticsInit /\ [][AnalyticsNext]_analyticsVars

-----------------------------------------------------------------------------
(* Windows and totals.                                                     *)

\* Mutant of StartOfDay: the day begins a day ago.
StartOfDayRolling == now - 2

StartOfDay == now - (now % 2)
Today == StartOfDay
DayAgo == now - 2
WeekAgo == now - 2 * WeekDays
MonthAgo == now - 2 * MonthDays
Always == -2 * MonthDays - MaxTime

Since(t) == {i \in DOMAIN ledger : ledger[i].at >= t}
All == DOMAIN ledger
OfUser(u) == {i \in All : ledger[i].user = u}

Sum(column, rows) == SumFunctionOnSet([i \in All |-> ledger[i][column]], rows)
Values(column, rows) == {ledger[i][column] : i \in rows} \ {None}
With(column, v, rows) == {i \in rows : ledger[i][column] = v}
Ratio(a, b) == IF b = 0 THEN <<0, 1>> ELSE <<a, b>>

WindowTotals(t) ==
    LET rows == Since(t) IN
    [requests |-> Sum("requests", rows), prompt |-> Sum("prompt", rows),
     completion |-> Sum("completion", rows), tokens |-> Sum("tokens", rows),
     cost |-> Sum("cost", rows),
     sessions |-> Cardinality(Values("session", rows)),
     activeUsers |-> Cardinality(Values("user", rows)),
     averageTime |-> Ratio(Sum("time", rows), Cardinality(rows)),
     averageTokens |-> Ratio(Sum("tokens", rows), Sum("requests", rows)),
     averageCost |-> Ratio(Sum("cost", rows), Sum("requests", rows))]

-----------------------------------------------------------------------------
(* Breakdowns: one row for each value of a column, but none for NULL.      *)

FeatureRow(f, rows) ==
    LET own == With("feature", f, rows) IN
    [feature |-> f, requests |-> Sum("requests", own), tokens |-> Sum("tokens", own),
     cost |-> Sum("cost", own), averageTime |-> Ratio(Sum("time", own), Cardinality(own)),
     averageTokens |-> Ratio(Sum("tokens", own), Sum("requests", own)),
     averageCost |-> Ratio(Sum("cost", own), Sum("requests", own))]

FeatureBreakdown(rows) == {FeatureRow(f, rows) : f \in Values("feature", rows)}

\* The share of successes, in which an average of zero is taken for a missing one.
SuccessRate(own) ==
    LET good == Cardinality({i \in own : ledger[i].success}) IN
    IF good = 0 THEN <<1, 1>> ELSE <<good, Cardinality(own)>>

ModelRow(m, rows) ==
    LET own == With("model", m, rows) IN
    [model |-> m, requests |-> Sum("requests", own), prompt |-> Sum("prompt", own),
     completion |-> Sum("completion", own), tokens |-> Sum("tokens", own),
     cost |-> Sum("cost", own), successRate |-> SuccessRate(own)]

ModelBreakdown(rows) == {ModelRow(m, rows) : m \in Values("model", rows)}

ProviderBreakdown(rows) ==
    {[provider |-> p, requests |-> Sum("requests", With("provider", p, rows)),
      tokens |-> Sum("tokens", With("provider", p, rows)),
      cost |-> Sum("cost", With("provider", p, rows))] : p \in Values("provider", rows)}

\* Every known feature has its row, used or not; the others follow.
FeatureAnalytics ==
    {FeatureRow(f, All) : f \in KnownFeatures \cup Values("feature", All)}

\* The values of a column by their requests, the most used first.
Ranking(column, rows) ==
    {o \in SetToSeqs(Values(column, rows)) :
        \A i, j \in DOMAIN o :
            i < j => Sum("requests", With(column, o[i], rows))
                         >= Sum("requests", With(column, o[j], rows))}

MostUsed(column, rows) ==
    IF Values(column, rows) = {} THEN {None} ELSE {o[1] : o \in Ranking(column, rows)}

-----------------------------------------------------------------------------
(* A chart's series: a point for each of the last days, today included.    *)

DailySeries(days, column) ==
    LET start == StartOfDay - 2 * (days - 1) IN
    [d \in 0 .. days - 1 |->
        Sum(column, {i \in Since(start) : ledger[i].at \in start + 2 * d .. start + 2 * d + 1})]

Charts ==
    [daily |-> DailySeries(MonthDays, "tokens"), weekly |-> DailySeries(WeekDays, "tokens"),
     monthly |-> DailySeries(MonthDays, "tokens"),
     requestsPerDay |-> DailySeries(MonthDays, "requests"),
     costPerDay |-> DailySeries(MonthDays, "cost")]

-----------------------------------------------------------------------------
(* The reports by their routes.                                            *)

PlatformAnalytics ==
    [requests |-> WindowTotals(Always).requests, daily |-> WindowTotals(DayAgo).requests,
     monthly |-> WindowTotals(MonthAgo).requests, tokens |-> WindowTotals(Always).tokens,
     features |-> FeatureBreakdown(All)]

AnalyticsDashboard ==
    [totals |-> WindowTotals(Always), today |-> WindowTotals(Today),
     weekly |-> WindowTotals(WeekAgo), monthly |-> WindowTotals(MonthAgo),
     feature |-> MostUsed("feature", All), model |-> MostUsed("model", All),
     provider |-> MostUsed("provider", All)]

Windowed(column) ==
    [total |-> WindowTotals(Always)[column], daily |-> WindowTotals(Today)[column],
     weekly |-> WindowTotals(WeekAgo)[column], monthly |-> WindowTotals(MonthAgo)[column],
     features |-> FeatureBreakdown(All), models |-> ModelBreakdown(All),
     providers |-> ProviderBreakdown(All)]

TokenAnalytics == Windowed("tokens")
CostAnalytics == Windowed("cost")

ModelAnalytics == [items |-> ModelBreakdown(All)]
ProviderAnalytics == [items |-> ProviderBreakdown(All)]

\* The answers of the internal routes, and what the admin service serves of them.
Reports ==
    [analytics |-> PlatformAnalytics, dashboard |-> AnalyticsDashboard,
     tokens |-> TokenAnalytics, models |-> ModelAnalytics, providers |-> ProviderAnalytics,
     features |-> FeatureAnalytics, charts |-> Charts, costs |-> CostAnalytics]

AdminReport(answers, name) == answers[name]

\* The older summary of the admin service: the cost is that of the models.
AdminUsage ==
    [requests |-> PlatformAnalytics.requests,
     cost |-> SumFunction([m \in Values("model", All) |-> ModelRow(m, All).cost])]

-----------------------------------------------------------------------------
(* The table of users.                                                     *)

UserRow(u) ==
    [user |-> u, requests |-> Sum("requests", OfUser(u)), tokens |-> Sum("tokens", OfUser(u)),
     cost |-> Sum("cost", OfUser(u)),
     averageTokens |-> Ratio(Sum("tokens", OfUser(u)), Sum("requests", OfUser(u))),
     feature |-> MostUsed("feature", OfUser(u)), model |-> MostUsed("model", OfUser(u))]

UserDetail(u) ==
    [row |-> UserRow(u), features |-> FeatureBreakdown(OfUser(u)),
     models |-> ModelBreakdown(OfUser(u)), providers |-> ProviderBreakdown(OfUser(u)),
     sessions |-> Values("session", OfUser(u))]

\* The users with records among ids, or all of them, by their tokens.
UserOrders(ids) ==
    LET users == IF ids = None THEN Values("user", All)
                 ELSE {u \in Values("user", All) : u \in ids}
    IN {o \in SetToSeqs(users) :
           \A i, j \in DOMAIN o : i < j => Sum("tokens", OfUser(o[i])) >= Sum("tokens", OfUser(o[j]))}

Page(o, page, size) ==
    {o[i] : i \in {j \in DOMAIN o : j > (page - 1) * size /\ j <= page * size}}

\* The client of the admin service leaves an empty list out of the query.
Sent(ids) == IF ids = {} THEN None ELSE ids

Matches(name, role) ==
    {a.user : a \in {b \in Accounts : (name = None \/ b.name = name)
                                        /\ (role = None \/ b.role = role)}}

\* Only the first page of the users a search finds is asked for.
Found(name, role) ==
    LET m == Matches(name, role) IN
    {s \in SUBSET m : Cardinality(s) = IF Cardinality(m) < AuthPage THEN Cardinality(m)
                                       ELSE AuthPage}

Status(u) == (CHOOSE a \in Accounts : a.user = u).status

\* What the admin service may show: the status is filtered after the paging.
UsersTable(name, role, status, page, size) ==
    LET searched == name # None \/ role # None \/ status # None
        asked == IF searched THEN {Sent(f) : f \in Found(name, role)} ELSE {None}
    IN {[rows |-> {u \in Page(o, page, size) : status = None \/ Status(u) = status},
         total |-> Len(o)] : o \in UNION {UserOrders(ids) : ids \in asked}}

\* A user's card: with the usage service down, every number is zero.
AdminUserDetail(u, usageUp) ==
    IF usageUp THEN UserDetail(u).row
    ELSE [UserRow(u) EXCEPT !.requests = 0, !.tokens = 0, !.cost = 0]

-----------------------------------------------------------------------------
(* The exports.                                                            *)

ExportRows(report) ==
    CASE report = "user_usage" -> Cardinality(Values("user", All))
      [] report = "feature_usage" -> Cardinality(FeatureBreakdown(All))
      [] report = "model_usage" -> Cardinality(ModelBreakdown(All))
      [] report = "provider_usage" -> Cardinality(ProviderBreakdown(All))
      [] OTHER -> 1

\* A page of the PDF ends after PdfLines lines, four of which are the heading;
\* the line that counts the rows left out comes after row 200.
PdfShows(n) ==
    LET room == PdfLines - 4
        wanted == IF n > 200 THEN 200 ELSE n
    IN [rows |-> IF wanted < room THEN wanted ELSE room,
        note |-> n > 200 /\ wanted < room]

\* CSV and Excel files have a row for each row of the report.
ExportFile(format, n) ==
    IF format = "pdf" THEN PdfShows(n) ELSE [rows |-> n, note |-> FALSE]

-----------------------------------------------------------------------------

AnalyticsTypeOK ==
    /\ now \in 0 .. MaxTime
    /\ ledger \in Seq(UsageRecord) /\ Len(ledger) <= MaxRecords
    /\ \A i \in All : ledger[i].at <= now

Added(column, breakdown) == SumFunction([r \in breakdown |-> r[column]])

\* The rows of a breakdown add up to the totals; those by model and by provider
\* leave out exactly the records without one.
BreakdownsAddUp ==
    LET total == WindowTotals(Always)
        whole == {FeatureBreakdown(All), FeatureAnalytics,
                  {UserRow(u) : u \in Values("user", All)}}
        models == ModelBreakdown(All)
        providers == ProviderBreakdown(All)
    IN /\ \A c \in {"requests", "tokens", "cost"} :
             /\ \A breakdown \in whole : Added(c, breakdown) = total[c]
             /\ Added(c, models) + Sum(c, With("model", None, All)) = total[c]
             /\ Added(c, providers) + Sum(c, With("provider", None, All)) = total[c]
       /\ AdminUsage.cost + Sum("cost", With("model", None, All)) = total.cost

Total(series, days) == SumFunctionOnSet(series, 0 .. days - 1)

\* A chart's points add up to the records of its days, and the windows are
\* nested: today in the last 24 hours, those in the week, that in the month.
WindowsAddUp ==
    LET chart == Charts
        tokens == TokenAnalytics
        daysTokens == WindowTotals(DayAgo).tokens
    IN /\ Total(chart.weekly, WeekDays) <= tokens.weekly
       /\ Total(chart.weekly, WeekDays)
             = Sum("tokens", Since(StartOfDay - 2 * (WeekDays - 1)))
       /\ Total(chart.costPerDay, MonthDays) <= CostAnalytics.monthly
       /\ chart.daily[MonthDays - 1] = tokens.daily
       /\ tokens.daily <= daysTokens
       /\ daysTokens <= tokens.weekly
       /\ tokens.weekly <= tokens.monthly
       /\ tokens.monthly <= tokens.total

\* The pages of the table hold every user with records once, in whatever order
\* each request finds them, as long as no two users have as many tokens.
PagesPartition ==
    LET users == Values("user", All)
        distinct == \A u, v \in users : u # v => Sum("tokens", OfUser(u)) # Sum("tokens", OfUser(v))
    IN distinct =>
        \A one \in UsersTable(None, None, None, 1, 1), two \in UsersTable(None, None, None, 2, 1) :
            /\ one.rows \cap two.rows = {}
            /\ Cardinality(users) <= 2 => one.rows \cup two.rows = users

\* Every user a search shows matches it, unless the search matches nobody: then
\* the table is that of all users.
SearchIsExplained ==
    \A name \in {a.name : a \in Accounts} \cup {"nobody"} :
        \A shown \in UsersTable(name, None, None, 1, MaxRecords) :
            \/ shown.rows \subseteq Matches(name, None)
            \/ Matches(name, None) = {} /\ shown.total = Cardinality(Values("user", All))

\* A figure that several reports give is the same in all of them; the daily
\* requests of the older summary are those of 24 hours, not of today.
ReportsAgree ==
    \A answers \in {Reports} :
        LET analytics == AdminReport(answers, "analytics")
            dashboard == AdminReport(answers, "dashboard")
            tokens == AdminReport(answers, "tokens")
            costs == AdminReport(answers, "costs")
        IN /\ tokens.total = dashboard.totals.tokens
           /\ tokens.total = analytics.tokens
           /\ tokens.daily = dashboard.today.tokens
           /\ costs.weekly = dashboard.weekly.cost
           /\ analytics.daily >= dashboard.today.requests
           /\ AdminReport(answers, "models").items = costs.models
           /\ AdminReport(answers, "providers").items = tokens.providers

\* The reports agree with the table and with one another
\* (usage_analytics_repository.py, analytics_service.py).
ReportsAddUp == BreakdownsAddUp /\ WindowsAddUp /\ ReportsAgree
                /\ PagesPartition /\ SearchIsExplained
=============================================================================
