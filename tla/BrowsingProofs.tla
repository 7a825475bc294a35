--------------------------- MODULE BrowsingProofs ---------------------------
(***************************************************************************)
(* Proofs about Browsing, for every number of rows, entries and invoices   *)
(* and every size of a page.                                               *)
(***************************************************************************)
EXTENDS Browsing, FiniteSetTheorems, TLAPS

(***************************************************************************)
(* The audit log.  A total that is counted or kept is at most what the     *)
(* server has, so a page that it promises exists.                          *)
(***************************************************************************)
LogInv ==
    /\ LogTypeOK
    /\ logs["some"] <= logs["all"]
    /\ \A k \in Keys : /\ totals[k] # Unknown => totals[k] <= logs[k[1]]
                       /\ counted[k] # Unknown => counted[k] <= logs[k[1]]
    /\ LogPageExists

\* The quotient that Ceil takes is not too large.
LEMMA CeilBound ==
    ASSUME NEW n \in Nat, NEW d \in Nat \ {0}
    PROVE  Ceil(n, d) \in Nat /\ Ceil(n, d) * d < n + d
<1> DEFINE a == n + d - 1
<1>1. a \in Nat
  OBVIOUS
<1>2. a \div d \in Nat /\ a = d * (a \div d) + (a % d) /\ a % d \in 0 .. d - 1
  BY <1>1, SMT
<1> QED
  BY <1>1, <1>2, SMT DEF Ceil

\* A page below the last one is followed by a page with entries.
LEMMA NextPageExists ==
    ASSUME NEW n \in Nat, NEW d \in Nat \ {0}, NEW p \in Nat, p < Ceil(n, d) - 1
    PROVE  (p + 1) * d < n /\ p + 1 <= n
<1> DEFINE q == Ceil(n, d)
<1>1. q \in Nat /\ q * d < n + d
  BY CeilBound
<1> HIDE DEF q
<1>2. PICK r \in Nat : q = p + 2 + r
  <2>1. p < q - 1
    BY DEF q
  <2>2. q - (p + 2) \in Nat /\ q = p + 2 + (q - (p + 2))
    BY <1>1, <2>1
  <2> QED
    BY <2>2
<1>3. q * d = (p + 1) * d + d + r * d
  BY <1>1, <1>2, SMT
<1>4. r * d \in Nat /\ (p + 1) * d \in Nat /\ (p + 1) * d >= p + 1
  BY <1>2, SMT
<1> QED
  BY <1>1, <1>3, <1>4, SMT

LEMMA LogInitInv ==
    ASSUME LogInit
    PROVE  LogInv
<1>1. logPage = 0 /\ filters \in Settings /\ Key \in Keys
  BY LogAssumption DEF LogInit, Keys, Key, Settings
<1>2. LogTypeOK
  <2>1. /\ logs \in [Settings -> 0 .. MaxLogs] /\ logPage \in 0 .. MaxLogs
        /\ totals \in [Keys -> (0 .. MaxLogs) \cup {Unknown}] /\ asked \subseteq Keys
        /\ counted \in [Keys -> (0 .. MaxLogs) \cup {Unknown}]
    BY <1>1, LogAssumption DEF LogInit
  <2> QED
    BY <1>1, <2>1 DEF LogTypeOK
<1>3. \A k \in Keys : totals[k] = Unknown /\ counted[k] = Unknown
  BY DEF LogInit
<1> QED
  BY <1>1, <1>2, <1>3 DEF LogInit, LogInv, LogPageExists

\* An entry is written.
LEMMA LoggedKeepsLogInv ==
    ASSUME LogInv, Logged
    PROVE  LogInv'
<1>1. /\ logs \in [Settings -> 0 .. MaxLogs] /\ "all" \in Settings /\ "some" \in Settings
      /\ "all" # "some" /\ logs["some"] <= logs["all"] /\ logs["all"] < MaxLogs
  BY DEF Logged, LogInv, LogTypeOK, Settings
<1>2. PICK n \in {0, 1} : logs' = [logs EXCEPT !["all"] = @ + 1, !["some"] = @ + n]
  BY DEF Logged
<1>3. \A f \in Settings : logs'[f] \in 0 .. MaxLogs /\ logs[f] <= logs'[f]
  BY <1>1, <1>2, LogAssumption DEF Settings
<1>4. logs' \in [Settings -> 0 .. MaxLogs] /\ logs'["some"] <= logs'["all"]
  BY <1>1, <1>2, <1>3, LogAssumption
<1>5. LogPageExists'
  BY <1>1, <1>3, LogAssumption DEF Logged, LogInv, LogTypeOK, LogPageExists
<1>6. \A k \in Keys : /\ totals'[k] # Unknown => totals'[k] <= logs'[k[1]]
                     /\ counted'[k] # Unknown => counted'[k] <= logs'[k[1]]
  <2> TAKE k \in Keys
  <2>1. k[1] \in Settings /\ logs[k[1]] \in 0 .. MaxLogs
    BY <1>1 DEF Keys
  <2> QED
    BY <1>3, <2>1, LogAssumption DEF Logged, LogInv, LogTypeOK
<1> QED
  BY <1>4, <1>5, <1>6 DEF Logged, LogInv, LogTypeOK, Keys, Settings

\* The answers, and asking again.
LEMMA QueryKeepsLogInv ==
    ASSUME LogInv,
           AskAgain \/ \E k \in asked : LogsCounted(k) \/ LogsAnswered(k) \/ LogsFail(k)
    PROVE  LogInv'
<1>1. CASE AskAgain
  BY <1>1 DEF AskAgain, LogInv, LogTypeOK, LogPageExists, Keys, Key
<1>2. ASSUME NEW k \in asked, LogsCounted(k)
      PROVE  LogInv'
  <2>1. k \in Keys /\ logs[k[1]] \in 0 .. MaxLogs
    BY DEF LogInv, LogTypeOK, Keys
  <2> QED
    BY <1>2, <2>1, LogAssumption DEF LogsCounted, LogInv, LogTypeOK, LogPageExists
<1>3. ASSUME NEW k \in asked, LogsAnswered(k) \/ LogsFail(k)
      PROVE  LogInv'
  <2>1. k \in Keys /\ k[1] \in Settings
    BY DEF LogInv, LogTypeOK, Keys
  <2> QED
    BY <1>3, <2>1 DEF LogsAnswered, LogsFail, LogInv, LogTypeOK, LogPageExists
<1> QED
  BY <1>1, <1>2, <1>3

\* What the user sees next.
LEMMA ShowingKeepsLogInv ==
    ASSUME LogInv, NEW f \in Settings, NEW n \in 0 .. MaxLogs, ShowLogs(f, n),
           n = 0 \/ n * limit < logs[f]
    PROVE  LogInv'
BY DEF ShowLogs, LogInv, LogTypeOK, LogPageExists, Keys

LEMMA UserKeepsLogInv ==
    ASSUME LogInv, handleFilterChange \/ NextLogs \/ PreviousLogs
    PROVE  LogInv'
<1>1. /\ filters \in Settings /\ logPage \in 0 .. MaxLogs /\ Key \in Keys
      /\ logs \in [Settings -> 0 .. MaxLogs] /\ MaxLogs \in Nat /\ limit \in Nat \ {0}
  BY LogAssumption DEF LogInv, LogTypeOK, Keys, Key
<1>2. CASE handleFilterChange
  <2>1. 0 \in 0 .. MaxLogs
    BY <1>1
  <2> QED
    BY <1>2, <2>1, ShowingKeepsLogInv DEF handleFilterChange
<1>3. CASE NextLogs
  <2>1. /\ totals[Key] \in 0 .. MaxLogs
        /\ logPage < Ceil(totals[Key], limit) - 1
        /\ totals[Key] <= logs[filters]
    BY <1>1, <1>3 DEF NextLogs, totalPages, LogInv, LogTypeOK, Key
  <2>2. (logPage + 1) * limit < totals[Key] /\ logPage + 1 <= totals[Key]
    BY <1>1, <2>1, NextPageExists
  <2>3. (logPage + 1) * limit \in Nat /\ logs[filters] \in Nat
    BY <1>1
  <2>4. logPage + 1 \in 0 .. MaxLogs /\ (logPage + 1) * limit < logs[filters]
    BY <1>1, <2>1, <2>2, <2>3
  <2> QED
    BY <1>1, <1>3, <2>4, ShowingKeepsLogInv DEF NextLogs
<1>4. CASE PreviousLogs
  <2>1. logPage > 0 /\ logPage - 1 \in 0 .. MaxLogs
    BY <1>1, <1>4 DEF PreviousLogs
  <2>2. (logPage - 1) * limit <= logPage * limit
    <3>1. logPage * limit = (logPage - 1) * limit + limit
      BY <1>1, <2>1, SMT
    <3>2. (logPage - 1) * limit \in Nat
      BY <1>1, <2>1, SMT
    <3> QED
      BY <1>1, <3>1, <3>2
  <2>3. (logPage - 1) * limit < logs[filters]
    <3>1. logPage * limit < logs[filters]
      BY <1>1, <2>1 DEF LogInv, LogPageExists
    <3>2. (logPage - 1) * limit \in Int /\ logPage * limit \in Int /\ logs[filters] \in Int
      BY <1>1, <2>1, SMT
    <3> QED
      BY <2>2, <3>1, <3>2
  <2> QED
    BY <1>1, <1>4, <2>1, <2>3, ShowingKeepsLogInv DEF PreviousLogs
<1> QED
  BY <1>2, <1>3, <1>4

(***************************************************************************)
(* The details of an invoice.  Unless reads overlap, every answer to come  *)
(* is about the invoice that is expanded.                                  *)
(***************************************************************************)
InvoiceInv ==
    /\ InvoiceTypeOK
    /\ DetailIsOfExpanded
    /\ expandedId # None /\ ~overlapping =>
          \A y \in Invoices : loads[y] > 0 => y = expandedId

LEMMA InvoiceInitInv ==
    ASSUME InvoiceInit
    PROVE  InvoiceInv
<1>1. detailLoading \in BOOLEAN /\ overlapping \in BOOLEAN /\ ~detailLoading
  BY Zenon DEF InvoiceInit
<1>2. /\ listed \subseteq Invoices /\ expandedId = None /\ detailData = None
      /\ loads \in [Invoices -> 0 .. MaxLoads] /\ settling \in [Invoices -> 0 .. MaxLoads]
  BY InvoiceAssumption DEF InvoiceInit
<1> QED
  BY <1>1, <1>2 DEF InvoiceInv, InvoiceTypeOK, DetailIsOfExpanded

LEMMA InvoiceNextInv ==
    ASSUME InvoiceInv, InvoiceNext
    PROVE  InvoiceInv'
<1> USE InvoiceAssumption DEF InvoiceInv, InvoiceTypeOK, DetailIsOfExpanded
<1>1. CASE ListInvoices
  BY <1>1 DEF ListInvoices
<1>2. CASE Reopen
  <2>1. detailLoading' \in BOOLEAN /\ overlapping' \in BOOLEAN /\ ~detailLoading'
    BY <1>2, Zenon DEF Reopen
  <2>2. /\ listed' \subseteq Invoices /\ expandedId' = None /\ detailData' = None
        /\ loads' \in [Invoices -> 0 .. MaxLoads] /\ settling' \in [Invoices -> 0 .. MaxLoads]
    BY <1>2 DEF Reopen, Unexpanded
  <2> QED
    BY <2>1, <2>2
<1>3. ASSUME NEW x \in Invoices, Collapse(x)
      PROVE  InvoiceInv'
  BY <1>3 DEF Collapse, Unexpanded
<1>4. ASSUME NEW x \in Invoices, loadDetail(x)
      PROVE  InvoiceInv'
  <2>1. /\ overlapping' \in BOOLEAN /\ detailLoading' \in BOOLEAN /\ detailLoading'
        /\ overlapping' <=> \E y \in Invoices \ {x} : loads[y] > 0
    BY <1>4, Zenon DEF loadDetail
  <2>2. /\ loads' \in [Invoices -> 0 .. MaxLoads] /\ loads'[x] > 0
        /\ \A y \in Invoices \ {x} : loads'[y] = loads[y]
    BY <1>4 DEF loadDetail
  <2>3. /\ expandedId' = x
        /\ UNCHANGED <<listed, detailData, settling>>
    BY <1>4 DEF loadDetail
  <2> QED
    BY <2>1, <2>2, <2>3
<1>5. ASSUME NEW x \in Invoices, DetailAnswered(x)
      PROVE  InvoiceInv'
  <2>1. detailLoading' \in BOOLEAN /\ ~detailLoading' /\ overlapping' = overlapping
    BY <1>5, Zenon DEF DetailAnswered
  <2>2. /\ loads[x] > 0 /\ loads' \in [Invoices -> 0 .. MaxLoads]
        /\ \A y \in Invoices : loads'[y] > 0 => loads[y] > 0
        /\ detailData' \in {x, None}
        /\ UNCHANGED <<listed, expandedId, settling>>
    BY <1>5 DEF DetailAnswered
  <2> QED
    BY <2>1, <2>2
<1>6. ASSUME NEW x \in Invoices, Settle(x)
      PROVE  InvoiceInv'
  BY <1>6 DEF Settle
<1>7. ASSUME NEW x \in Invoices, Settled(x)
      PROVE  InvoiceInv'
  BY <1>7 DEF Settled, Unexpanded
<1> QED
  BY <1>1, <1>2, <1>3, <1>4, <1>5, <1>6, <1>7 DEF InvoiceNext

(***************************************************************************)
(* The composition.                                                        *)
(***************************************************************************)
LEMMA LogStutter ==
    ASSUME LogInv, UNCHANGED logVars
    PROVE  LogInv'
BY DEF LogInv, LogTypeOK, LogPageExists, logVars

LEMMA InvoiceStutter ==
    ASSUME InvoiceInv, UNCHANGED invoiceVars
    PROVE  InvoiceInv'
BY DEF InvoiceInv, InvoiceTypeOK, DetailIsOfExpanded, invoiceVars

\* On every screen, what the two parts of the admin console keep is as
\* LogInv and InvoiceInv say.
THEOREM AdminInvariance == BrowsingSpec => [](LogInv /\ InvoiceInv)
<1>1. BrowsingInit => LogInv /\ InvoiceInv
  BY LogInitInv, InvoiceInitInv DEF BrowsingInit
<1>2. LogInv /\ InvoiceInv /\ [BrowsingNext]_browsingVars => (LogInv /\ InvoiceInv)'
  <2> SUFFICES ASSUME LogInv, InvoiceInv, [BrowsingNext]_browsingVars
               PROVE  LogInv' /\ InvoiceInv'
    OBVIOUS
  <2>1. CASE UNCHANGED <<logVars, invoiceVars>>
    BY <2>1, LogStutter, InvoiceStutter
  <2>2. CASE LogNext /\ UNCHANGED invoiceVars
    BY <2>2, LoggedKeepsLogInv, QueryKeepsLogInv, UserKeepsLogInv, InvoiceStutter DEF LogNext
  <2>3. CASE InvoiceNext /\ UNCHANGED logVars
    BY <2>3, InvoiceNextInv, LogStutter
  <2> QED
    BY <2>1, <2>2, <2>3 DEF BrowsingNext, browsingVars
<1> QED
  BY <1>1, <1>2, PTL DEF BrowsingSpec

\* No page of the audit log (AuditLogs.tsx) without entries is ever reached,
\* for every size of a page and every number of entries, however late
\* answers are.
THEOREM LogPageAlwaysExists == BrowsingSpec => []LogPageExists
BY AdminInvariance, PTL DEF LogInv

\* The details below an invoice (loadDetail of Invoices.tsx) are its own,
\* for every number of invoices and calls, unless reads overlapped.
THEOREM DetailAlwaysOfExpanded == BrowsingSpec => []DetailIsOfExpanded
BY AdminInvariance, PTL DEF InvoiceInv

(***************************************************************************)
(* The pages of the tunnel list.                                           *)
(***************************************************************************)
ListInv == page \in Nat /\ rows \subseteq Ids

LEMMA ListInvariance == BrowsingSpec => []ListInv
<1>1. BrowsingInit => ListInv
  BY DEF BrowsingInit, TunnelsInit, ListInv
<1>2. ListInv /\ [BrowsingNext]_browsingVars => ListInv'
  <2> SUFFICES ASSUME ListInv, [BrowsingNext]_browsingVars
               PROVE  ListInv'
    OBVIOUS
  <2>1. CASE UNCHANGED tunnelVars
    BY <2>1 DEF tunnelVars, ListInv
  <2>2. CASE TunnelsNext
    <3>1. CASE Refetched
      BY <3>1 DEF Refetched, ListInv
    <3>2. CASE NextPage
      BY <3>2 DEF NextPage, Turn, ListInv
    <3>3. CASE PreviousPage
      BY <3>3 DEF PreviousPage, Turn, ListInv
    <3>4. CASE handleTagFilter \/ BackToList
      BY <3>4 DEF handleTagFilter, BackToList, ListInv
    <3>5. CASE Follow \/ UNCHANGED <<rows, onList, page, tagFilter>>
      BY <3>5 DEF Follow, ListInv
    <3> QED
      BY <2>2, <3>1, <3>2, <3>3, <3>4, <3>5 DEF TunnelsNext
  <2> QED
    BY <2>1, <2>2 DEF BrowsingNext, browsingVars
<1> QED
  BY <1>1, <1>2, PTL DEF BrowsingSpec

\* More rows are shown when rows come, and the filter stays.
LEMMA CountGrows ==
    ASSUME ListInv, ListInv', rows \subseteq rows', tagFilter' = tagFilter
    PROVE  Count \in Nat /\ Count' \in Nat /\ Count <= Count'
<1>1. IsFiniteSet(Ids)
  BY PaletteAssumption
<1>2. filteredTunnels' \subseteq Ids /\ filteredTunnels \subseteq filteredTunnels'
  BY DEF filteredTunnels, ListInv
<1>3. IsFiniteSet(filteredTunnels') /\ IsFiniteSet(filteredTunnels)
  BY <1>1, <1>2, FS_Subset
<1> QED
  BY <1>2, <1>3, FS_Subset, FS_CardinalityType DEF Count

LEMMA PageStaysStep ==
    ASSUME ListInv, ListInv', TunnelsNext, OnAPage, rows \subseteq rows'
    PROVE  OnAPage'
<1>1. page \in Nat /\ PAGE_SIZE \in Nat \ {0}
  BY PageAssumption DEF ListInv
<1>2. CASE page' = 0
  BY <1>2 DEF OnAPage
<1>3. CASE page' = page /\ tagFilter' = tagFilter
  <2>1. Count \in Nat /\ Count' \in Nat /\ Count <= Count'
    BY <1>3, CountGrows
  <2>2. page * PAGE_SIZE \in Nat
    BY <1>1, SMT
  <2> QED
    BY <1>3, <2>1, <2>2 DEF OnAPage
<1>4. CASE NextPage
  <2>1. (page + 1) * PAGE_SIZE < Count /\ page' = page + 1
    BY <1>4 DEF NextPage, hasMore, Turn
  <2>2. Count' = Count
    BY <1>4 DEF NextPage, Turn, Count, filteredTunnels
  <2> QED
    BY <2>1, <2>2 DEF OnAPage
<1>5. CASE PreviousPage
  <2>1. page > 0 /\ page' = page - 1 /\ page * PAGE_SIZE < Count
    BY <1>1, <1>5 DEF PreviousPage, Turn, OnAPage
  <2>2. Count' = Count
    BY <1>5 DEF PreviousPage, Turn, Count, filteredTunnels
  <2>3. Count \in Nat
    BY <1>5, CountGrows DEF PreviousPage, Turn
  <2>4. /\ (page - 1) * PAGE_SIZE \in Nat
        /\ page * PAGE_SIZE = (page - 1) * PAGE_SIZE + PAGE_SIZE
    BY <1>1, <2>1, SMT
  <2>5. (page - 1) * PAGE_SIZE < Count
    BY <1>1, <2>1, <2>3, <2>4
  <2> QED
    BY <2>1, <2>2, <2>5 DEF OnAPage
<1>6. \/ page' = 0 \/ (page' = page /\ tagFilter' = tagFilter)
      \/ NextPage \/ PreviousPage
  BY DEF TunnelsNext, Refetched, handleTagFilter, Follow, BackToList
<1> QED
  BY <1>2, <1>3, <1>4, <1>5, <1>6

\* Nothing the user does on the list of Tunnels.tsx leads to a page without
\* rows, for every number of rows and every size of a page.
THEOREM PageAlwaysStays == BrowsingSpec => PageStays
<1>1. ListInv /\ ListInv' /\ [BrowsingNext]_browsingVars
        => [OnAPage /\ rows \subseteq rows' => OnAPage']_browsingVars
  <2> SUFFICES ASSUME ListInv, ListInv', [BrowsingNext]_browsingVars,
                      OnAPage, rows \subseteq rows'
               PROVE  OnAPage'
    OBVIOUS
  <2>1. CASE UNCHANGED tunnelVars
    BY <2>1 DEF tunnelVars, OnAPage, Count, filteredTunnels
  <2>2. CASE TunnelsNext
    BY <2>2, PageStaysStep
  <2> QED
    BY <2>1, <2>2 DEF BrowsingNext, browsingVars
<1> QED
  BY <1>1, ListInvariance, PTL DEF BrowsingSpec, PageStays

(***************************************************************************)
(* The selection of the command palette.                                   *)
(***************************************************************************)
PaletteInv ==
    /\ query \in Queries /\ selectedIndex \in Int
    /\ rows \subseteq Ids /\ drawn \subseteq Ids

\* The number of results, and that it grows with the rows.
LEMMA ResultsGrow ==
    ASSUME NEW q \in Queries, NEW R \in SUBSET Ids, NEW S \in SUBSET Ids, R \subseteq S
    PROVE  /\ Results(q, R) \in Nat /\ Results(q, S) \in Nat
           /\ Results(q, R) <= Results(q, S)
           /\ q = "nothing" => Results(q, S) > 0
<1>1. /\ fuzzyMatch(q, R) \subseteq fuzzyMatch(q, S) /\ fuzzyMatch(q, S) \subseteq Ids
  BY DEF Queries, fuzzyMatch
<1>2. IsFiniteSet(fuzzyMatch(q, S)) /\ IsFiniteSet(fuzzyMatch(q, R))
  BY <1>1, PaletteAssumption, FS_Subset
<1>3. /\ Cardinality(fuzzyMatch(q, R)) \in Nat /\ Cardinality(fuzzyMatch(q, S)) \in Nat
      /\ Cardinality(fuzzyMatch(q, R)) <= Cardinality(fuzzyMatch(q, S))
  BY <1>1, <1>2, FS_Subset, FS_CardinalityType
<1>4. Routes \in Nat \ {0}
  BY PaletteAssumption
<1>5. CASE q = "nothing"
  <2>1. /\ Results(q, R) = Cardinality(fuzzyMatch(q, R)) + Routes
        /\ Results(q, S) = Cardinality(fuzzyMatch(q, S)) + Routes
    BY <1>5 DEF Results
  <2> QED
    BY <1>3, <1>4, <2>1
<1>6. CASE q # "nothing"
  <2>1. /\ Results(q, R) = Cardinality(fuzzyMatch(q, R)) + 0
        /\ Results(q, S) = Cardinality(fuzzyMatch(q, S)) + 0
    BY <1>6 DEF Results
  <2> QED
    BY <1>3, <1>6, <2>1
<1> QED
  BY <1>5, <1>6

LEMMA DrawnType ==
    ASSUME PaletteInv
    PROVE  Drawn \in Nat
BY ResultsGrow DEF Drawn, PaletteInv

LEMMA PaletteStepInv ==
    ASSUME PaletteInv, PaletteStep \/ execute, UNCHANGED rows
    PROVE  PaletteInv'
<1>1. Drawn \in Nat
  BY DrawnType
<1>2. CASE toggle
  <2>1. drawn' \subseteq Ids
    BY <1>2 DEF toggle, Redrawn, PaletteInv
  <2>2. query' \in {query, "nothing"} /\ selectedIndex' \in {selectedIndex, 0}
    BY <1>2 DEF toggle
  <2> QED
    BY <2>1, <2>2 DEF PaletteInv, Queries
<1>3. CASE Dismiss
  BY <1>3 DEF Dismiss, Redrawn, PaletteInv
<1>4. CASE execute
  BY <1>4 DEF execute, Redrawn, PaletteInv
<1>5. ASSUME NEW q \in Queries, setQuery(q)
      PROVE  PaletteInv'
  BY <1>5 DEF setQuery, Redrawn, PaletteInv
<1>6. ASSUME NEW i \in Int, Select(i)
      PROVE  PaletteInv'
  BY <1>6 DEF Select, Redrawn, PaletteInv
<1>7. ArrowDown \/ ArrowUp \/ MouseEnter => \E i \in Int : Select(i)
  BY <1>1 DEF ArrowDown, ArrowUp, MouseEnter, PaletteInv
<1> QED
  BY <1>2, <1>3, <1>4, <1>5, <1>6, <1>7 DEF PaletteStep

LEMMA PaletteInvariance == BrowsingSpec => []PaletteInv
<1>1. BrowsingInit => PaletteInv
  <2> SUFFICES ASSUME BrowsingInit
               PROVE  PaletteInv
    OBVIOUS
  <2>1. rows \subseteq Ids /\ query = "nothing" /\ selectedIndex = 0 /\ drawn = rows
    BY DEF BrowsingInit, TunnelsInit, PaletteInit
  <2> QED
    BY <2>1 DEF PaletteInv, Queries
<1>2. PaletteInv /\ [BrowsingNext]_browsingVars => PaletteInv'
  <2> SUFFICES ASSUME PaletteInv, [BrowsingNext]_browsingVars
               PROVE  PaletteInv'
    OBVIOUS
  <2>1. CASE UNCHANGED tunnelVars
    BY <2>1 DEF tunnelVars, PaletteInv
  <2>2. CASE TunnelsNext
    <3>1. CASE UNCHANGED paletteVars /\ rows' \subseteq Ids
      BY <3>1 DEF paletteVars, PaletteInv
    <3>2. CASE (PaletteStep \/ execute) /\ UNCHANGED rows
      BY <3>2, PaletteStepInv
    <3>3. Refetched \/ NextPage \/ PreviousPage \/ handleTagFilter \/ BackToList
             => UNCHANGED paletteVars /\ rows' \subseteq Ids
      BY DEF Refetched, NextPage, PreviousPage, Turn, handleTagFilter, BackToList, PaletteInv
    <3> QED
      BY <2>2, <3>1, <3>2, <3>3 DEF TunnelsNext, Follow
  <2> QED
    BY <2>1, <2>2 DEF BrowsingNext, browsingVars
<1> QED
  BY <1>1, <1>2, PTL DEF BrowsingSpec

\* While the query stays, the results are as many as before or more.
LEMMA DrawnGrows ==
    ASSUME PaletteInv, PaletteInv', query' = query, drawn \subseteq drawn'
    PROVE  Drawn \in Nat /\ Drawn' \in Nat /\ Drawn <= Drawn'
BY ResultsGrow DEF Drawn, PaletteInv

\* Selected, one step later.
LEMMA SelectedNext ==
    ASSUME Drawn' \in Nat, NEW m \in Nat, m <= Drawn',
           selectedIndex' = 0 \/ selectedIndex' \in 0 .. m - 1
    PROVE  Selected' \/ Drawn' = 0
BY DEF Selected

\* Where the arrow keys and the mouse lead from a selected result.
LEMMA SelectedByKey ==
    ASSUME Drawn \in Nat, selectedIndex \in 0 .. Drawn - 1, ArrowDown \/ ArrowUp \/ MouseEnter
    PROVE  selectedIndex' \in 0 .. Drawn - 1
BY DEF ArrowDown, ArrowUp, MouseEnter, Select

LEMMA SelectionStaysStep ==
    ASSUME PaletteInv, PaletteInv', PaletteStep \/ execute,
           open', open => Selected, drawn \subseteq drawn'
    PROVE  Selected' \/ Drawn' = 0
<1>1. Drawn' \in Nat /\ Drawn \in Nat
  <2>1. Drawn' = Results(query', drawn') /\ query' \in Queries /\ drawn' \in SUBSET Ids
    BY DEF Drawn, PaletteInv
  <2> QED
    BY <2>1, ResultsGrow, DrawnType
<1>2. CASE selectedIndex' = 0
  BY <1>1, <1>2, SelectedNext
<1>3. CASE open /\ selectedIndex' \in 0 .. Drawn - 1 /\ query' = query
  BY <1>3, DrawnGrows, SelectedNext
<1>4. CASE toggle
  <2>1. selectedIndex' = 0
    BY <1>4 DEF toggle
  <2> QED
    BY <1>2, <2>1
<1>5. ASSUME NEW q \in Queries, setQuery(q)
      PROVE  Selected' \/ Drawn' = 0
  <2>1. selectedIndex' = 0 \/ (open /\ selectedIndex' = selectedIndex /\ query' = query)
    BY <1>5 DEF setQuery
  <2> QED
    BY <1>2, <1>3, <2>1 DEF Selected
<1>6. CASE ArrowDown \/ ArrowUp \/ MouseEnter
  <2>1. open /\ query' = query
    BY <1>6 DEF ArrowDown, ArrowUp, MouseEnter, Select
  <2>2. selectedIndex \in 0 .. Drawn - 1
    BY <2>1 DEF Selected
  <2>3. selectedIndex' \in 0 .. Drawn - 1
    BY <1>1, <1>6, <2>2, SelectedByKey
  <2> QED
    BY <1>3, <2>1, <2>3
<1>7. ~Dismiss /\ ~execute
  BY DEF Dismiss, execute
<1> QED
  BY <1>4, <1>5, <1>6, <1>7 DEF PaletteStep

\* No key, typing or mouse movement takes the selection of the palette off
\* the results, for every number of rows and fixed entries.
THEOREM SelectionAlwaysStays == BrowsingSpec => SelectionStays
<1> DEFINE Stays == open' /\ (open => Selected) /\ drawn \subseteq drawn'
                       => Selected' \/ Drawn' = 0
<1>1. PaletteInv /\ PaletteInv' /\ [BrowsingNext]_browsingVars
        => [Stays]_<<rows, paletteVars>>
  <2> SUFFICES ASSUME PaletteInv, PaletteInv', [BrowsingNext]_browsingVars,
                      open', open => Selected, drawn \subseteq drawn',
                      ~UNCHANGED <<rows, paletteVars>>
               PROVE  Selected' \/ Drawn' = 0
    OBVIOUS
  <2>1. CASE UNCHANGED paletteVars
    BY <2>1 DEF paletteVars, Selected, Drawn
  <2>2. CASE PaletteStep \/ execute
    BY <2>2, SelectionStaysStep
  <2>3. \/ UNCHANGED paletteVars
        \/ PaletteStep \/ execute
    BY DEF BrowsingNext, browsingVars, tunnelVars, paletteVars, TunnelsNext, Refetched,
           NextPage, PreviousPage, Turn, handleTagFilter, Follow, BackToList
  <2> QED
    BY <2>1, <2>2, <2>3
<1> QED
  BY <1>1, PaletteInvariance, PTL DEF BrowsingSpec, SelectionStays

(***************************************************************************)
(* Types.  What is left of them besides the invariants above: that the     *)
(* page and the selection stay within what all of the rows would make.     *)
(***************************************************************************)
RangeInv ==
    /\ screen \in {"tunnels", "logs", "invoices"}
    /\ open \in BOOLEAN /\ onList \in BOOLEAN /\ tagFilter \in BOOLEAN
    /\ selectedIndex \in -1 .. Cardinality(Ids) + Routes
    /\ page \in 0 .. Cardinality(Ids)

LEMMA ConstantTypes == Cardinality(Ids) \in Nat /\ Routes \in Nat /\ PAGE_SIZE \in Nat \ {0}
BY PaletteAssumption, PageAssumption, FS_CardinalityType

\* No query lists more than all of the rows and all of the fixed entries.
LEMMA DrawnBound ==
    ASSUME PaletteInv
    PROVE  Drawn \in Nat /\ Drawn <= Cardinality(Ids) + Routes
<1>1. query \in Queries /\ drawn \subseteq Ids
  BY DEF PaletteInv
<1>2. fuzzyMatch(query, drawn) \subseteq Ids
  BY <1>1 DEF Queries, fuzzyMatch
<1>3. /\ Cardinality(fuzzyMatch(query, drawn)) \in Nat
      /\ Cardinality(fuzzyMatch(query, drawn)) <= Cardinality(Ids)
  BY <1>2, PaletteAssumption, FS_Subset, FS_CardinalityType
<1>4. CASE query = "nothing"
  <2>1. Drawn = Cardinality(fuzzyMatch(query, drawn)) + Routes
    BY <1>4 DEF Drawn, Results
  <2> QED
    BY <1>3, <2>1, ConstantTypes
<1>5. CASE query # "nothing"
  <2>1. Drawn = Cardinality(fuzzyMatch(query, drawn)) + 0
    BY <1>5 DEF Drawn, Results
  <2> QED
    BY <1>3, <2>1, ConstantTypes
<1> QED
  BY <1>4, <1>5

\* The page that a next one follows is not the last that Ids could fill.
LEMMA NextPageBound ==
    ASSUME ListInv, hasMore
    PROVE  page + 1 \in 0 .. Cardinality(Ids)
<1>1. filteredTunnels \subseteq Ids
  BY DEF filteredTunnels, ListInv
<1>2. Count \in Nat /\ Count <= Cardinality(Ids)
  BY <1>1, PaletteAssumption, FS_Subset, FS_CardinalityType DEF Count
<1>3. (page + 1) * PAGE_SIZE < Count
  BY DEF hasMore
<1>4. page \in Nat /\ (page + 1) * PAGE_SIZE \in Nat /\ page + 1 <= (page + 1) * PAGE_SIZE
  <2>1. page \in Nat /\ PAGE_SIZE \in Nat \ {0}
    BY ConstantTypes DEF ListInv
  <2> QED
    BY <2>1, SMT
<1> QED
  BY <1>2, <1>3, <1>4, ConstantTypes

\* The steps of the palette.
LEMMA PaletteStepRange ==
    ASSUME PaletteInv, RangeInv, PaletteStep \/ execute
    PROVE  open' \in BOOLEAN /\ selectedIndex' \in -1 .. Cardinality(Ids) + Routes
<1>1. /\ Drawn \in Nat /\ Drawn <= Cardinality(Ids) + Routes
      /\ Cardinality(Ids) \in Nat /\ Routes \in Nat
  BY DrawnBound, ConstantTypes
<1>2. open \in BOOLEAN /\ selectedIndex \in -1 .. Cardinality(Ids) + Routes
  BY DEF RangeInv
<1>3. 0 \in -1 .. Cardinality(Ids) + Routes
  BY <1>1
<1>4. CASE toggle
  <2>1. open' \in BOOLEAN
    BY <1>4, Zenon DEF toggle
  <2>2. selectedIndex' \in {selectedIndex, 0}
    BY <1>4 DEF toggle
  <2> QED
    BY <1>2, <1>3, <2>1, <2>2
<1>5. CASE Dismiss \/ execute
  <2>1. open' \in BOOLEAN
    BY <1>5, Zenon DEF Dismiss, execute
  <2>2. selectedIndex' = selectedIndex
    BY <1>5 DEF Dismiss, execute
  <2> QED
    BY <1>2, <2>1, <2>2
<1>6. ASSUME NEW q \in Queries, setQuery(q)
      PROVE  open' \in BOOLEAN /\ selectedIndex' \in -1 .. Cardinality(Ids) + Routes
  BY <1>2, <1>3, <1>6 DEF setQuery
<1>7. ASSUME NEW i \in -1 .. Cardinality(Ids) + Routes, Select(i)
      PROVE  open' \in BOOLEAN /\ selectedIndex' \in -1 .. Cardinality(Ids) + Routes
  BY <1>2, <1>7 DEF Select
<1>8. ArrowDown \/ ArrowUp \/ MouseEnter => \E i \in -1 .. Cardinality(Ids) + Routes : Select(i)
  BY <1>1, <1>2 DEF ArrowDown, ArrowUp, MouseEnter
<1> QED
  BY <1>4, <1>5, <1>6, <1>7, <1>8 DEF PaletteStep

\* The steps on the list.
LEMMA ListStepRange ==
    ASSUME ListInv, RangeInv, TunnelsNext
    PROVE  onList' \in BOOLEAN /\ tagFilter' \in BOOLEAN /\ page' \in 0 .. Cardinality(Ids)
<1>1. onList \in BOOLEAN /\ tagFilter \in BOOLEAN /\ page \in 0 .. Cardinality(Ids)
  BY DEF RangeInv
<1>2. 0 \in 0 .. Cardinality(Ids)
  BY ConstantTypes
<1>3. CASE UNCHANGED <<onList, page, tagFilter>>
  BY <1>1, <1>3
<1>4. CASE NextPage
  BY <1>1, <1>4, NextPageBound DEF NextPage, Turn
<1>5. CASE PreviousPage
  <2>1. page > 0 /\ page' = page - 1 /\ UNCHANGED <<onList, tagFilter>>
    BY <1>5 DEF PreviousPage, Turn
  <2> QED
    BY <1>1, <2>1, ConstantTypes
<1>6. CASE handleTagFilter
  <2>1. tagFilter' \in BOOLEAN
    BY <1>6, Zenon DEF handleTagFilter
  <2> QED
    BY <1>1, <1>2, <1>6, <2>1 DEF handleTagFilter
<1>7. CASE BackToList
  <2>1. onList' \in BOOLEAN /\ tagFilter' \in BOOLEAN
    BY <1>7, Zenon DEF BackToList
  <2> QED
    BY <1>2, <1>7, <2>1 DEF BackToList
<1>8. CASE onList' = FALSE /\ UNCHANGED <<page, tagFilter>>
  <2>1. onList' \in BOOLEAN
    BY <1>8, Zenon
  <2> QED
    BY <1>1, <1>8, <2>1
<1> QED
  BY <1>3, <1>4, <1>5, <1>6, <1>7, <1>8 DEF TunnelsNext, Refetched, Follow

LEMMA RangeInvariance == BrowsingSpec => []RangeInv
<1>1. BrowsingInit => RangeInv
  <2> SUFFICES ASSUME BrowsingInit
               PROVE  RangeInv
    OBVIOUS
  <2>1. open \in BOOLEAN /\ onList \in BOOLEAN /\ tagFilter \in BOOLEAN
    BY Zenon DEF BrowsingInit, TunnelsInit, PaletteInit
  <2>2. selectedIndex = 0 /\ page = 0 /\ screen \in {"tunnels", "logs", "invoices"}
    BY DEF BrowsingInit, TunnelsInit, PaletteInit
  <2> QED
    BY <2>1, <2>2, ConstantTypes DEF RangeInv
<1>2. ListInv /\ PaletteInv /\ RangeInv /\ [BrowsingNext]_browsingVars => RangeInv'
  <2> SUFFICES ASSUME ListInv, PaletteInv, RangeInv, [BrowsingNext]_browsingVars
               PROVE  RangeInv'
    OBVIOUS
  <2>1. screen' = screen
    BY DEF BrowsingNext, browsingVars
  <2>2. CASE UNCHANGED tunnelVars
    BY <2>1, <2>2 DEF tunnelVars, RangeInv
  <2>3. CASE TunnelsNext
    <3>1. onList' \in BOOLEAN /\ tagFilter' \in BOOLEAN /\ page' \in 0 .. Cardinality(Ids)
      BY <2>3, ListStepRange
    <3>2. open' \in BOOLEAN /\ selectedIndex' \in -1 .. Cardinality(Ids) + Routes
      <4>1. CASE UNCHANGED paletteVars
        BY <4>1 DEF paletteVars, RangeInv
      <4>2. CASE PaletteStep \/ execute
        BY <4>2, PaletteStepRange
      <4>3. Refetched \/ NextPage \/ PreviousPage \/ handleTagFilter \/ BackToList
               => UNCHANGED paletteVars
        BY DEF Refetched, NextPage, PreviousPage, Turn, handleTagFilter, BackToList
      <4> QED
        BY <2>3, <4>1, <4>2, <4>3 DEF TunnelsNext, Follow
    <3> QED
      BY <2>1, <3>1, <3>2 DEF RangeInv
  <2> QED
    BY <2>2, <2>3 DEF BrowsingNext, browsingVars
<1> QED
  BY <1>1, <1>2, ListInvariance, PaletteInvariance, PTL DEF BrowsingSpec

\* Type correctness of all screens: whatever is fetched, typed and turned,
\* the page of Tunnels.tsx is one that the rows could fill, and the selection
\* of CommandPalette.tsx is at most one before the first result.
THEOREM BrowsingTypeCorrect == BrowsingSpec => []BrowsingTypeOK
<1>1. LogInv /\ InvoiceInv /\ PaletteInv /\ RangeInv => BrowsingTypeOK
  BY DEF LogInv, InvoiceInv, PaletteInv, RangeInv, BrowsingTypeOK
<1> QED
  BY <1>1, AdminInvariance, PaletteInvariance, RangeInvariance, PTL
=============================================================================
