------------------------------ MODULE Browsing ------------------------------
(***************************************************************************)
(* What a user of the dashboard sees of the cached tunnels: the list of    *)
(* Tunnels.tsx, cut into pages and filtered by a tag, and the command      *)
(* palette over it, which leads away from the list.  The cached rows       *)
(* change under both whenever the query is fetched again.                  *)
(*                                                                         *)
(* On the admin console, likewise: the pages of the audit log, and the     *)
(* details of an invoice.  The screens share nothing, so a behaviour is    *)
(* about one of them, chosen by Init.                                      *)
(***************************************************************************)
EXTENDS CommandPalette, AuditLogs, InvoiceDetails

CONSTANTS Tagged,      \* the rows with the tag one may filter by
          PAGE_SIZE

ASSUME PageAssumption == Tagged \subseteq Ids /\ PAGE_SIZE \in Nat \ {0}

VARIABLES
    screen,      \* what this behaviour is about
    onList,      \* Tunnels.tsx is mounted
    page,
    tagFilter    \* the list is filtered by the tag

tunnelVars == <<rows, open, query, selectedIndex, drawn, onList, page, tagFilter>>
browsingVars == <<screen, tunnelVars, logVars, invoiceVars>>

filteredTunnels == IF tagFilter THEN rows \cap Tagged ELSE rows
Count == Cardinality(filteredTunnels)
hasMore == (page + 1) * PAGE_SIZE < Count

TunnelsInit ==
    /\ rows \in SUBSET Ids
    /\ PaletteInit
    /\ onList = TRUE /\ page = 0 /\ tagFilter = FALSE

\* The query is fetched again.
Refetched ==
    /\ rows' \in SUBSET Ids
    /\ UNCHANGED <<paletteVars, onList, page, tagFilter>>

\* The bar below the list is there only if one page is not enough.
Turn(n) ==
    /\ onList /\ ~open /\ Count > PAGE_SIZE
    /\ page' = n
    /\ UNCHANGED <<rows, paletteVars, onList, tagFilter>>

NextPage == hasMore /\ Turn(page + 1)
PreviousPageAlways == Turn(page - 1)    \* mutant
PreviousPage == page > 0 /\ Turn(page - 1)

\* Mutant: the page stays.
handleTagFilterInPlace ==
    /\ onList /\ ~open
    /\ tagFilter' = ~tagFilter
    /\ UNCHANGED <<rows, paletteVars, onList, page>>

handleTagFilter ==
    /\ onList /\ ~open
    /\ tagFilter' = ~tagFilter
    /\ page' = 0
    /\ UNCHANGED <<rows, paletteVars, onList>>

\* execute leads to another page, except for a link that leads nowhere,
\* which only a query lists.
Follow ==
    /\ execute
    /\ \/ onList' = FALSE /\ UNCHANGED <<page, tagFilter>>
       \/ query # "nothing" /\ UNCHANGED <<onList, page, tagFilter>>
    /\ UNCHANGED rows

\* Back to the list, which is mounted anew.
BackToList ==
    /\ ~onList /\ ~open
    /\ onList' = TRUE /\ page' = 0 /\ tagFilter' = FALSE
    /\ UNCHANGED <<rows, paletteVars>>

TunnelsNext ==
    \/ Refetched
    \/ NextPage \/ PreviousPage \/ handleTagFilter
    \/ PaletteStep /\ UNCHANGED <<rows, onList, page, tagFilter>>
    \/ Follow \/ BackToList

(***************************************************************************)
(* The composition.                                                        *)
(***************************************************************************)
Starting(s) ==
    /\ s = "tunnels" \/ rows = {}
    /\ s = "logs" \/ \A f \in Settings : logs[f] = 0
    /\ s = "invoices" \/ listed = {}

BrowsingInit ==
    /\ screen \in {"tunnels", "logs", "invoices"}
    /\ TunnelsInit /\ LogInit /\ InvoiceInit
    /\ Starting(screen)

BrowsingNext ==
    /\ UNCHANGED screen
    /\ \/ screen = "tunnels" /\ TunnelsNext /\ UNCHANGED <<logVars, invoiceVars>>
       \/ screen = "logs" /\ LogNext /\ UNCHANGED <<tunnelVars, invoiceVars>>
       \/ screen = "invoices" /\ InvoiceNext /\ UNCHANGED <<tunnelVars, logVars>>

BrowsingSpec == BrowsingInit /\ [][BrowsingNext]_browsingVars

(***************************************************************************)
(* Properties.                                                             *)
(***************************************************************************)
\* The page is a page, and the selection at most one before the first
\* result.
BrowsingTypeOK ==
    /\ screen \in {"tunnels", "logs", "invoices"}
    /\ LogTypeOK /\ InvoiceTypeOK
    /\ rows \in SUBSET Ids /\ drawn \in SUBSET Ids
    /\ open \in BOOLEAN /\ onList \in BOOLEAN /\ tagFilter \in BOOLEAN
    /\ query \in Queries
    /\ selectedIndex \in -1 .. Cardinality(Ids) + Routes
    /\ page \in 0 .. Cardinality(Ids)

\* The page has rows, or it is the first one.
OnAPage == page = 0 \/ page * PAGE_SIZE < Count

\* Nothing the user does leads to a page past the last row (a filter starts
\* at the first page): only rows that go away can leave the list on an empty
\* page.  (They can: the bar is then missing too once the rest fits on one.)
PageStays == [][OnAPage /\ rows \subseteq rows' => OnAPage']_browsingVars
=============================================================================
