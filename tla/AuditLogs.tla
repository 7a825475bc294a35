----------------------------- MODULE AuditLogs ------------------------------
(***************************************************************************)
(* The audit log of the admin console (admin/src/pages/AuditLogs.tsx): the *)
(* server cuts it into pages, and every filter and page is a query of its  *)
(* own in the query cache.  How far the user may turn is decided by the    *)
(* total that came with the page on the screen, which may be an old one.   *)
(* The server only adds entries (audit/logger.go); nothing in it deletes   *)
(* any, whatever the retention settings say.                               *)
(*                                                                         *)
(* Two settings of the six filters are told apart: one that lets every     *)
(* entry through ("all") and one that some entries match ("some").         *)
(***************************************************************************)
EXTENDS Naturals

CONSTANTS limit,     \* entries on a page
          MaxLogs,   \* bound: entries on the server
          Unknown

ASSUME LogAssumption == limit \in Nat \ {0} /\ MaxLogs \in Nat

VARIABLES
    logs,      \* entries on the server that each setting lets through
    filters,
    logPage,
    totals,    \* the query cache: the total that came with each page, if any
    asked,     \* the queries under way
    counted    \* the total the server has counted for each of them, if it has

logVars == <<logs, filters, logPage, totals, asked, counted>>

Settings == {"all", "some"}
Keys == Settings \X (0 .. MaxLogs)
Key == <<filters, logPage>>

Ceil(n, d) == (n + d - 1) \div d
totalPages == IF totals[Key] = Unknown THEN 0 ELSE Ceil(totals[Key], limit)

LogInit ==
    /\ logs \in {l \in [Settings -> 0 .. MaxLogs] : l["some"] <= l["all"]}
    /\ filters = "all" /\ logPage = 0
    /\ totals = [k \in Keys |-> Unknown]
    /\ asked = {Key}
    /\ counted = [k \in Keys |-> Unknown]

\* Logger.Log: an entry, which may be let through by both settings.
Logged ==
    /\ logs["all"] < MaxLogs
    /\ \E n \in {0, 1} : logs' = [logs EXCEPT !["all"] = @ + 1, !["some"] = @ + n]
    /\ UNCHANGED <<filters, logPage, totals, asked, counted>>

\* handleAdminAuditLogs counts the entries, and reports 0 when it cannot.
LogsCounted(k) ==
    /\ k \in asked /\ counted[k] = Unknown
    /\ \E n \in {logs[k[1]], 0} : counted' = [counted EXCEPT ![k] = n]
    /\ UNCHANGED <<logs, filters, logPage, totals, asked>>

\* logsQuery: an answer is kept with the filter and page it was asked for,
\* whatever is on the screen by then.
LogsAnswered(k) ==
    /\ k \in asked /\ counted[k] # Unknown
    /\ totals' = [totals EXCEPT ![k] = counted[k]]
    /\ asked' = asked \ {k}
    /\ counted' = [counted EXCEPT ![k] = Unknown]
    /\ UNCHANGED <<logs, filters, logPage>>

\* It fails; an error hides what the query knew until it is read again.
LogsFail(k) ==
    /\ k \in asked
    /\ totals' = [totals EXCEPT ![k] = Unknown]
    /\ asked' = asked \ {k}
    /\ counted' = [counted EXCEPT ![k] = Unknown]
    /\ UNCHANGED <<logs, filters, logPage>>

\* Retry, which replaces a query under way, or the window is entered again,
\* which does not.
AskAgain ==
    /\ asked' = asked \cup {Key}
    /\ counted' \in {counted, [counted EXCEPT ![Key] = Unknown]}
    /\ UNCHANGED <<logs, filters, logPage, totals>>

\* Another query is on the screen; what is known of it may be old enough to
\* be asked for again.
ShowLogs(f, n) ==
    /\ filters' = f /\ logPage' = n
    /\ \/ asked' = asked \cup {<<f, n>>}
       \/ totals[<<f, n>>] # Unknown /\ UNCHANGED asked
    /\ UNCHANGED <<logs, totals, counted>>

handleFilterChangeInPlace == \E f \in Settings : ShowLogs(f, logPage)    \* mutant
handleFilterChange == \E f \in Settings : ShowLogs(f, 0)

\* The bar is there only if one page is not enough.
NextLogs == totalPages > 1 /\ logPage < totalPages - 1 /\ ShowLogs(filters, logPage + 1)
PreviousLogs == totalPages > 1 /\ logPage > 0 /\ ShowLogs(filters, logPage - 1)

LogNext ==
    \/ Logged
    \/ \E k \in asked : LogsCounted(k) \/ LogsAnswered(k) \/ LogsFail(k)
    \/ AskAgain
    \/ handleFilterChange \/ NextLogs \/ PreviousLogs

(***************************************************************************)
(* Properties.                                                             *)
(***************************************************************************)
LogTypeOK ==
    /\ logs \in [Settings -> 0 .. MaxLogs]
    /\ filters \in Settings /\ logPage \in 0 .. MaxLogs
    /\ totals \in [Keys -> (0 .. MaxLogs) \cup {Unknown}]
    /\ asked \subseteq Keys
    /\ counted \in [Keys -> (0 .. MaxLogs) \cup {Unknown}]

\* The user never gets to a page the server has no entries for, however old
\* the totals are that pages were turned by, and in whatever order answers
\* arrive: handleFilterChange starts at the first page, and a total is kept
\* with its own filter.
LogPageExists == logPage = 0 \/ logPage * limit < logs[filters]
=============================================================================
