--------------------------- MODULE InvoiceDetails ---------------------------
(***************************************************************************)
(* The details of an invoice on the admin console                          *)
(* (admin/src/pages/Invoices.tsx): one row of the list may be expanded,    *)
(* and its details are read by a call of their own (loadDetail), which     *)
(* nothing cancels when another row is expanded.                           *)
(***************************************************************************)
EXTENDS Naturals

CONSTANTS Invoices,   \* ids
          MaxLoads,   \* bound: calls for one invoice under way at a time
          None

ASSUME InvoiceAssumption == None \notin Invoices /\ MaxLoads \in Nat

VARIABLES
    listed,          \* the invoices on the screen (search, filter, fetches)
    expandedId,
    detailData,      \* the invoice whose details are kept, or None
    detailLoading,
    loads,           \* loads[x]: calls for x of this mounted page under way
    settling,        \* markPaid and void under way
    overlapping      \* another invoice was being read when this one was expanded

invoiceVars ==
    <<listed, expandedId, detailData, detailLoading, loads, settling, overlapping>>

Unexpanded ==
    /\ expandedId' = None /\ detailData' = None

InvoiceInit ==
    /\ listed \in SUBSET Invoices
    /\ expandedId = None /\ detailData = None /\ detailLoading = FALSE
    /\ loads = [x \in Invoices |-> 0]
    /\ settling = [x \in Invoices |-> 0]
    /\ overlapping = FALSE

\* Another search or filter, or the list is fetched again.
ListInvoices ==
    /\ listed' \in SUBSET Invoices
    /\ UNCHANGED <<expandedId, detailData, detailLoading, loads, settling, overlapping>>

\* loadDetail on the row that is expanded
Collapse(x) ==
    /\ x \in listed /\ expandedId = x
    /\ Unexpanded
    /\ UNCHANGED <<listed, detailLoading, loads, settling, overlapping>>

\* Mutant: the details of the last invoice stay on the screen.
loadDetailInPlace(x) ==
    /\ x \in listed /\ expandedId # x /\ loads[x] < MaxLoads
    /\ expandedId' = x
    /\ loads' = [loads EXCEPT ![x] = @ + 1]
    /\ overlapping' = \E y \in Invoices \ {x} : loads[y] > 0
    /\ UNCHANGED <<listed, detailData, detailLoading, settling>>

\* loadDetail up to its await
loadDetail(x) ==
    /\ x \in listed /\ expandedId # x /\ loads[x] < MaxLoads
    /\ expandedId' = x
    /\ detailLoading' = TRUE
    /\ loads' = [loads EXCEPT ![x] = @ + 1]
    /\ overlapping' = \E y \in Invoices \ {x} : loads[y] > 0
    /\ UNCHANGED <<listed, detailData, settling>>

\* and after it: success or catch, and finally.
DetailAnswered(x) ==
    /\ loads[x] > 0
    /\ detailData' \in {x, None}
    /\ detailLoading' = FALSE
    /\ loads' = [loads EXCEPT ![x] = @ - 1]
    /\ UNCHANGED <<listed, expandedId, settling, overlapping>>

\* markPaid and void, which are not disabled while one is under way.
Settle(x) ==
    /\ x \in listed /\ settling[x] < MaxLoads
    /\ settling' = [settling EXCEPT ![x] = @ + 1]
    /\ UNCHANGED <<listed, expandedId, detailData, detailLoading, loads, overlapping>>

\* onSuccess collapses whatever is expanded; a failure leaves it.
Settled(x) ==
    /\ settling[x] > 0
    /\ settling' = [settling EXCEPT ![x] = @ - 1]
    /\ \/ Unexpanded
       \/ UNCHANGED <<expandedId, detailData>>
    /\ UNCHANGED <<listed, detailLoading, loads, overlapping>>

\* The page is left and opened again: calls of the old one change nothing.
Reopen ==
    /\ Unexpanded /\ detailLoading' = FALSE
    /\ loads' = [x \in Invoices |-> 0]
    /\ settling' = [x \in Invoices |-> 0]
    /\ overlapping' = FALSE
    /\ UNCHANGED listed

InvoiceNext ==
    \/ ListInvoices \/ Reopen
    \/ \E x \in Invoices :
          \/ Collapse(x) \/ loadDetail(x) \/ DetailAnswered(x)
          \/ Settle(x) \/ Settled(x)

(***************************************************************************)
(* Properties.                                                             *)
(***************************************************************************)
InvoiceTypeOK ==
    /\ listed \subseteq Invoices
    /\ expandedId \in Invoices \cup {None}
    /\ detailData \in Invoices \cup {None}
    /\ detailLoading \in BOOLEAN /\ overlapping \in BOOLEAN
    /\ loads \in [Invoices -> 0 .. MaxLoads]
    /\ settling \in [Invoices -> 0 .. MaxLoads]

\* The details below an invoice are its own, whatever was collapsed, paid or
\* answered late before it was expanded, unless another invoice was still
\* being read then (its answer may come last, and stays); and the page is
\* loading only while an answer is to come.
DetailIsOfExpanded ==
    /\ expandedId # None /\ ~detailLoading /\ ~overlapping => detailData \in {expandedId, None}
    /\ detailLoading => \E x \in Invoices : loads[x] > 0
=============================================================================
