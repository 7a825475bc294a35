------------------------------ MODULE ListPage ------------------------------
(***************************************************************************)
(* What the pages of the dashboard (web/src) and of the admin console      *)
(* (admin/src) have in common: a list of rows on the server, the query     *)
(* cache that holds a copy of it, buttons and forms that make calls, and   *)
(* mounting and unmounting while calls are under way.  The query cache and *)
(* the mutations are TanStack Query's (external), used the way the pages   *)
(* use them: useQuery, useMutation, invalidateQueries and refetch.         *)
(*                                                                         *)
(* A page is a table of its calls, forms and buttons (Pages); a behaviour  *)
(* is about one page, chosen by Init.                                      *)
(***************************************************************************)
EXTENDS Naturals, FiniteSets, WebPages, AdminPages

CONSTANTS Ids,        \* names of rows
          MaxCalls,   \* bound: calls under way at a time
          None

ASSUME BoundAssumption == MaxCalls \in Nat

VARIABLES
    page,     \* the page this behaviour is about
    shown,    \* it is mounted
    open,     \* its forms and dialogs that are open, with the row each is about
    server,   \* the rows the server has
    cache,    \* the query of the page's rows
    calls,    \* calls[i]: a call of apiRequest that changes something
    missed    \* the rows were changed in a way the page could not learn of

listVars == <<page, shown, open, server, cache, calls, missed>>

Bare(p) == [p EXCEPT !.lists = FALSE]
Inline(p) == [p EXCEPT !.covers = FALSE]
NoRetry(p) == [p EXCEPT !.retries = FALSE]
NoError(p) == [p EXCEPT !.hides = FALSE, !.retries = FALSE]
StartsWith(p, form) == [p EXCEPT !.starts = {form}]

\* The routes of App.tsx, with the tabs of the settings.
Pages ==
    [tunnels       |-> Page(TunnelsCalls, TunnelsForms, TunnelsRows),
     tunnel        |-> Page(TunnelDetailCalls, TunnelDetailForms, TunnelDetailButtons),
     domains       |-> Page(DomainsCalls, DomainsForms, DomainsRows),
     networks      |-> Page(NetworksCalls, NetworksForms, NoButtons),
     network       |-> Page(NetworkDetailCalls, NetworkDetailForms, NoButtons),
     invite        |-> NoError(Page(InviteCalls, NoForms, InviteButtons)),
     security      |-> Bare(Page(SecurityCalls, NoForms, NoButtons)),
     apikeys       |-> Page(ApiKeysCalls, ApiKeysForms, NoButtons),
     members       |-> NoError(Page(MembersCalls, NoForms, MembersButtons)),
     sessions      |-> NoRetry(Page(SessionsCalls, SessionsForms, NoButtons)),
     billing       |-> NoError(Page(BillingCalls, NoForms, BillingPlans)),
     forgot        |-> StartsWith(Bare(Page(ForgotCalls, ForgotForm, NoButtons)), "forgot"),
     reset         |-> StartsWith(Bare(Page(ResetCalls, ResetForm, NoButtons)), "reset"),
     onboarding    |-> Bare(Page(OnboardingCalls, NoForms, NoButtons)),
     announcements |-> Inline(Page(AnnouncementsCalls, AnnouncementsForm, AnnouncementsRows)),
     discounts     |-> Inline(Page(DiscountsCalls, DiscountsForm, DiscountsRows)),
     whitelist     |-> Page(WhitelistCalls, NoForms, WhitelistButtons),
     retention     |-> Page(RetentionCalls, NoForms, RetentionButtons),
     pricing       |-> Inline(Page(PricingCalls, PricingForm, NoButtons)),
     reports       |-> Page(ReportsCalls, NoForms, ReportsButtons),
     roles         |-> Bare(Page(RolesCalls, RolesForm, RolesRows)),
     certificates  |-> Page(CertificatesCalls, NoForms, CertificatesRows),
     invoices      |-> Page(InvoicesCalls, NoForms, InvoicesRows)]

Table == Pages[page]

(***************************************************************************)
(* A row exists or not, and is in one of two conditions (a tunnel is       *)
(* active, a domain verified, an invoice settled, ...).                    *)
(***************************************************************************)
Row == [here : BOOLEAN, on : BOOLEAN]
NoRow == [here |-> FALSE, on |-> FALSE]
NewRow == [here |-> TRUE, on |-> FALSE]
Rows == [Ids -> Row]

Having(rows) == {x \in Ids : rows[x].here}
Turned(rows, xs, v) == [x \in Ids |-> IF x \in xs /\ rows[x].here
                                      THEN [rows[x] EXCEPT !.on = v] ELSE rows[x]]

\* What a call that does this to the rows xs may leave on the server.  The
\* handlers go through the rows of a batch one by one and skip what they
\* cannot change, and some answer without a change (handleStartTunnel).
Results(does, xs) ==
    CASE does = "add"    -> {[server EXCEPT ![x] = NewRow] : x \in Ids \ Having(server)}
      [] does = "remove" -> {[x \in Ids |-> IF x \in ys THEN NoRow ELSE server[x]] : ys \in SUBSET xs}
      [] does = "on"     -> {Turned(server, ys, TRUE) : ys \in SUBSET xs}
      [] does = "off"    -> {Turned(server, ys, FALSE) : ys \in SUBSET xs}
      [] does = "put"    -> {[x \in Ids |-> [server[x] EXCEPT !.on = x \in xs /\ server[x].here]]}
      [] does = "keep"   -> {server}

(***************************************************************************)
(* The query cache.  fetch is "idle", "sent" (the server has not read the  *)
(* rows yet) or "read" (got is on its way back).                           *)
(***************************************************************************)
Query == [data : Rows \cup {None}, got : Rows \cup {None},
          fetch : {"idle", "sent", "read"}, fresh : BOOLEAN, failed : BOOLEAN]

NoData == [data |-> None, got |-> None, fetch |-> "idle", fresh |-> FALSE, failed |-> FALSE]

\* A fetch starts.  One that is under way is cancelled and made again,
\* except the very first, which is joined instead.
Refetch(q) ==
    IF q.fetch # "idle" /\ q.data = None
    THEN q
    ELSE [q EXCEPT !.fetch = "sent", !.got = None, !.failed = @ /\ q.data # None]

\* invalidateQueries: stale, and fetched again at once if on the screen.
Invalidated(q) ==
    IF shown THEN Refetch([q EXCEPT !.fresh = FALSE]) ELSE [q EXCEPT !.fresh = FALSE]

\* Rows that were read before a change are on their way, and the
\* invalidation does not stop them: the page is away, or it is the first
\* fetch.
Overtaken == cache.fetch = "read" /\ (~shown \/ cache.data = None)

FetchRead ==
    /\ cache.fetch = "sent"
    /\ cache' = [cache EXCEPT !.fetch = "read", !.got = server]
    /\ missed' = FALSE
    /\ UNCHANGED <<page, shown, open, server, calls>>

FetchDone ==
    /\ cache.fetch = "read"
    /\ cache' = [data |-> cache.got, got |-> None, fetch |-> "idle",
                 fresh |-> TRUE, failed |-> FALSE]
    /\ UNCHANGED <<page, shown, open, server, calls, missed>>

\* The fetch and its one retry have failed.
FetchFails ==
    /\ cache.fetch # "idle"
    /\ cache' = [cache EXCEPT !.fetch = "idle", !.got = None, !.fresh = FALSE, !.failed = TRUE]
    /\ UNCHANGED <<page, shown, open, server, calls, missed>>

\* The rows a page shows: none before the first fetch is done, and on most
\* pages none but an error after a failure.
Listed == IF cache.data = None \/ (cache.failed /\ Table.hides) THEN {}
          ELSE Having(cache.data)
ListedIn(on) == {x \in Listed : cache.data[x].on \in on}

\* The retry button of a list that failed to load.
Retry ==
    /\ shown /\ cache.failed /\ Table.retries
    /\ cache' = Refetch(cache)
    /\ UNCHANGED <<page, shown, open, server, calls, missed>>

(***************************************************************************)
(* Calls.  A call is sent and then done by the server; live: its page has  *)
(* been mounted ever since; held: it is the latest of its mutation, the    *)
(* one isPending is about.                                                 *)
(***************************************************************************)
NoCall == [op |-> "none", xs |-> {}, phase |-> "idle", live |-> FALSE, held |-> FALSE]
Slots == 1..MaxCalls            \* oldest call first
Busy == {i \in Slots : calls[i] # NoCall}
By(i) == Table.calls[calls[i].op].by

\* isPending of a mutation
Pending(m) == \E i \in Busy : By(i) = m /\ calls[i].held

Submit(op, xs) ==
    \E i \in Slots \ Busy :
        /\ \A j \in Slots \ Busy : i <= j
        /\ calls' = [j \in Slots |->
               IF j = i
               THEN [op |-> op, xs |-> xs, phase |-> "sent", live |-> TRUE, held |-> TRUE]
               ELSE IF j \in Busy /\ By(j) = Table.calls[op].by
               THEN [calls[j] EXCEPT !.held = FALSE]
               ELSE calls[j]]

\* The calls without one that has been answered.
Others(i) == [j \in Slots |-> IF j < i THEN calls[j]
                              ELSE IF j < MaxCalls THEN calls[j + 1] ELSE NoCall]
LeftBehind(cs) == [i \in Slots |-> [cs[i] EXCEPT !.live = FALSE, !.held = FALSE]]

Ended(i) == calls' = Others(i)

Outcomes(i) == Results(Table.calls[calls[i].op].does, calls[i].xs)

\* A handler of the server carries the call out.
Served(i) ==
    /\ calls[i].phase = "sent"
    /\ server' \in Outcomes(i)
    /\ calls' = [calls EXCEPT ![i].phase = "done"]
    /\ UNCHANGED <<page, shown, open, cache, missed>>

\* onSuccess.  The list is invalidated even when the page is gone; forms are
\* closed and opened only if it is not.
Succeeded(i) ==
    LET c == Table.calls[calls[i].op]
    IN  /\ calls[i].phase = "done"
        /\ Ended(i)
        /\ open' = IF calls[i].live
                   THEN {o \in open : o.form \notin c.closes}
                        \cup {[form |-> f, row |-> None] : f \in c.opens}
                   ELSE open
        /\ cache' = IF c.reads THEN Invalidated(cache) ELSE cache
        /\ missed' = (missed \/ (c.reads /\ Overtaken))
        /\ UNCHANGED <<page, shown, server>>

\* The call is refused, or its answer is lost although the server has
\* carried it out.  The form stays open; the page shows the error.
Failed(i) ==
    /\ calls[i].phase = "sent"
    /\ \/ UNCHANGED <<server, missed>>
       \/ server' \in Outcomes(i) /\ missed' = TRUE
    /\ Ended(i)
    /\ UNCHANGED <<page, shown, open, cache>>

(***************************************************************************)
(* The user.                                                               *)
(***************************************************************************)
Reachable == shown /\ (Table.covers => open = {})
Enabled(waits) == \A m \in waits : ~Pending(m)

\* Opening a form again from elsewhere gives it the new row.
OpenForm(f) ==
    /\ Reachable
    /\ \E x \in ListedIn(Table.forms[f].on)
              \cup IF Table.forms[f].new = "none" THEN {} ELSE {None} :
          open' = {o \in open : o.form # f} \cup {[form |-> f, row |-> x]}
    /\ UNCHANGED <<page, shown, server, cache, calls, missed>>

CloseForm(o) ==
    /\ shown /\ o.form \notin Table.starts
    /\ open' = open \ {o}
    /\ UNCHANGED <<page, shown, server, cache, calls, missed>>

\* The rows a call about x names; a "put" sends the condition of all rows,
\* as they were last read, with that of x changed.
Sent(op, x) ==
    LET on == ListedIn({TRUE})
    IN  IF x = None THEN {}
        ELSE IF Table.calls[op].does # "put" THEN {x}
        ELSE IF x \in on THEN on \ {x} ELSE on \cup {x}

SubmitForm(o) ==
    LET f == Table.forms[o.form]
        op == IF o.row = None THEN f.new ELSE f.old
    IN  /\ shown /\ Enabled(f.waits) /\ op # "none"
        /\ Submit(op, Sent(op, o.row))
        /\ UNCHANGED <<page, shown, open, server, cache, missed>>

There(when) ==
    CASE when = "always" -> TRUE
      [] when = "loaded" -> cache.data # None
      [] when = "empty"  -> Listed = {} /\ (cache.fetch = "idle" \/ cache.data # None)

Press(op) ==
    LET b == Table.buttons[op]
    IN  /\ Reachable /\ Enabled(b.waits) /\ There(b.when)
        /\ \/ b.on = {} /\ Submit(op, {})
           \/ \E x \in ListedIn(b.on) : Submit(op, {x})
        /\ UNCHANGED <<page, shown, open, server, cache, missed>>

(***************************************************************************)
(* Mounting: rows that are missing or stale are fetched, and fresh ones    *)
(* too once they are older than staleTime.                                 *)
(***************************************************************************)
Starting(p) == {[form |-> f, row |-> None] : f \in Pages[p].starts}

Mount ==
    /\ ~shown
    /\ shown' = TRUE
    /\ open' = Starting(page)
    /\ \/ Table.lists /\ cache.fetch = "idle" /\ cache' = Refetch(cache)
       \/ (cache.fresh \/ cache.fetch # "idle" \/ ~Table.lists) /\ cache' = cache
    /\ UNCHANGED <<page, server, calls, missed>>

Leave ==
    /\ shown
    /\ shown' = FALSE
    /\ open' = {}
    /\ calls' = LeftBehind(calls)
    /\ UNCHANGED <<page, server, cache, missed>>

ListInit(p, rows) ==
    /\ page = p /\ shown = FALSE /\ open = {}
    /\ server = rows
    /\ cache = NoData
    /\ calls = [i \in Slots |-> NoCall]
    /\ missed = FALSE

Fetching == FetchRead \/ FetchDone \/ FetchFails \/ Retry
Asking == \/ \E f \in DOMAIN Table.forms : OpenForm(f)
          \/ \E o \in open : SubmitForm(o)
          \/ \E op \in DOMAIN Table.buttons : Press(op)
=============================================================================
