----------------------------- MODULE MCDashboard -----------------------------
(* The session of the tab and its browsing screens.  They share nothing,    *)
(* so a behaviour is about one of them, and the other one rests: nobody is  *)
(* signed in, or nothing is listed.                                         *)
EXTENDS WebSession, Browsing

VARIABLE part    \* what this behaviour is about

dashboardVars == <<part, sessionVars, browsingVars>>

DashboardInit ==
    /\ part \in {"session", "browsing"}
    /\ SessionInit /\ BrowsingInit
    /\ part = "session" \/ refresh = NoToken
    /\ part = "browsing" \/ (screen = "tunnels" /\ rows = {})

\* Bound: the queries of the audit log under way at a time.
MaxAsked == 2

DashboardNext ==
    /\ UNCHANGED part
    /\ \/ part = "session" /\ SessionNext /\ UNCHANGED browsingVars
       \/ part = "browsing" /\ BrowsingNext /\ UNCHANGED sessionVars
    /\ Cardinality(asked') <= MaxAsked

\* Nothing that is fair is enabled in a session at rest.
DashboardSpec == DashboardInit /\ [][DashboardNext]_dashboardVars /\ SessionFairness
=============================================================================
