------------------------------ MODULE Console -------------------------------
(***************************************************************************)
(* The dashboard and the admin console: every page of WebPages and         *)
(* AdminPages on the actions of ListPage, with what three pages keep       *)
(* besides their list: the selection and the batch operations of           *)
(* Tunnels.tsx, the new key of the API keys tab of Settings.tsx, and the   *)
(* steps of Onboarding.tsx; and with two pages that read without the query *)
(* cache, Roles.tsx and the security tab of Settings.tsx.                  *)
(***************************************************************************)
EXTENDS ListPage

VARIABLE own      \* the state the page keeps besides (None on most pages)

consoleVars == <<page, shown, open, server, cache, calls, missed, own>>

\* useState of the page's own state
Fresh(p) ==
    CASE p = "tunnels"    -> [selected |-> {}, batchProcessing |-> FALSE]
      [] p = "apikeys"    -> [createdKey |-> FALSE]
      [] p = "security"   -> [secret |-> FALSE]
      [] p = "onboarding" -> [step |-> 1, org |-> FALSE, createdTunnel |-> FALSE]
      [] OTHER            -> None

\* Before the page is opened for the first time; the account that the
\* security tab is about exists.
ConsoleInit ==
    /\ \E p \in DOMAIN Pages : \E rows \in {[x \in Ids |-> NoRow], [x \in Ids |-> NewRow]} :
          ListInit(p, rows)
    /\ page = "security" => Having(server) = Ids
    /\ own = None

(***************************************************************************)
(* Tunnels.tsx: selecting rows, and starting, stopping or deleting the     *)
(* selected ones together.                                                 *)
(***************************************************************************)
OnList == page = "tunnels" /\ Reachable

toggleSelect ==
    /\ OnList
    /\ \E x \in Listed :
          own' = [own EXCEPT !.selected = IF x \in @ THEN @ \ {x} ELSE @ \cup {x}]
    /\ UNCHANGED listVars

toggleSelectAll ==
    /\ OnList
    /\ own' = [own EXCEPT !.selected = IF Listed # {} /\ Listed \subseteq @ THEN {} ELSE Listed]
    /\ UNCHANGED listVars

clearSelection ==
    /\ OnList /\ own.selected # {}
    /\ own' = [own EXCEPT !.selected = {}]
    /\ UNCHANGED listVars

\* handleBatchStart and handleBatchStop
handleBatch(op) ==
    /\ OnList /\ own.selected # {} /\ ~own.batchProcessing
    /\ Submit(op, own.selected)
    /\ own' = [own EXCEPT !.batchProcessing = TRUE]
    /\ UNCHANGED <<page, shown, open, server, cache, missed>>

\* The dialog keeps the selection it was opened with.
AskBatchDelete ==
    /\ OnList /\ own.selected # {} /\ ~own.batchProcessing
    /\ open' = {[form |-> "batch", row |-> own.selected]}
    /\ UNCHANGED <<page, shown, server, cache, calls, missed, own>>

handleBatchDelete ==
    /\ page = "tunnels" /\ shown /\ ~own.batchProcessing
    /\ \E o \in open : o.form = "batch" /\ Submit("batchDelete", o.row)
    /\ own' = [own EXCEPT !.batchProcessing = TRUE]
    /\ UNCHANGED <<page, shown, open, server, cache, missed>>

IsBatch(i) == calls[i].op \in {"batchStart", "batchStop", "batchDelete"}

\* The end of the three handlers.  Success clears the selection and fetches
\* the list, even when the page is gone; batchProcessing ends either way.
BatchSucceeded(i) ==
    /\ IsBatch(i) /\ calls[i].phase = "done"
    /\ Ended(i)
    /\ open' = IF calls[i].live THEN {o \in open : o.form \notin Table.calls[calls[i].op].closes}
               ELSE open
    /\ cache' = Refetch(cache)
    /\ missed' = (missed \/ (cache.fetch = "read" /\ cache.data = None))
    /\ own' = IF calls[i].live
              THEN [own EXCEPT !.selected = {}, !.batchProcessing = FALSE]
              ELSE own
    /\ UNCHANGED <<page, shown, server>>

\* Mutant: the buttons stay disabled.
BatchFailedBusy(i) ==
    /\ IsBatch(i)
    /\ Failed(i)
    /\ UNCHANGED own

BatchFailed(i) ==
    /\ IsBatch(i)
    /\ Failed(i)
    /\ own' = IF calls[i].live THEN [own EXCEPT !.batchProcessing = FALSE] ELSE own

(***************************************************************************)
(* The API keys tab: the answer to a creation carries the key, which is    *)
(* kept until the dialog that shows it is closed.                          *)
(***************************************************************************)
KeyDialog == [form |-> "create", row |-> None]

KeyCreated(i) ==
    /\ page = "apikeys" /\ calls[i].op = "create"
    /\ Succeeded(i)
    /\ own' = IF calls[i].live THEN [own EXCEPT !.createdKey = TRUE] ELSE own

\* Once there is a key, the dialog shows it in place of the form.  (The
\* mutant shows the form as well.)
KeyAndForm == FALSE
KeyInsteadOfForm == page = "apikeys" /\ KeyDialog \in open /\ own.createdKey

\* Done, Escape or a click outside; Cancel, which the form has, keeps the key.
CloseKeyDialog ==
    /\ page = "apikeys" /\ KeyDialog \in open
    /\ CloseForm(KeyDialog)
    /\ \/ own' = [own EXCEPT !.createdKey = FALSE]
       \/ ~own.createdKey /\ UNCHANGED own

(***************************************************************************)
(* Onboarding.tsx: five steps.                                             *)
(***************************************************************************)
STEPS == 5
OnStep(n) == page = "onboarding" /\ shown /\ own.step = n

nextStepUncapped == own.step + 1    \* mutant
nextStep == IF own.step < STEPS THEN own.step + 1 ELSE STEPS
prevStep == IF own.step > 1 THEN own.step - 1 ELSE 1

\* The buttons under the step; Back is there while a call is under way too.
\* (The mutant lets the user go on without a tunnel.)
WizardNextAnyway ==
    /\ OnStep(1) \/ OnStep(3) \/ OnStep(4)
    /\ own' = [own EXCEPT !.step = nextStep]
    /\ UNCHANGED listVars

WizardNext ==
    /\ OnStep(1) \/ OnStep(3) \/ (OnStep(4) /\ own.createdTunnel)
    /\ own' = [own EXCEPT !.step = nextStep]
    /\ UNCHANGED listVars

WizardBack ==
    /\ \E n \in 2..4 : OnStep(n)
    /\ own' = [own EXCEPT !.step = prevStep]
    /\ UNCHANGED listVars

\* handleCreateOrg, handleCreateTunnel up to their await
WizardSubmit ==
    /\ \/ OnStep(2) /\ ~Pending("org") /\ Submit("org", {})
       \/ OnStep(4) /\ ~Pending("tunnel") /\ Submit("tunnel", {})
    /\ UNCHANGED <<page, shown, open, server, cache, missed, own>>

\* and after it: the step that follows the one on the screen now.
handleCreateOrg(i) ==
    /\ page = "onboarding" /\ calls[i].op = "org"
    /\ Succeeded(i)
    /\ own' = IF calls[i].live THEN [own EXCEPT !.org = TRUE, !.step = nextStep] ELSE own

handleCreateTunnel(i) ==
    /\ page = "onboarding" /\ calls[i].op = "tunnel"
    /\ Succeeded(i)
    /\ own' = IF calls[i].live THEN [own EXCEPT !.createdTunnel = TRUE, !.step = nextStep] ELSE own

\* handleSkip and handleFinish: the page is left whatever the answer.
handleFinish ==
    /\ page = "onboarding" /\ shown
    /\ Submit("complete", {})
    /\ UNCHANGED <<page, shown, open, server, cache, missed, own>>

Finished(i) ==
    /\ page = "onboarding" /\ calls[i].op = "complete"
    /\ calls' = LeftBehind(Others(i))
    /\ shown' = FALSE
    /\ own' = None
    /\ UNCHANGED <<page, open, server, cache, missed>>

(***************************************************************************)
(* Reading without the query cache: fetchRoles and fetchUser.  Nothing     *)
(* cancels or joins such a call, so answers may overtake each other; xs is *)
(* what the server read.  cache.data is the list of the page Roles.tsx     *)
(* (None while loading) and the user of the auth store.                    *)
(***************************************************************************)
IsRead(i) == calls[i].op \in {"fetch", "verifyMe", "disableMe"}

\* The call i ends and another one is made at once.
Followed(i, op) ==
    calls' = [Others(i) EXCEPT ![Cardinality(Busy)] =
                 [op |-> op, xs |-> {}, phase |-> "sent",
                  live |-> calls[i].live, held |-> calls[i].live]]

\* Mounting Roles.tsx, with its effect
RolesMount ==
    /\ page = "roles" /\ ~shown
    /\ shown' = TRUE
    /\ Submit("fetch", {})
    /\ cache' = NoData
    /\ UNCHANGED <<page, open, server, missed, own>>

\* The answer will be shown: the user is stored even when the tab is gone.
Heeded(i) == IsRead(i) /\ (calls[i].live \/ page = "security")

\* The handler that is read from (handleMe, the list of roles) answers.
ReadServed(i) ==
    /\ IsRead(i) /\ calls[i].phase = "sent"
    /\ calls' = [calls EXCEPT ![i].phase = "done",
                              ![i].xs = IF page = "roles" THEN Having(server)
                                        ELSE {x \in Ids : server[x].on}]
    /\ missed' = (missed /\ ~Heeded(i))
    /\ UNCHANGED <<page, shown, open, server, cache, own>>

\* Another answer is to come, which may be an older one.
Outruns(i) == \E j \in Busy \ {i} : Heeded(j)

Shows(rows, known) ==
    cache' = [NoData EXCEPT !.data = rows, !.fresh = known]

fetchRoles(i) ==
    /\ page = "roles" /\ IsRead(i)
    /\ Ended(i)
    /\ missed' = (missed \/ (Heeded(i) /\ Outruns(i)))
    /\ IF ~calls[i].live THEN UNCHANGED cache
       ELSE \/ calls[i].phase = "done"
               /\ Shows([x \in Ids |-> IF x \in calls[i].xs THEN NewRow ELSE NoRow], TRUE)
            \/ Shows([x \in Ids |-> NoRow], FALSE)
    /\ UNCHANGED <<page, shown, open, server, own>>

\* handleSave and handleDelete, after their await; on a page that is gone
\* the fetch that follows changes nothing, so a page that has been opened
\* since does not learn of the change.
RolesChanged(i) ==
    /\ page = "roles" /\ ~IsRead(i) /\ calls[i].phase = "done"
    /\ IF calls[i].live
       THEN /\ Followed(i, "fetch")
            /\ cache' = NoData
            /\ open' = {o \in open : o.form \notin Table.calls[calls[i].op].closes}
            /\ UNCHANGED missed
       ELSE Ended(i) /\ missed' = TRUE /\ UNCHANGED <<cache, open>>
    /\ UNCHANGED <<page, shown, server, own>>

(***************************************************************************)
(* The security tab of Settings.tsx.                                       *)
(***************************************************************************)
OnSecurity == page = "security" /\ shown
mfaEnabled == cache.data # None /\ \E x \in Ids : cache.data[x].on

handleMFA ==
    /\ OnSecurity
    /\ \/ mfaEnabled /\ ~Pending("disable") /\ Submit("disable", Ids)
       \/ ~mfaEnabled /\ ~own.secret /\ ~Pending("enroll") /\ Submit("enroll", {})
       \/ ~mfaEnabled /\ own.secret /\ ~Pending("verify") /\ Submit("verify", Ids)
    /\ UNCHANGED <<page, shown, open, server, cache, missed, own>>

handleEnrollMFA(i) ==
    /\ page = "security" /\ calls[i].op = "enroll"
    /\ Succeeded(i)
    /\ own' = IF calls[i].live THEN [own EXCEPT !.secret = TRUE] ELSE own

\* After the await of handleVerifyMFA and handleDisableMFA: fetchUser, also
\* when the tab is gone.
MFAChanged(i) ==
    /\ page = "security" /\ calls[i].op \in {"verify", "disable"} /\ calls[i].phase = "done"
    /\ Followed(i, IF calls[i].op = "verify" THEN "verifyMe" ELSE "disableMe")
    /\ own' = IF calls[i].live /\ calls[i].op = "verify" THEN [own EXCEPT !.secret = FALSE] ELSE own
    /\ UNCHANGED <<page, shown, open, server, cache, missed>>

\* The user is stored, or signed out.
fetchUser(i) ==
    /\ page = "security" /\ IsRead(i)
    /\ missed' = (missed \/ Outruns(i))
    /\ \/ /\ calls[i].phase = "done"
          /\ Ended(i)
          /\ Shows([x \in Ids |-> [here |-> TRUE, on |-> x \in calls[i].xs]], TRUE)
          /\ UNCHANGED <<shown, own>>
       \/ /\ calls' = LeftBehind(Others(i))
          /\ cache' = NoData
          /\ shown' = FALSE
          /\ own' = None
    /\ UNCHANGED <<page, open, server>>

(***************************************************************************)
(* The composition.                                                        *)
(***************************************************************************)
Special(i) ==
    \/ IsBatch(i)
    \/ page = "apikeys" /\ calls[i].op = "create"
    \/ page \in {"onboarding", "roles", "security"}

Answered(i) ==
    \/ BatchSucceeded(i) \/ BatchFailed(i) \/ KeyCreated(i)
    \/ handleCreateOrg(i) \/ handleCreateTunnel(i) \/ Finished(i)
    \/ fetchRoles(i) \/ RolesChanged(i)
    \/ handleEnrollMFA(i) \/ MFAChanged(i) \/ fetchUser(i)
    \/ ~Special(i) /\ Succeeded(i) /\ UNCHANGED own
    \/ ~IsBatch(i) /\ ~IsRead(i) /\ calls[i].op # "complete" /\ Failed(i) /\ UNCHANGED own

SelectStep ==
    \/ toggleSelect \/ toggleSelectAll \/ clearSelection
    \/ handleBatch("batchStart") \/ handleBatch("batchStop")
    \/ AskBatchDelete \/ handleBatchDelete

PageStep ==
    \/ Fetching /\ UNCHANGED own
    \/ Asking /\ ~KeyInsteadOfForm /\ UNCHANGED own
    \/ \E o \in open : /\ page # "apikeys" \/ o # KeyDialog
                       /\ CloseForm(o)
                       /\ UNCHANGED own
    \/ CloseKeyDialog
    \/ page # "roles" /\ Mount /\ own' = Fresh(page)
    \/ RolesMount
    \/ Leave /\ own' = None

WizardStep == WizardNext \/ WizardBack \/ WizardSubmit \/ handleFinish

ConsoleNext ==
    \/ PageStep \/ SelectStep \/ WizardStep \/ handleMFA
    \/ \E i \in Busy : (~IsRead(i) /\ Served(i) /\ UNCHANGED own) \/ ReadServed(i) \/ Answered(i)

ConsoleSpec == ConsoleInit /\ [][ConsoleNext]_consoleVars

(***************************************************************************)
(* Properties.                                                             *)
(***************************************************************************)
ConsoleTypeOK ==
    /\ page \in DOMAIN Pages
    /\ shown \in BOOLEAN
    /\ \A o \in open : o.form \in DOMAIN Table.forms /\ o.row \in Ids \cup {None} \cup SUBSET Ids
    /\ server \in Rows
    /\ cache \in Query
    /\ \A i \in Slots : calls[i] = NoCall \/
          /\ calls[i].op \in DOMAIN Table.calls
          /\ calls[i].xs \subseteq Ids
          /\ calls[i].phase \in {"sent", "done"}
          /\ calls[i].live \in BOOLEAN /\ calls[i].held \in BOOLEAN
    /\ missed \in BOOLEAN
    /\ ~shown => own = None
    /\ shown /\ page = "tunnels" => own \in [selected : SUBSET Ids, batchProcessing : BOOLEAN]
    /\ shown /\ page = "apikeys" => own \in [createdKey : BOOLEAN]
    /\ shown /\ page = "security" => own \in [secret : BOOLEAN]
    /\ shown /\ page = "onboarding" =>
          own \in [step : 1..STEPS, org : BOOLEAN, createdTunnel : BOOLEAN]

\* Once nothing is under way, the rows on the screen are the server's
\* (onSuccess of every mutation invalidates the list, and an answer that was
\* on its way is dropped), unless a change could not be learnt of.  The page
\* of one tunnel is the exception: starting and stopping does not read it
\* again.
ListedIsReal ==
    shown /\ page # "tunnel" /\ cache.data # None /\ cache.fresh /\ cache.fetch = "idle"
          /\ ~missed /\ (\A i \in Slots : calls[i] = NoCall)
        => cache.data = server

\* Nothing that creates a row is sent twice by one mounted page before the
\* first is answered: the buttons that wait for it are disabled.
OneCreation ==
    \A i, j \in Slots :
        i # j /\ calls[i] # NoCall /\ calls[j] # NoCall /\ calls[i].live /\ calls[j].live
              /\ Table.calls[calls[i].op].does = "add"
            => calls[i].op # calls[j].op

\* A new API key, which the server tells only once, is dropped by the tab
\* only when the dialog that shows it is closed, and until then no other
\* creation is under way whose key would replace it.
KeyIsShown ==
    [][page = "apikeys" /\ shown /\ own.createdKey =>
           /\ shown' => own'.createdKey \/ KeyDialog \in open
           /\ \A i \in Slots : ~(calls[i].op = "create" /\ calls[i].live)]_consoleVars

\* The wizard is never past the organisation before it is saved, nor at the
\* end before the tunnel exists, however late answers arrive.
WizardOrder ==
    page = "onboarding" /\ shown =>
        /\ own.step >= 3 => own.org
        /\ own.step = 5 => own.createdTunnel

\* The batch buttons are never left disabled: batchProcessing is set only
\* while a batch call of this mounted page is under way (the finally of the
\* handlers), and is reset by no other call's answer.
BusyIsReal ==
    page = "tunnels" /\ shown =>
        (own.batchProcessing <=> \E i \in Slots : IsBatch(i) /\ calls[i].live)
=============================================================================
