---------------------------- MODULE ConsoleProofs ----------------------------
(***************************************************************************)
(* The properties of Console for any rows and any number of calls under    *)
(* way, on every page.                                                     *)
(***************************************************************************)
EXTENDS Console, FiniteSetTheorems, TLAPS

(***************************************************************************)
(* The tables.  What the proofs need to know of all pages: forms and       *)
(* buttons submit calls the page has, what creates rows is submitted only  *)
(* after waiting for its own mutation, and what changes rows reads them    *)
(* again on the pages that use the query cache.                            *)
(***************************************************************************)
Doings == {"add", "remove", "on", "off", "put", "keep"}

CallsFit(its, forms, buttons) ==
    /\ \A op \in DOMAIN its : its[op].does \in Doings /\ its[op].opens \subseteq DOMAIN forms
    /\ \A f \in DOMAIN forms : /\ forms[f].new \in DOMAIN its \cup {"none"}
                               /\ forms[f].old \in DOMAIN its \cup {"none"}
    /\ DOMAIN buttons \subseteq DOMAIN its
    /\ "none" \notin DOMAIN its

\* Something that creates rows belongs to the mutation m.
Creates(its, m) == \E op \in DOMAIN its : its[op].does = "add" /\ its[op].by = m

CreationsWait(its, forms, buttons) ==
    \A a \in DOMAIN its : its[a].does = "add" =>
        /\ \A f \in DOMAIN forms :
              /\ forms[f].new # "none" /\ its[forms[f].new].by = its[a].by => its[a].by \in forms[f].waits
              /\ forms[f].old # "none" /\ its[forms[f].old].by = its[a].by => its[a].by \in forms[f].waits
        /\ \A op \in DOMAIN buttons : its[op].by = its[a].by => its[a].by \in buttons[op].waits

ChangesRead(its) == \A op \in DOMAIN its : its[op].reads \/ its[op].does = "keep"

BatchOps == {"batchStart", "batchStop", "batchDelete"}
ReadOps == {"fetch", "verifyMe", "disableMe"}

LEMMA CallFields ==
    \A by, does, fs, gs :
        /\ LET c == Call(by, does)
           IN  c.by = by /\ c.does = does /\ c.reads = TRUE /\ c.opens = {}
        /\ LET c == Unread(Call(by, does))
           IN  c.by = by /\ c.does = does /\ c.reads = FALSE /\ c.opens = {}
        /\ LET c == Closing(Call(by, does), fs)
           IN  c.by = by /\ c.does = does /\ c.reads = TRUE /\ c.opens = {}
        /\ LET c == Closing(Unread(Call(by, does)), fs)
           IN  c.by = by /\ c.does = does /\ c.reads = FALSE /\ c.opens = {}
        /\ LET c == Opening(Closing(Call(by, does), fs), gs)
           IN  c.by = by /\ c.does = does /\ c.reads = TRUE /\ c.opens = gs
BY DEF Call, Unread, Closing, Opening

LEMMA ButtonFields ==
    \A on, waits, when : Button(on, waits).waits = waits /\ When(Button(on, waits), when).waits = waits
BY DEF Button, When

LEMMA FormFields ==
    \A new, old, on, waits :
        LET f == Form(new, old, on, waits) IN f.new = new /\ f.old = old /\ f.waits = waits
BY DEF Form

LEMMA PageFields ==
    \A its, forms, buttons, f :
        /\ LET t == Page(its, forms, buttons)
           IN  t.calls = its /\ t.forms = forms /\ t.buttons = buttons /\ t.starts = {}
        /\ LET t == Bare(Page(its, forms, buttons))
           IN  t.calls = its /\ t.forms = forms /\ t.buttons = buttons /\ t.starts = {}
        /\ LET t == Inline(Page(its, forms, buttons))
           IN  t.calls = its /\ t.forms = forms /\ t.buttons = buttons /\ t.starts = {}
        /\ LET t == NoRetry(Page(its, forms, buttons))
           IN  t.calls = its /\ t.forms = forms /\ t.buttons = buttons /\ t.starts = {}
        /\ LET t == NoError(Page(its, forms, buttons))
           IN  t.calls = its /\ t.forms = forms /\ t.buttons = buttons /\ t.starts = {}
        /\ LET t == StartsWith(Bare(Page(its, forms, buttons)), f)
           IN  t.calls = its /\ t.forms = forms /\ t.buttons = buttons /\ t.starts = {f}
BY DEF Page, Bare, Inline, NoRetry, NoError, StartsWith

LEMMA NothingToPress == DOMAIN NoForms = {} /\ DOMAIN NoButtons = {}
BY DEF NoForms, NoButtons

LEMMA HookCalls ==
    /\ useTunnels.create = Call("create", "add") /\ useTunnels.update = Call("update", "keep")
    /\ useTunnels.delete = Call("delete", "remove") /\ useTunnels.start = Call("start", "on")
    /\ useTunnels.stop = Call("stop", "off") /\ useTunnels.restart = Call("restart", "keep")
BY DEF useTunnels

LEMMA PageTable ==
    /\ Pages["tunnels"] = Page(TunnelsCalls, TunnelsForms, TunnelsRows)
    /\ Pages["tunnel"] = Page(TunnelDetailCalls, TunnelDetailForms, TunnelDetailButtons)
    /\ Pages["domains"] = Page(DomainsCalls, DomainsForms, DomainsRows)
    /\ Pages["networks"] = Page(NetworksCalls, NetworksForms, NoButtons)
    /\ Pages["network"] = Page(NetworkDetailCalls, NetworkDetailForms, NoButtons)
    /\ Pages["invite"] = NoError(Page(InviteCalls, NoForms, InviteButtons))
    /\ Pages["security"] = Bare(Page(SecurityCalls, NoForms, NoButtons))
    /\ Pages["apikeys"] = Page(ApiKeysCalls, ApiKeysForms, NoButtons)
    /\ Pages["members"] = NoError(Page(MembersCalls, NoForms, MembersButtons))
    /\ Pages["sessions"] = NoRetry(Page(SessionsCalls, SessionsForms, NoButtons))
    /\ Pages["billing"] = NoError(Page(BillingCalls, NoForms, BillingPlans))
    /\ Pages["forgot"] = StartsWith(Bare(Page(ForgotCalls, ForgotForm, NoButtons)), "forgot")
    /\ Pages["reset"] = StartsWith(Bare(Page(ResetCalls, ResetForm, NoButtons)), "reset")
    /\ Pages["onboarding"] = Bare(Page(OnboardingCalls, NoForms, NoButtons))
    /\ Pages["announcements"] = Inline(Page(AnnouncementsCalls, AnnouncementsForm, AnnouncementsRows))
    /\ Pages["discounts"] = Inline(Page(DiscountsCalls, DiscountsForm, DiscountsRows))
    /\ Pages["whitelist"] = Page(WhitelistCalls, NoForms, WhitelistButtons)
    /\ Pages["retention"] = Page(RetentionCalls, NoForms, RetentionButtons)
    /\ Pages["pricing"] = Inline(Page(PricingCalls, PricingForm, NoButtons))
    /\ Pages["reports"] = Page(ReportsCalls, NoForms, ReportsButtons)
    /\ Pages["roles"] = Bare(Page(RolesCalls, RolesForm, RolesRows))
    /\ Pages["certificates"] = Page(CertificatesCalls, NoForms, CertificatesRows)
    /\ Pages["invoices"] = Page(InvoicesCalls, NoForms, InvoicesRows)
BY DEF Pages

LEMMA PageNames ==
    DOMAIN Pages = {"tunnels", "tunnel", "domains", "networks", "network", "invite", "security", "apikeys", "members", "sessions", "billing", "forgot", "reset", "onboarding", "announcements", "discounts", "whitelist", "retention", "pricing", "reports", "roles", "certificates", "invoices"}
BY DEF Pages

LEMMA TunnelsFit ==
    /\ CallsFit(TunnelsCalls, TunnelsForms, TunnelsRows)
    /\ CreationsWait(TunnelsCalls, TunnelsForms, TunnelsRows)
    /\ ChangesRead(TunnelsCalls)
    /\ DOMAIN TunnelsCalls \cap (ReadOps) = {}
<1>1. CallsFit(TunnelsCalls, TunnelsForms, TunnelsRows)
  BY CallFields, FormFields, ButtonFields, HookCalls DEF CallsFit, Doings, TunnelsCalls, TunnelsForms, TunnelsRows, CreateTunnel
<1>2. CreationsWait(TunnelsCalls, TunnelsForms, TunnelsRows)
  BY CallFields, FormFields, ButtonFields, HookCalls DEF CreationsWait, TunnelsCalls, TunnelsForms, TunnelsRows, CreateTunnel
<1>3. ChangesRead(TunnelsCalls)
  BY CallFields, HookCalls DEF ChangesRead, TunnelsCalls
<1>4. DOMAIN TunnelsCalls \cap (ReadOps) = {}
  BY DEF BatchOps, ReadOps, TunnelsCalls
<1> QED BY <1>1, <1>2, <1>3, <1>4

LEMMA TunnelFit ==
    /\ CallsFit(TunnelDetailCalls, TunnelDetailForms, TunnelDetailButtons)
    /\ CreationsWait(TunnelDetailCalls, TunnelDetailForms, TunnelDetailButtons)
    /\ DOMAIN TunnelDetailCalls \cap (BatchOps \cup ReadOps) = {}
<1>1. CallsFit(TunnelDetailCalls, TunnelDetailForms, TunnelDetailButtons)
  BY CallFields, FormFields, ButtonFields, HookCalls DEF CallsFit, Doings, TunnelDetailCalls, TunnelDetailForms, TunnelDetailButtons
<1>2. CreationsWait(TunnelDetailCalls, TunnelDetailForms, TunnelDetailButtons)
  BY CallFields, FormFields, ButtonFields, HookCalls DEF CreationsWait, TunnelDetailCalls, TunnelDetailForms, TunnelDetailButtons
<1>3. DOMAIN TunnelDetailCalls \cap (BatchOps \cup ReadOps) = {}
  BY DEF BatchOps, ReadOps, TunnelDetailCalls
<1> QED BY <1>1, <1>2, <1>3

LEMMA DomainsFit ==
    /\ CallsFit(DomainsCalls, DomainsForms, DomainsRows)
    /\ CreationsWait(DomainsCalls, DomainsForms, DomainsRows)
    /\ ChangesRead(DomainsCalls)
    /\ DOMAIN DomainsCalls \cap (BatchOps \cup ReadOps) = {}
<1>1. CallsFit(DomainsCalls, DomainsForms, DomainsRows)
  BY CallFields, FormFields, ButtonFields DEF CallsFit, Doings, DomainsCalls, DomainsForms, DomainsRows
<1>2. CreationsWait(DomainsCalls, DomainsForms, DomainsRows)
  BY CallFields, FormFields, ButtonFields DEF CreationsWait, DomainsCalls, DomainsForms, DomainsRows
<1>3. ChangesRead(DomainsCalls)
  BY CallFields DEF ChangesRead, DomainsCalls
<1>4. DOMAIN DomainsCalls \cap (BatchOps \cup ReadOps) = {}
  BY DEF BatchOps, ReadOps, DomainsCalls
<1> QED BY <1>1, <1>2, <1>3, <1>4

LEMMA NetworksFit ==
    /\ CallsFit(NetworksCalls, NetworksForms, NoButtons)
    /\ CreationsWait(NetworksCalls, NetworksForms, NoButtons)
    /\ ChangesRead(NetworksCalls)
    /\ DOMAIN NetworksCalls \cap (BatchOps \cup ReadOps) = {}
<1>1. CallsFit(NetworksCalls, NetworksForms, NoButtons)
  BY CallFields, FormFields, NothingToPress DEF CallsFit, Doings, NetworksCalls, NetworksForms
<1>2. CreationsWait(NetworksCalls, NetworksForms, NoButtons)
  BY CallFields, FormFields, NothingToPress DEF CreationsWait, NetworksCalls, NetworksForms
<1>3. ChangesRead(NetworksCalls)
  BY CallFields DEF ChangesRead, NetworksCalls
<1>4. DOMAIN NetworksCalls \cap (BatchOps \cup ReadOps) = {}
  BY DEF BatchOps, ReadOps, NetworksCalls
<1> QED BY <1>1, <1>2, <1>3, <1>4

LEMMA NetworkFit ==
    /\ CallsFit(NetworkDetailCalls, NetworkDetailForms, NoButtons)
    /\ CreationsWait(NetworkDetailCalls, NetworkDetailForms, NoButtons)
    /\ ChangesRead(NetworkDetailCalls)
    /\ DOMAIN NetworkDetailCalls \cap (BatchOps \cup ReadOps) = {}
<1>1. CallsFit(NetworkDetailCalls, NetworkDetailForms, NoButtons)
  BY CallFields, FormFields, NothingToPress DEF CallsFit, Doings, NetworkDetailCalls, NetworkDetailForms
<1>2. CreationsWait(NetworkDetailCalls, NetworkDetailForms, NoButtons)
  BY CallFields, FormFields, NothingToPress DEF CreationsWait, NetworkDetailCalls, NetworkDetailForms
<1>3. ChangesRead(NetworkDetailCalls)
  BY CallFields DEF ChangesRead, NetworkDetailCalls
<1>4. DOMAIN NetworkDetailCalls \cap (BatchOps \cup ReadOps) = {}
  BY DEF BatchOps, ReadOps, NetworkDetailCalls
<1> QED BY <1>1, <1>2, <1>3, <1>4

LEMMA InviteFit ==
    /\ CallsFit(InviteCalls, NoForms, InviteButtons)
    /\ CreationsWait(InviteCalls, NoForms, InviteButtons)
    /\ ChangesRead(InviteCalls)
    /\ DOMAIN InviteCalls \cap (BatchOps \cup ReadOps) = {}
<1>1. CallsFit(InviteCalls, NoForms, InviteButtons)
  BY CallFields, ButtonFields, NothingToPress DEF CallsFit, Doings, InviteCalls, InviteButtons
<1>2. CreationsWait(InviteCalls, NoForms, InviteButtons)
  BY CallFields, ButtonFields, NothingToPress DEF CreationsWait, InviteCalls, InviteButtons
<1>3. ChangesRead(InviteCalls)
  BY CallFields DEF ChangesRead, InviteCalls
<1>4. DOMAIN InviteCalls \cap (BatchOps \cup ReadOps) = {}
  BY DEF BatchOps, ReadOps, InviteCalls
<1> QED BY <1>1, <1>2, <1>3, <1>4

LEMMA SecurityFit ==
    /\ CallsFit(SecurityCalls, NoForms, NoButtons)
    /\ CreationsWait(SecurityCalls, NoForms, NoButtons)
    /\ DOMAIN SecurityCalls \cap (BatchOps) = {}
<1>1. CallsFit(SecurityCalls, NoForms, NoButtons)
  BY CallFields, NothingToPress DEF CallsFit, Doings, SecurityCalls
<1>2. CreationsWait(SecurityCalls, NoForms, NoButtons)
  BY CallFields, NothingToPress DEF CreationsWait, SecurityCalls
<1>3. DOMAIN SecurityCalls \cap (BatchOps) = {}
  BY DEF BatchOps, ReadOps, SecurityCalls
<1> QED BY <1>1, <1>2, <1>3

LEMMA ApikeysFit ==
    /\ CallsFit(ApiKeysCalls, ApiKeysForms, NoButtons)
    /\ CreationsWait(ApiKeysCalls, ApiKeysForms, NoButtons)
    /\ ChangesRead(ApiKeysCalls)
    /\ DOMAIN ApiKeysCalls \cap (BatchOps \cup ReadOps) = {}
<1>1. CallsFit(ApiKeysCalls, ApiKeysForms, NoButtons)
  BY CallFields, FormFields, NothingToPress DEF CallsFit, Doings, ApiKeysCalls, ApiKeysForms
<1>2. CreationsWait(ApiKeysCalls, ApiKeysForms, NoButtons)
  BY CallFields, FormFields, NothingToPress DEF CreationsWait, ApiKeysCalls, ApiKeysForms
<1>3. ChangesRead(ApiKeysCalls)
  BY CallFields DEF ChangesRead, ApiKeysCalls
<1>4. DOMAIN ApiKeysCalls \cap (BatchOps \cup ReadOps) = {}
  BY DEF BatchOps, ReadOps, ApiKeysCalls
<1> QED BY <1>1, <1>2, <1>3, <1>4

LEMMA MembersFit ==
    /\ CallsFit(MembersCalls, NoForms, MembersButtons)
    /\ CreationsWait(MembersCalls, NoForms, MembersButtons)
    /\ ChangesRead(MembersCalls)
    /\ DOMAIN MembersCalls \cap (BatchOps \cup ReadOps) = {}
<1>1. CallsFit(MembersCalls, NoForms, MembersButtons)
  BY CallFields, ButtonFields, NothingToPress DEF CallsFit, Doings, MembersCalls, MembersButtons
<1>2. CreationsWait(MembersCalls, NoForms, MembersButtons)
  BY CallFields, ButtonFields, NothingToPress DEF CreationsWait, MembersCalls, MembersButtons
<1>3. ChangesRead(MembersCalls)
  BY CallFields DEF ChangesRead, MembersCalls
<1>4. DOMAIN MembersCalls \cap (BatchOps \cup ReadOps) = {}
  BY DEF BatchOps, ReadOps, MembersCalls
<1> QED BY <1>1, <1>2, <1>3, <1>4

LEMMA SessionsFit ==
    /\ CallsFit(SessionsCalls, SessionsForms, NoButtons)
    /\ CreationsWait(SessionsCalls, SessionsForms, NoButtons)
    /\ ChangesRead(SessionsCalls)
    /\ DOMAIN SessionsCalls \cap (BatchOps \cup ReadOps) = {}
<1>1. CallsFit(SessionsCalls, SessionsForms, NoButtons)
  BY CallFields, FormFields, NothingToPress DEF CallsFit, Doings, SessionsCalls, SessionsForms
<1>2. CreationsWait(SessionsCalls, SessionsForms, NoButtons)
  BY CallFields, FormFields, NothingToPress DEF CreationsWait, SessionsCalls, SessionsForms
<1>3. ChangesRead(SessionsCalls)
  BY CallFields DEF ChangesRead, SessionsCalls
<1>4. DOMAIN SessionsCalls \cap (BatchOps \cup ReadOps) = {}
  BY DEF BatchOps, ReadOps, SessionsCalls
<1> QED BY <1>1, <1>2, <1>3, <1>4

LEMMA BillingFit ==
    /\ CallsFit(BillingCalls, NoForms, BillingPlans)
    /\ CreationsWait(BillingCalls, NoForms, BillingPlans)
    /\ ChangesRead(BillingCalls)
    /\ DOMAIN BillingCalls \cap (BatchOps \cup ReadOps) = {}
<1>1. CallsFit(BillingCalls, NoForms, BillingPlans)
  BY CallFields, ButtonFields, NothingToPress DEF CallsFit, Doings, BillingCalls, BillingPlans
<1>2. CreationsWait(BillingCalls, NoForms, BillingPlans)
  BY CallFields, ButtonFields, NothingToPress DEF CreationsWait, BillingCalls, BillingPlans
<1>3. ChangesRead(BillingCalls)
  BY CallFields DEF ChangesRead, BillingCalls
<1>4. DOMAIN BillingCalls \cap (BatchOps \cup ReadOps) = {}
  BY DEF BatchOps, ReadOps, BillingCalls
<1> QED BY <1>1, <1>2, <1>3, <1>4

LEMMA ForgotFit ==
    /\ CallsFit(ForgotCalls, ForgotForm, NoButtons)
    /\ CreationsWait(ForgotCalls, ForgotForm, NoButtons)
    /\ ChangesRead(ForgotCalls)
    /\ DOMAIN ForgotCalls \cap (BatchOps \cup ReadOps) = {}
<1>1. CallsFit(ForgotCalls, ForgotForm, NoButtons)
  BY CallFields, FormFields, NothingToPress DEF CallsFit, Doings, ForgotCalls, ForgotForm
<1>2. CreationsWait(ForgotCalls, ForgotForm, NoButtons)
  BY CallFields, FormFields, NothingToPress DEF CreationsWait, ForgotCalls, ForgotForm
<1>3. ChangesRead(ForgotCalls)
  BY CallFields DEF ChangesRead, ForgotCalls
<1>4. DOMAIN ForgotCalls \cap (BatchOps \cup ReadOps) = {}
  BY DEF BatchOps, ReadOps, ForgotCalls
<1> QED BY <1>1, <1>2, <1>3, <1>4

LEMMA ResetFit ==
    /\ CallsFit(ResetCalls, ResetForm, NoButtons)
    /\ CreationsWait(ResetCalls, ResetForm, NoButtons)
    /\ ChangesRead(ResetCalls)
    /\ DOMAIN ResetCalls \cap (BatchOps \cup ReadOps) = {}
<1>1. CallsFit(ResetCalls, ResetForm, NoButtons)
  BY CallFields, FormFields, NothingToPress DEF CallsFit, Doings, ResetCalls, ResetForm
<1>2. CreationsWait(ResetCalls, ResetForm, NoButtons)
  BY CallFields, FormFields, NothingToPress DEF CreationsWait, ResetCalls, ResetForm
<1>3. ChangesRead(ResetCalls)
  BY CallFields DEF ChangesRead, ResetCalls
<1>4. DOMAIN ResetCalls \cap (BatchOps \cup ReadOps) = {}
  BY DEF BatchOps, ReadOps, ResetCalls
<1> QED BY <1>1, <1>2, <1>3, <1>4

LEMMA OnboardingFit ==
    /\ CallsFit(OnboardingCalls, NoForms, NoButtons)
    /\ CreationsWait(OnboardingCalls, NoForms, NoButtons)
    /\ DOMAIN OnboardingCalls \cap (BatchOps \cup ReadOps) = {}
<1>1. CallsFit(OnboardingCalls, NoForms, NoButtons)
  BY CallFields, NothingToPress DEF CallsFit, Doings, OnboardingCalls
<1>2. CreationsWait(OnboardingCalls, NoForms, NoButtons)
  BY CallFields, NothingToPress DEF CreationsWait, OnboardingCalls
<1>3. DOMAIN OnboardingCalls \cap (BatchOps \cup ReadOps) = {}
  BY DEF BatchOps, ReadOps, OnboardingCalls
<1> QED BY <1>1, <1>2, <1>3

LEMMA AnnouncementsFit ==
    /\ CallsFit(AnnouncementsCalls, AnnouncementsForm, AnnouncementsRows)
    /\ CreationsWait(AnnouncementsCalls, AnnouncementsForm, AnnouncementsRows)
    /\ ChangesRead(AnnouncementsCalls)
    /\ DOMAIN AnnouncementsCalls \cap (BatchOps \cup ReadOps) = {}
<1>1. CallsFit(AnnouncementsCalls, AnnouncementsForm, AnnouncementsRows)
  BY CallFields, FormFields, ButtonFields DEF CallsFit, Doings, AnnouncementsCalls, AnnouncementsForm, AnnouncementsRows
<1>2. CreationsWait(AnnouncementsCalls, AnnouncementsForm, AnnouncementsRows)
  BY CallFields, FormFields, ButtonFields DEF CreationsWait, AnnouncementsCalls, AnnouncementsForm, AnnouncementsRows
<1>3. ChangesRead(AnnouncementsCalls)
  BY CallFields DEF ChangesRead, AnnouncementsCalls
<1>4. DOMAIN AnnouncementsCalls \cap (BatchOps \cup ReadOps) = {}
  BY DEF BatchOps, ReadOps, AnnouncementsCalls
<1> QED BY <1>1, <1>2, <1>3, <1>4

LEMMA DiscountsFit ==
    /\ CallsFit(DiscountsCalls, DiscountsForm, DiscountsRows)
    /\ CreationsWait(DiscountsCalls, DiscountsForm, DiscountsRows)
    /\ ChangesRead(DiscountsCalls)
    /\ DOMAIN DiscountsCalls \cap (BatchOps \cup ReadOps) = {}
<1>1. CallsFit(DiscountsCalls, DiscountsForm, DiscountsRows)
  BY CallFields, FormFields, ButtonFields DEF CallsFit, Doings, DiscountsCalls, DiscountsForm, DiscountsRows
<1>2. CreationsWait(DiscountsCalls, DiscountsForm, DiscountsRows)
  BY CallFields, FormFields, ButtonFields DEF CreationsWait, DiscountsCalls, DiscountsForm, DiscountsRows
<1>3. ChangesRead(DiscountsCalls)
  BY CallFields DEF ChangesRead, DiscountsCalls
<1>4. DOMAIN DiscountsCalls \cap (BatchOps \cup ReadOps) = {}
  BY DEF BatchOps, ReadOps, DiscountsCalls
<1> QED BY <1>1, <1>2, <1>3, <1>4

LEMMA WhitelistFit ==
    /\ CallsFit(WhitelistCalls, NoForms, WhitelistButtons)
    /\ CreationsWait(WhitelistCalls, NoForms, WhitelistButtons)
    /\ ChangesRead(WhitelistCalls)
    /\ DOMAIN WhitelistCalls \cap (BatchOps \cup ReadOps) = {}
<1>1. CallsFit(WhitelistCalls, NoForms, WhitelistButtons)
  BY CallFields, ButtonFields, NothingToPress DEF CallsFit, Doings, WhitelistCalls, WhitelistButtons
<1>2. CreationsWait(WhitelistCalls, NoForms, WhitelistButtons)
  BY CallFields, ButtonFields, NothingToPress DEF CreationsWait, WhitelistCalls, WhitelistButtons
<1>3. ChangesRead(WhitelistCalls)
  BY CallFields DEF ChangesRead, WhitelistCalls
<1>4. DOMAIN WhitelistCalls \cap (BatchOps \cup ReadOps) = {}
  BY DEF BatchOps, ReadOps, WhitelistCalls
<1> QED BY <1>1, <1>2, <1>3, <1>4

LEMMA RetentionFit ==
    /\ CallsFit(RetentionCalls, NoForms, RetentionButtons)
    /\ CreationsWait(RetentionCalls, NoForms, RetentionButtons)
    /\ ChangesRead(RetentionCalls)
    /\ DOMAIN RetentionCalls \cap (BatchOps \cup ReadOps) = {}
<1>1. CallsFit(RetentionCalls, NoForms, RetentionButtons)
  BY CallFields, ButtonFields, NothingToPress DEF CallsFit, Doings, RetentionCalls, RetentionButtons
<1>2. CreationsWait(RetentionCalls, NoForms, RetentionButtons)
  BY CallFields, ButtonFields, NothingToPress DEF CreationsWait, RetentionCalls, RetentionButtons
<1>3. ChangesRead(RetentionCalls)
  BY CallFields DEF ChangesRead, RetentionCalls
<1>4. DOMAIN RetentionCalls \cap (BatchOps \cup ReadOps) = {}
  BY DEF BatchOps, ReadOps, RetentionCalls
<1> QED BY <1>1, <1>2, <1>3, <1>4

LEMMA PricingFit ==
    /\ CallsFit(PricingCalls, PricingForm, NoButtons)
    /\ CreationsWait(PricingCalls, PricingForm, NoButtons)
    /\ ChangesRead(PricingCalls)
    /\ DOMAIN PricingCalls \cap (BatchOps \cup ReadOps) = {}
<1>1. CallsFit(PricingCalls, PricingForm, NoButtons)
  BY CallFields, FormFields, NothingToPress DEF CallsFit, Doings, PricingCalls, PricingForm
<1>2. CreationsWait(PricingCalls, PricingForm, NoButtons)
  BY CallFields, FormFields, NothingToPress DEF CreationsWait, PricingCalls, PricingForm
<1>3. ChangesRead(PricingCalls)
  BY CallFields DEF ChangesRead, PricingCalls
<1>4. DOMAIN PricingCalls \cap (BatchOps \cup ReadOps) = {}
  BY DEF BatchOps, ReadOps, PricingCalls
<1> QED BY <1>1, <1>2, <1>3, <1>4

LEMMA ReportsFit ==
    /\ CallsFit(ReportsCalls, NoForms, ReportsButtons)
    /\ CreationsWait(ReportsCalls, NoForms, ReportsButtons)
    /\ ChangesRead(ReportsCalls)
    /\ DOMAIN ReportsCalls \cap (BatchOps \cup ReadOps) = {}
<1>1. CallsFit(ReportsCalls, NoForms, ReportsButtons)
  BY CallFields, ButtonFields, NothingToPress DEF CallsFit, Doings, ReportsCalls, ReportsButtons
<1>2. CreationsWait(ReportsCalls, NoForms, ReportsButtons)
  BY CallFields, ButtonFields, NothingToPress DEF CreationsWait, ReportsCalls, ReportsButtons
<1>3. ChangesRead(ReportsCalls)
  BY CallFields DEF ChangesRead, ReportsCalls
<1>4. DOMAIN ReportsCalls \cap (BatchOps \cup ReadOps) = {}
  BY DEF BatchOps, ReadOps, ReportsCalls
<1> QED BY <1>1, <1>2, <1>3, <1>4

LEMMA RolesFit ==
    /\ CallsFit(RolesCalls, RolesForm, RolesRows)
    /\ CreationsWait(RolesCalls, RolesForm, RolesRows)
    /\ DOMAIN RolesCalls \cap (BatchOps) = {}
<1>1. CallsFit(RolesCalls, RolesForm, RolesRows)
  BY CallFields, FormFields, ButtonFields DEF CallsFit, Doings, RolesCalls, RolesForm, RolesRows
<1>2. CreationsWait(RolesCalls, RolesForm, RolesRows)
  BY CallFields, FormFields, ButtonFields DEF CreationsWait, RolesCalls, RolesForm, RolesRows
<1>3. DOMAIN RolesCalls \cap (BatchOps) = {}
  BY DEF BatchOps, ReadOps, RolesCalls
<1> QED BY <1>1, <1>2, <1>3

LEMMA CertificatesFit ==
    /\ CallsFit(CertificatesCalls, NoForms, CertificatesRows)
    /\ CreationsWait(CertificatesCalls, NoForms, CertificatesRows)
    /\ ChangesRead(CertificatesCalls)
    /\ DOMAIN CertificatesCalls \cap (BatchOps \cup ReadOps) = {}
<1>1. CallsFit(CertificatesCalls, NoForms, CertificatesRows)
  BY CallFields, ButtonFields, NothingToPress DEF CallsFit, Doings, CertificatesCalls, CertificatesRows
<1>2. CreationsWait(CertificatesCalls, NoForms, CertificatesRows)
  BY CallFields, ButtonFields, NothingToPress DEF CreationsWait, CertificatesCalls, CertificatesRows
<1>3. ChangesRead(CertificatesCalls)
  BY CallFields DEF ChangesRead, CertificatesCalls
<1>4. DOMAIN CertificatesCalls \cap (BatchOps \cup ReadOps) = {}
  BY DEF BatchOps, ReadOps, CertificatesCalls
<1> QED BY <1>1, <1>2, <1>3, <1>4

LEMMA InvoicesFit ==
    /\ CallsFit(InvoicesCalls, NoForms, InvoicesRows)
    /\ CreationsWait(InvoicesCalls, NoForms, InvoicesRows)
    /\ ChangesRead(InvoicesCalls)
    /\ DOMAIN InvoicesCalls \cap (BatchOps \cup ReadOps) = {}
<1>1. CallsFit(InvoicesCalls, NoForms, InvoicesRows)
  BY CallFields, ButtonFields, NothingToPress DEF CallsFit, Doings, InvoicesCalls, InvoicesRows
<1>2. CreationsWait(InvoicesCalls, NoForms, InvoicesRows)
  BY CallFields, ButtonFields, NothingToPress DEF CreationsWait, InvoicesCalls, InvoicesRows
<1>3. ChangesRead(InvoicesCalls)
  BY CallFields DEF ChangesRead, InvoicesCalls
<1>4. DOMAIN InvoicesCalls \cap (BatchOps \cup ReadOps) = {}
  BY DEF BatchOps, ReadOps, InvoicesCalls
<1> QED BY <1>1, <1>2, <1>3, <1>4

LEMMA TablesFit ==
    ASSUME NEW p \in DOMAIN Pages
    PROVE  LET t == Pages[p]
           IN  /\ CallsFit(t.calls, t.forms, t.buttons)
               /\ CreationsWait(t.calls, t.forms, t.buttons)
               /\ t.starts \subseteq DOMAIN t.forms
               /\ p \notin {"tunnel", "security", "onboarding", "roles"} => ChangesRead(t.calls)
               /\ p # "tunnels" => DOMAIN t.calls \cap BatchOps = {}
               /\ p \notin {"security", "roles"} => DOMAIN t.calls \cap ReadOps = {}
<1> USE PageFields, PageTable
<1>1. CASE p = "tunnels"
  BY <1>1, TunnelsFit
<1>2. CASE p = "tunnel"
  BY <1>2, TunnelFit
<1>3. CASE p = "domains"
  BY <1>3, DomainsFit
<1>4. CASE p = "networks"
  BY <1>4, NetworksFit
<1>5. CASE p = "network"
  BY <1>5, NetworkFit
<1>6. CASE p = "invite"
  BY <1>6, InviteFit
<1>7. CASE p = "security"
  BY <1>7, SecurityFit
<1>8. CASE p = "apikeys"
  BY <1>8, ApikeysFit
<1>9. CASE p = "members"
  BY <1>9, MembersFit
<1>10. CASE p = "sessions"
  BY <1>10, SessionsFit
<1>11. CASE p = "billing"
  BY <1>11, BillingFit
<1>12. CASE p = "forgot"
  BY <1>12, ForgotFit DEF ForgotForm
<1>13. CASE p = "reset"
  BY <1>13, ResetFit DEF ResetForm
<1>14. CASE p = "onboarding"
  BY <1>14, OnboardingFit
<1>15. CASE p = "announcements"
  BY <1>15, AnnouncementsFit
<1>16. CASE p = "discounts"
  BY <1>16, DiscountsFit
<1>17. CASE p = "whitelist"
  BY <1>17, WhitelistFit
<1>18. CASE p = "retention"
  BY <1>18, RetentionFit
<1>19. CASE p = "pricing"
  BY <1>19, PricingFit
<1>20. CASE p = "reports"
  BY <1>20, ReportsFit
<1>21. CASE p = "roles"
  BY <1>21, RolesFit
<1>22. CASE p = "certificates"
  BY <1>22, CertificatesFit
<1>23. CASE p = "invoices"
  BY <1>23, InvoicesFit
<1> QED BY <1>1, <1>2, <1>3, <1>4, <1>5, <1>6, <1>7, <1>8, <1>9, <1>10, <1>11, <1>12, <1>13, <1>14, <1>15, <1>16, <1>17, <1>18, <1>19, <1>20, <1>21, <1>22, <1>23, PageNames

(***************************************************************************)
(* Calls.  Slots are filled from the front; an answered call leaves its    *)
(* slot and the later ones move up.                                        *)
(***************************************************************************)
CallOrNone == {NoCall} \cup [op : DOMAIN Table.calls, xs : SUBSET Ids, phase : {"sent", "done"},
                             live : BOOLEAN, held : BOOLEAN]

CallsTyped == page \in DOMAIN Pages /\ calls \in [Slots -> CallOrNone]

UpTo(n) == n \in 0..MaxCalls /\ \A i \in Slots : calls[i] # NoCall <=> i <= n
Packed == \E n \in Nat : UpTo(n)

\* A page that is not mounted has no call under way that would change it.
AwayIsIdle == ~shown => \A i \in Slots : ~calls[i].live

LEMMA Named ==
    ASSUME CallsTyped, NEW i \in Slots
    PROVE  /\ calls[i] # NoCall <=> calls[i].op \in DOMAIN Table.calls
           /\ calls[i] = NoCall <=> calls[i].op = "none"
           /\ i \in Busy <=> calls[i] # NoCall
           /\ calls[i].live \in BOOLEAN /\ calls[i].held \in BOOLEAN
<1>1. "none" \notin DOMAIN Table.calls
  BY TablesFit DEF CallsTyped, Table, CallsFit
<1>2. calls[i] \in CallOrNone
  BY DEF CallsTyped
<1>3. NoCall.op = "none" /\ NoCall.live = FALSE /\ NoCall.held = FALSE
  BY DEF NoCall
<1>4. calls[i] # NoCall => /\ calls[i].op \in DOMAIN Table.calls
                           /\ calls[i].live \in BOOLEAN /\ calls[i].held \in BOOLEAN
  BY <1>2 DEF CallOrNone
<1>5. calls[i].live \in BOOLEAN /\ calls[i].held \in BOOLEAN
  BY <1>3, <1>4, Zenon
<1>6. i \in Busy <=> calls[i] # NoCall
  BY DEF Busy
<1> QED BY <1>1, <1>3, <1>4, <1>5, <1>6

\* The slot a call of Others(i) comes from, and where it goes.
From(i, j) == IF j < i THEN j ELSE j + 1
To(i, k) == IF k < i THEN k ELSE k - 1

LEMMA OthersMove ==
    ASSUME NEW i \in Slots
    PROVE  /\ DOMAIN Others(i) = Slots
           /\ \A j \in Slots : \/ Others(i)[j] = NoCall
                               \/ /\ From(i, j) \in Slots \ {i}
                                  /\ Others(i)[j] = calls[From(i, j)]
           /\ \A k \in Slots \ {i} : To(i, k) \in Slots /\ Others(i)[To(i, k)] = calls[k]
           /\ \A j, k \in Slots : j # k => From(i, j) # From(i, k)
<1>1. DOMAIN Others(i) = Slots
  BY DEF Others
<1>2. ASSUME NEW j \in Slots
      PROVE  \/ Others(i)[j] = NoCall
             \/ From(i, j) \in Slots \ {i} /\ Others(i)[j] = calls[From(i, j)]
  BY BoundAssumption DEF Others, Slots, From
<1>3. ASSUME NEW k \in Slots \ {i}
      PROVE  To(i, k) \in Slots /\ Others(i)[To(i, k)] = calls[k]
  BY BoundAssumption DEF Others, Slots, To
<1>4. \A j, k \in Slots : j # k => From(i, j) # From(i, k)
  BY BoundAssumption DEF Slots, From
<1> QED BY <1>1, <1>2, <1>3, <1>4

LEMMA OthersTyped ==
    ASSUME CallsTyped, NEW i \in Slots
    PROVE  Others(i) \in [Slots -> CallOrNone]
<1>1. NoCall \in CallOrNone /\ \A k \in Slots : calls[k] \in CallOrNone
  BY DEF CallsTyped, CallOrNone
<1>2. \A j \in Slots : Others(i)[j] \in CallOrNone
  BY <1>1, OthersMove
<1> QED BY <1>2 DEF Others

LEMMA OthersPacked ==
    ASSUME NEW n \in Nat, UpTo(n), NEW i \in Slots, calls[i] # NoCall
    PROVE  n - 1 \in 0..MaxCalls /\ \A j \in Slots : Others(i)[j] # NoCall <=> j <= n - 1
<1>1. i <= n /\ i >= 1 /\ n <= MaxCalls /\ i \in Nat /\ n \in Nat
  BY BoundAssumption DEF UpTo, Slots
<1>2. ASSUME NEW j \in Slots PROVE Others(i)[j] # NoCall <=> j <= n - 1
  <2>1. CASE j < i
    BY <1>1, <2>1, BoundAssumption DEF UpTo, Others, Slots
  <2>2. CASE ~(j < i) /\ j < MaxCalls
    <3>1. Others(i)[j] = calls[j + 1] /\ j + 1 \in Slots
      BY <2>2, BoundAssumption DEF Others, Slots
    <3> QED BY <1>1, <2>2, <3>1, BoundAssumption DEF UpTo, Slots
  <2>3. CASE ~(j < i) /\ ~(j < MaxCalls)
    <3>1. Others(i)[j] = NoCall
      BY <2>3 DEF Others
    <3> QED BY <1>1, <2>3, <3>1, BoundAssumption DEF Slots
  <2> QED BY <2>1, <2>2, <2>3
<1> QED BY <1>1, <1>2, BoundAssumption

\* A new call, and what it does to the calls of its own mutation.
NewCall(op, xs) == [op |-> op, xs |-> xs, phase |-> "sent", live |-> TRUE, held |-> TRUE]

\* The call taken up by Followed.
NextCall(i, op) ==
    [op |-> op, xs |-> {}, phase |-> "sent", live |-> calls[i].live, held |-> calls[i].live]

LEMMA SubmitMove ==
    ASSUME Packed, NEW op, NEW xs, Submit(op, xs)
    PROVE  \E i \in Slots :
              /\ calls[i] = NoCall /\ calls'[i] = NewCall(op, xs)
              /\ UpTo(i - 1)
              /\ \A j \in Slots \ {i} :
                    \/ calls'[j] = calls[j] /\ ~(calls[j] # NoCall /\ By(j) = Table.calls[op].by)
                    \/ /\ calls[j] # NoCall /\ By(j) = Table.calls[op].by
                       /\ calls'[j] = [calls[j] EXCEPT !.held = FALSE]
              /\ DOMAIN calls' = Slots
<1>1. PICK i \in Slots \ Busy :
         /\ \A j \in Slots \ Busy : i <= j
         /\ calls' = [j \in Slots |->
               IF j = i THEN NewCall(op, xs)
               ELSE IF j \in Busy /\ By(j) = Table.calls[op].by
               THEN [calls[j] EXCEPT !.held = FALSE]
               ELSE calls[j]]
  BY DEF Submit, NewCall
<1>2. \A j \in Slots : j \in Busy <=> calls[j] # NoCall
  BY DEF Busy
<1>3. calls[i] = NoCall /\ calls'[i] = NewCall(op, xs)
  BY <1>1, <1>2
<1>4. PICK n \in Nat : UpTo(n)
  BY DEF Packed
<1>5. i = n + 1
  <2>1. i > n /\ i <= MaxCalls /\ i \in Nat
    BY <1>3, <1>4, BoundAssumption DEF UpTo, Slots
  <2>2. n + 1 \in Slots \ Busy
    BY <1>2, <1>4, <2>1, BoundAssumption DEF UpTo, Slots
  <2> QED BY <1>1, <2>1, <2>2
<1>6. UpTo(i - 1)
  BY <1>4, <1>5
<1>7. \A j \in Slots \ {i} :
         \/ calls'[j] = calls[j] /\ ~(calls[j] # NoCall /\ By(j) = Table.calls[op].by)
         \/ /\ calls[j] # NoCall /\ By(j) = Table.calls[op].by
            /\ calls'[j] = [calls[j] EXCEPT !.held = FALSE]
  BY <1>1, <1>2
<1> QED BY <1>1, <1>3, <1>6, <1>7

LEMMA FollowMove ==
    ASSUME Packed, NEW i \in Slots, calls[i] # NoCall, NEW op, Followed(i, op)
    PROVE  \E n \in Slots :
              /\ UpTo(n)
              /\ Others(i)[n] = NoCall /\ calls'[n] = NextCall(i, op)
              /\ \A j \in Slots \ {n} : calls'[j] = Others(i)[j]
              /\ DOMAIN calls' = Slots
<1>1. PICK n \in Nat : UpTo(n)
  BY DEF Packed
<1>2. n \in Slots
  BY <1>1, BoundAssumption DEF UpTo, Slots
<1>3. Busy = 1..n
  BY <1>1, BoundAssumption DEF UpTo, Slots, Busy
<1>4. Cardinality(Busy) = n
  BY <1>2, <1>3, FS_Interval, BoundAssumption DEF Slots
<1>5. Others(i)[n] = NoCall
  BY <1>1, <1>2, OthersPacked, BoundAssumption DEF Slots
<1>6. DOMAIN Others(i) = Slots
  BY OthersMove
<1>7. calls' = [Others(i) EXCEPT ![n] = NextCall(i, op)]
  BY <1>4 DEF Followed, NextCall
<1> HIDE DEF Others
<1> QED BY <1>1, <1>2, <1>5, <1>6, <1>7

(***************************************************************************)
(* Every way the calls change keeps them typed, packed and, on a page that *)
(* is gone, idle.                                                          *)
(***************************************************************************)
CallsInv == CallsTyped /\ Packed /\ AwayIsIdle

LEMMA SameTable ==
    ASSUME page' = page
    PROVE  Table' = Table /\ CallOrNone' = CallOrNone /\ Slots' = Slots
BY DEF Table, CallOrNone, Slots

LEMMA SubmitKeepsCalls ==
    ASSUME CallsInv, page' = page, shown', NEW op \in DOMAIN Table.calls, NEW xs \in SUBSET Ids,
           Submit(op, xs)
    PROVE  CallsInv'
<1>1. PICK i \in Slots :
              /\ calls[i] = NoCall /\ calls'[i] = NewCall(op, xs)
              /\ UpTo(i - 1)
              /\ \A j \in Slots \ {i} :
                    \/ calls'[j] = calls[j]
                    \/ calls[j] # NoCall /\ calls'[j] = [calls[j] EXCEPT !.held = FALSE]
              /\ DOMAIN calls' = Slots
  BY SubmitMove DEF CallsInv
<1>2. NewCall(op, xs) \in CallOrNone /\ NewCall(op, xs) # NoCall
  BY DEF NewCall, CallOrNone, NoCall
<1>3. ASSUME NEW j \in Slots, calls[j] # NoCall
      PROVE  /\ [calls[j] EXCEPT !.held = FALSE] \in CallOrNone
             /\ [calls[j] EXCEPT !.held = FALSE] # NoCall
  <2>1. calls[j] \in CallOrNone \ {NoCall}
    BY <1>3 DEF CallsInv, CallsTyped
  <2>2. "none" \notin DOMAIN Table.calls
    BY TablesFit DEF CallsInv, CallsTyped, Table, CallsFit
  <2> QED BY <2>1, <2>2 DEF CallOrNone, NoCall
<1>4. \A j \in Slots : calls'[j] \in CallOrNone
  BY <1>1, <1>2, <1>3 DEF CallsInv, CallsTyped
<1>5. CallsTyped'
  <2>1. \E f : calls' = [j \in Slots |-> f[j]]
    BY DEF Submit
  <2> QED BY <1>1, <1>4, <2>1, SameTable DEF CallsInv, CallsTyped
<1>6. Packed'
  <2>1. i \in Nat /\ i \in 0..MaxCalls
    BY BoundAssumption DEF Slots
  <2>2. \A j \in Slots : calls'[j] # NoCall <=> j <= i
    BY <1>1, <1>2, <1>3, <2>1, BoundAssumption DEF UpTo, Slots
  <2>3. UpTo(i)'
    BY <2>1, <2>2 DEF UpTo, Slots, NoCall
  <2> QED BY <2>1, <2>3 DEF Packed
<1> QED BY <1>5, <1>6 DEF CallsInv, AwayIsIdle

LEMMA ServeKeepsCalls ==
    ASSUME CallsInv, page' = page, shown' = shown, NEW i \in Slots, calls[i] # NoCall,
           NEW xs \in SUBSET Ids, calls' = [calls EXCEPT ![i].phase = "done", ![i].xs = xs]
    PROVE  CallsInv'
<1>1. calls[i] \in CallOrNone \ {NoCall}
  BY DEF CallsInv, CallsTyped
<1>2. "none" \notin DOMAIN Table.calls
  BY TablesFit DEF CallsInv, CallsTyped, Table, CallsFit
<1> DEFINE c == [calls[i] EXCEPT !.phase = "done", !.xs = xs]
<1>3. c \in CallOrNone /\ c # NoCall
  BY <1>1, <1>2 DEF CallOrNone, NoCall
<1>4. c.live = calls[i].live
  BY <1>1 DEF CallOrNone
<1>5. calls' = [calls EXCEPT ![i] = c]
  BY DEF CallsInv, CallsTyped
<1> HIDE DEF c
<1>6. CallsTyped'
  BY <1>3, <1>5, SameTable DEF CallsInv, CallsTyped
<1>7. \A j \in Slots : calls'[j] # NoCall <=> calls[j] # NoCall
  BY <1>3, <1>5 DEF CallsInv, CallsTyped
<1>8. Packed'
  BY <1>7, SameTable DEF CallsInv, Packed, UpTo, NoCall
<1>9. AwayIsIdle'
  BY <1>4, <1>5, SameTable DEF CallsInv, CallsTyped, AwayIsIdle
<1> QED BY <1>6, <1>8, <1>9 DEF CallsInv

LEMMA EndKeepsCalls ==
    ASSUME CallsInv, page' = page, shown' = shown, NEW i \in Slots, calls[i] # NoCall,
           calls' = Others(i)
    PROVE  CallsInv'
<1>1. CallsTyped'
  BY OthersTyped, SameTable DEF CallsInv, CallsTyped
<1>2. Packed'
  <2>1. PICK n \in Nat : UpTo(n)
    BY DEF CallsInv, Packed
  <2>2. n - 1 \in 0..MaxCalls /\ \A j \in Slots : Others(i)[j] # NoCall <=> j <= n - 1
    BY <2>1, OthersPacked
  <2> HIDE DEF Others
  <2>3. UpTo(n - 1)'
    BY <2>2, SameTable DEF UpTo, NoCall
  <2> QED BY <2>2, <2>3, BoundAssumption DEF Packed
<1>3. AwayIsIdle'
  <2>1. NoCall.live = FALSE
    BY DEF NoCall
  <2> HIDE DEF Others
  <2> QED BY <2>1, OthersMove, SameTable DEF CallsInv, AwayIsIdle
<1> QED BY <1>1, <1>2, <1>3 DEF CallsInv

Left(c) == [c EXCEPT !.live = FALSE, !.held = FALSE]

LEMMA LeftCall ==
    ASSUME page \in DOMAIN Pages, NEW c \in CallOrNone
    PROVE  /\ Left(c) \in CallOrNone
           /\ Left(c) # NoCall <=> c # NoCall
           /\ Left(c).live = FALSE /\ Left(c).held = FALSE
           /\ Left(c).op = c.op /\ Left(c).xs = c.xs /\ Left(c).phase = c.phase
<1>1. "none" \notin DOMAIN Table.calls
  BY TablesFit DEF Table, CallsFit
<1>2. CASE c = NoCall
  <2>1. Left(NoCall) = NoCall
    <3>1. NoCall = [w \in DOMAIN NoCall |-> NoCall[w]]
      BY DEF NoCall
    <3>2. DOMAIN NoCall = {"op", "xs", "phase", "live", "held"} /\ NoCall.live = FALSE /\ NoCall.held = FALSE
      BY DEF NoCall
    <3>3. [NoCall EXCEPT !.live = FALSE] = NoCall
      BY <3>1, <3>2
    <3>4. [NoCall EXCEPT !.held = FALSE] = NoCall
      BY <3>1, <3>2
    <3> QED BY <3>3, <3>4 DEF Left
  <2>2. NoCall.live = FALSE /\ NoCall.held = FALSE
    BY DEF NoCall
  <2> QED BY <1>2, <2>1, <2>2 DEF CallOrNone
<1>3. CASE c # NoCall
  BY <1>1, <1>3 DEF CallOrNone, NoCall, Left
<1> QED BY <1>2, <1>3

LEMMA LeftTyped ==
    ASSUME page \in DOMAIN Pages, NEW cs \in [Slots -> CallOrNone]
    PROVE  /\ LeftBehind(cs) \in [Slots -> CallOrNone]
           /\ \A j \in Slots : /\ LeftBehind(cs)[j] # NoCall <=> cs[j] # NoCall
                               /\ LeftBehind(cs)[j].live = FALSE /\ LeftBehind(cs)[j].held = FALSE
                               /\ LeftBehind(cs)[j].op = cs[j].op
                               /\ LeftBehind(cs)[j].xs = cs[j].xs
                               /\ LeftBehind(cs)[j].phase = cs[j].phase
<1>1. LeftBehind(cs) = [j \in Slots |-> Left(cs[j])]
  BY DEF LeftBehind, Left
<1>2. \A j \in Slots : Left(cs[j]) \in CallOrNone
  BY LeftCall
<1>3. LeftBehind(cs) \in [Slots -> CallOrNone]
  BY <1>1, <1>2
<1>4. ASSUME NEW j \in Slots
      PROVE  /\ LeftBehind(cs)[j] # NoCall <=> cs[j] # NoCall
             /\ LeftBehind(cs)[j].live = FALSE /\ LeftBehind(cs)[j].held = FALSE
             /\ LeftBehind(cs)[j].op = cs[j].op
             /\ LeftBehind(cs)[j].xs = cs[j].xs
             /\ LeftBehind(cs)[j].phase = cs[j].phase
  <2>1. LeftBehind(cs)[j] = Left(cs[j]) /\ cs[j] \in CallOrNone
    BY <1>1
  <2> QED BY <2>1, LeftCall
<1> QED BY <1>3, <1>4

LEMMA LeaveKeepsCalls ==
    ASSUME CallsInv, page' = page, shown' = FALSE,
           \/ calls' = LeftBehind(calls)
           \/ \E i \in Slots : calls[i] # NoCall /\ calls' = LeftBehind(Others(i))
    PROVE  CallsInv'
<1>1. PICK cs \in [Slots -> CallOrNone], n \in Nat :
         /\ calls' = LeftBehind(cs)
         /\ n \in 0..MaxCalls /\ \A i \in Slots : cs[i] # NoCall <=> i <= n
  <2>1. PICK m \in Nat : UpTo(m)
    BY DEF CallsInv, Packed
  <2>2. CASE calls' = LeftBehind(calls)
    BY <2>1, <2>2 DEF CallsInv, CallsTyped, UpTo
  <2>3. ASSUME NEW i \in Slots, calls[i] # NoCall, calls' = LeftBehind(Others(i))
        PROVE  \E cs \in [Slots -> CallOrNone], n \in Nat :
                  /\ calls' = LeftBehind(cs)
                  /\ n \in 0..MaxCalls /\ \A j \in Slots : cs[j] # NoCall <=> j <= n
    <3>1. Others(i) \in [Slots -> CallOrNone]
      BY OthersTyped DEF CallsInv
    <3>2. m - 1 \in 0..MaxCalls /\ \A j \in Slots : Others(i)[j] # NoCall <=> j <= m - 1
      BY <2>1, <2>3, OthersPacked
    <3> HIDE DEF Others
    <3> QED BY <2>3, <3>1, <3>2, BoundAssumption
  <2> QED BY <2>2, <2>3
<1>2. /\ calls' \in [Slots -> CallOrNone]
      /\ \A j \in Slots : calls'[j] # NoCall <=> cs[j] # NoCall
      /\ \A j \in Slots : calls'[j].live = FALSE
  BY <1>1, LeftTyped DEF CallsInv, CallsTyped
<1>3. CallsTyped'
  BY <1>2, SameTable DEF CallsInv, CallsTyped
<1>4. Packed'
  BY <1>1, <1>2, SameTable DEF Packed, UpTo, NoCall
<1>5. AwayIsIdle'
  BY <1>2, SameTable DEF AwayIsIdle
<1> QED BY <1>3, <1>4, <1>5 DEF CallsInv

LEMMA FollowKeepsCalls ==
    ASSUME CallsInv, page' = page, shown' = shown, NEW i \in Slots, calls[i] # NoCall,
           NEW op \in DOMAIN Table.calls, Followed(i, op)
    PROVE  CallsInv'
<1>1. PICK n \in Slots :
              /\ UpTo(n)
              /\ Others(i)[n] = NoCall /\ calls'[n] = NextCall(i, op)
              /\ \A j \in Slots \ {n} : calls'[j] = Others(i)[j]
              /\ DOMAIN calls' = Slots
  BY FollowMove DEF CallsInv
<1>2. calls[i].live \in BOOLEAN
  BY Named DEF CallsInv
<1>3. NextCall(i, op) \in CallOrNone
  BY <1>2 DEF NextCall, CallOrNone
<1>4. NextCall(i, op).op = op /\ NextCall(i, op).live = calls[i].live
  BY DEF NextCall
<1>5. NextCall(i, op) # NoCall
  <2>1. op # "none"
    BY TablesFit DEF CallsInv, CallsTyped, Table, CallsFit
  <2> QED BY <1>4, <2>1 DEF NoCall
<1>6. Others(i) \in [Slots -> CallOrNone]
  BY OthersTyped DEF CallsInv
<1>7. CallsTyped'
  <2>1. \A j \in Slots : calls'[j] \in CallOrNone
    BY <1>1, <1>3, <1>6
  <2>2. \E m : calls' = [Others(i) EXCEPT ![m] = NextCall(i, op)]
    BY DEF Followed, NextCall
  <2>3. calls' = [j \in Slots |-> calls'[j]]
    BY <1>6, <2>2
  <2> QED BY <2>1, <2>3, SameTable DEF CallsInv, CallsTyped
<1>8. Packed'
  <2>1. n \in Nat /\ n \in 0..MaxCalls
    BY BoundAssumption DEF Slots
  <2>2. \A j \in Slots : Others(i)[j] # NoCall <=> j <= n - 1
    BY <1>1, <2>1, OthersPacked
  <2>3. \A j \in Slots : calls'[j] # NoCall <=> j <= n
    BY <1>1, <1>5, <2>1, <2>2, BoundAssumption DEF Slots
  <2>4. UpTo(n)'
    BY <2>1, <2>3, SameTable DEF UpTo, NoCall
  <2> QED BY <2>1, <2>4 DEF Packed
<1>9. AwayIsIdle'
  <2>1. NoCall.live = FALSE
    BY DEF NoCall
  <2>2. ASSUME ~shown, NEW j \in Slots PROVE ~calls'[j].live
    <3>1. \A k \in Slots : ~calls[k].live
      BY <2>2 DEF CallsInv, AwayIsIdle
    <3>2. CASE j = n
      BY <1>1, <1>4, <3>1, <3>2
    <3>3. CASE j # n
      <4>1. calls'[j] = Others(i)[j]
        BY <1>1, <3>3
      <4>2. Others(i)[j] = NoCall \/ \E k \in Slots : Others(i)[j] = calls[k]
        BY OthersMove
      <4> QED BY <2>1, <3>1, <4>1, <4>2
    <3> QED BY <3>2, <3>3
  <2> QED BY <2>2, SameTable DEF AwayIsIdle
<1> QED BY <1>7, <1>8, <1>9 DEF CallsInv

(***************************************************************************)
(* The rows of the server and of the query cache.                          *)
(***************************************************************************)
LEMMA RowTypes ==
    /\ NoRow \in Row /\ NewRow \in Row
    /\ \A w \in Row, v \in BOOLEAN : [w EXCEPT !.on = v] \in Row
    /\ \A v, w \in BOOLEAN : [here |-> v, on |-> w] \in Row
BY DEF Row, NoRow, NewRow

LEMMA ResultsTyped ==
    ASSUME server \in Rows, NEW does \in Doings, NEW xs, NEW rows \in Results(does, xs)
    PROVE  rows \in Rows
<1>1. \A x \in Ids : server[x] \in Row /\ server[x].here \in BOOLEAN
  BY DEF Rows, Row
<1>2. ASSUME NEW v \in BOOLEAN, NEW ys PROVE Turned(server, ys, v) \in Rows
  <2>1. \A x \in Ids : [server[x] EXCEPT !.on = v] \in Row
    BY <1>1, RowTypes
  <2> QED BY <1>1, <2>1 DEF Turned, Rows
<1>3. CASE does = "add"
  BY <1>3, RowTypes DEF Results, Rows
<1>4. CASE does = "remove"
  BY <1>1, <1>4, RowTypes DEF Results, Rows
<1>5. CASE does = "on"
  BY <1>2, <1>5 DEF Results
<1>6. CASE does = "off"
  BY <1>2, <1>6 DEF Results
<1>7. CASE does = "put"
  <2>1. rows = [x \in Ids |-> [server[x] EXCEPT !.on = x \in xs /\ server[x].here]]
    BY <1>7 DEF Results
  <2>2. \A x \in Ids : (x \in xs /\ server[x].here) \in BOOLEAN
    OBVIOUS
  <2>3. \A x \in Ids : [server[x] EXCEPT !.on = x \in xs /\ server[x].here] \in Row
    BY <1>1, <2>2, RowTypes
  <2> QED BY <2>1, <2>3 DEF Rows
<1>8. CASE does = "keep"
  BY <1>8 DEF Results
<1> QED BY <1>3, <1>4, <1>5, <1>6, <1>7, <1>8 DEF Doings

LEMMA OutcomesTyped ==
    ASSUME CallsTyped, server \in Rows, NEW i \in Slots, calls[i] # NoCall, NEW rows \in Outcomes(i)
    PROVE  rows \in Rows
<1>1. calls[i].op \in DOMAIN Table.calls
  BY Named
<1>2. Table.calls[calls[i].op].does \in Doings
  BY <1>1, TablesFit DEF CallsTyped, Table, CallsFit
<1> QED BY <1>2, ResultsTyped DEF Outcomes

\* What a refetch and an invalidation leave in the cache.
LEMMA RefetchTyped ==
    ASSUME NEW q \in Query
    PROVE  /\ Refetch(q) \in Query /\ Refetch(q).data = q.data
           /\ \/ Refetch(q).fetch = "sent" 
              \/ Refetch(q) = q /\ q.fetch # "idle" /\ q.data = None
<1>1. CASE q.fetch # "idle" /\ q.data = None
  BY <1>1 DEF Refetch
<1>2. CASE ~(q.fetch # "idle" /\ q.data = None)
  <2> DEFINE v == q.failed /\ q.data # None
  <2>1. Refetch(q) = [q EXCEPT !.fetch = "sent", !.got = None, !.failed = v]
    BY <1>2, Zenon DEF Refetch
  <2>2. v \in BOOLEAN
    OBVIOUS
  <2> HIDE DEF v
  <2> QED BY <2>1, <2>2 DEF Query
<1> QED BY <1>1, <1>2

LEMMA StaleTyped ==
    ASSUME NEW q \in Query
    PROVE  LET s == [q EXCEPT !.fresh = FALSE]
           IN  s \in Query /\ s.data = q.data /\ s.got = q.got /\ s.fetch = q.fetch /\ s.fresh = FALSE
BY DEF Query

LEMMA NoDataTyped == NoData \in Query
BY DEF NoData, Query

LEMMA ShowsTyped ==
    ASSUME NEW rows \in Rows, NEW known \in BOOLEAN, Shows(rows, known)
    PROVE  cache' \in Query /\ cache'.data = rows /\ cache'.fetch = "idle" /\ cache'.fresh = known
<1>1. cache' = [data |-> rows, got |-> None, fetch |-> "idle", fresh |-> known, failed |-> FALSE]
  BY DEF Shows, NoData
<1> QED BY <1>1 DEF Query

(***************************************************************************)
(* Types.  Besides its type, a call is about a page that is mounted, if it *)
(* would change it (AwayIsIdle), and only the batch dialog is about a set  *)
(* of rows.                                                                *)
(***************************************************************************)
IsBatchForm(o) == page = "tunnels" /\ o.form = "batch"

OpenTyped ==
    \A o \in open : /\ o \in [form : DOMAIN Table.forms, row : Ids \cup {None} \cup SUBSET Ids]
                    /\ IsBatchForm(o) => o.row \in SUBSET Ids
                    /\ ~IsBatchForm(o) => o.row \in Ids \cup {None}

OwnTyped ==
    /\ ~shown => own = None
    /\ shown /\ page = "tunnels" => own \in [selected : SUBSET Ids, batchProcessing : BOOLEAN]
    /\ shown /\ page = "apikeys" => own \in [createdKey : BOOLEAN]
    /\ shown /\ page = "security" => own \in [secret : BOOLEAN]
    /\ shown /\ page = "onboarding" =>
          own \in [step : 1..STEPS, org : BOOLEAN, createdTunnel : BOOLEAN]

TypeInv ==
    /\ CallsInv
    /\ server \in Rows /\ cache \in Query
    /\ shown \in BOOLEAN /\ missed \in BOOLEAN
    /\ OpenTyped /\ OwnTyped

\* The frame: what a step that leaves a variable alone keeps.
LEMMA SameCalls ==
    ASSUME CallsInv, page' = page, calls' = calls, shown => shown'
    PROVE  CallsInv'
<1>1. CallsTyped'
  BY SameTable DEF CallsInv, CallsTyped
<1>2. Packed'
  BY DEF CallsInv, Packed, UpTo, Slots, NoCall
<1>3. AwayIsIdle'
  <2> SUFFICES ASSUME ~shown', ~shown => \A i \in Slots : ~calls[i].live
               PROVE  \A i \in Slots : ~calls[i].live
    BY SameTable DEF CallsInv, AwayIsIdle
  <2>1. ~shown
    OBVIOUS
  <2> QED BY <2>1
<1> QED BY <1>1, <1>2, <1>3 DEF CallsInv

LEMMA FewerOpen ==
    ASSUME OpenTyped, page' = page, open' \subseteq open
    PROVE  OpenTyped'
BY SameTable DEF OpenTyped, IsBatchForm

LEMMA SameOwn ==
    ASSUME OwnTyped, page' = page, shown' = shown, own' = own
    PROVE  OwnTyped'
BY DEF OwnTyped

LEMMA OtherOwn ==
    ASSUME page \notin {"tunnels", "apikeys", "security", "onboarding"}, page' = page, shown'
    PROVE  OwnTyped'
BY DEF OwnTyped

LEMMA GoneOwn == ASSUME shown' = FALSE, own' = None PROVE OwnTyped'
BY DEF OwnTyped

\* Everything listed is a row, and so is what a form sends.
LEMMA ListedTyped ==
    ASSUME TypeInv
    PROVE  Listed \subseteq Ids /\ \A on : ListedIn(on) \subseteq Ids
BY DEF Listed, ListedIn, Having

LEMMA SentTyped ==
    ASSUME TypeInv, NEW op, NEW x \in Ids \cup {None}
    PROVE  Sent(op, x) \in SUBSET Ids
BY ListedTyped DEF Sent

LEMMA FetchingTyped ==
    ASSUME TypeInv, Fetching, own' = own
    PROVE  TypeInv'
<1>1. UNCHANGED <<page, shown, open, server, calls>>
  BY DEF Fetching, FetchRead, FetchDone, FetchFails, Retry
<1>2. missed' \in BOOLEAN
  BY DEF TypeInv, Fetching, FetchRead, FetchDone, FetchFails, Retry
<1>3. cache' \in Query
  <2>1. cache \in Query /\ server \in Rows
    BY DEF TypeInv
  <2>2. CASE FetchRead
    BY <2>1, <2>2 DEF FetchRead, Query
  <2>3. CASE FetchDone
    BY <2>1, <2>3 DEF FetchDone, Query
  <2>4. CASE FetchFails
    BY <2>1, <2>4 DEF FetchFails, Query
  <2>5. CASE Retry
    BY <2>1, <2>5, RefetchTyped DEF Retry
  <2> QED BY <2>2, <2>3, <2>4, <2>5 DEF Fetching
<1>4. CallsInv' /\ OpenTyped' /\ OwnTyped'
  BY <1>1, SameCalls, FewerOpen, SameOwn DEF TypeInv
<1> QED BY <1>1, <1>2, <1>3, <1>4 DEF TypeInv

\* Steps that touch neither the rows nor the cache.
LEMMA Assemble ==
    ASSUME TypeInv, UNCHANGED <<server, cache, missed>>, shown' \in BOOLEAN,
           CallsInv', OpenTyped', OwnTyped'
    PROVE  TypeInv'
BY DEF TypeInv

LEMMA OpenFormTyped ==
    ASSUME TypeInv, NEW f \in DOMAIN Table.forms, OpenForm(f), own' = own
    PROVE  TypeInv'
<1>1. UNCHANGED <<page, shown, server, cache, calls, missed>>
  BY DEF OpenForm
<1>2. PICK x \in ListedIn(Table.forms[f].on)
                   \cup IF Table.forms[f].new = "none" THEN {} ELSE {None} :
             open' = {o \in open : o.form # f} \cup {[form |-> f, row |-> x]}
  BY DEF OpenForm
<1>3. x \in Ids \cup {None}
  BY <1>2, ListedTyped
<1>4. ~IsBatchForm([form |-> f, row |-> x])
  <2> SUFFICES ASSUME page = "tunnels", f = "batch" PROVE FALSE
    BY DEF IsBatchForm
  <2>1. Table.forms[f].on = {} /\ Table.forms[f].new = "none"
    BY PageTable, PageFields DEF Table, TunnelsForms, Form
  <2>2. ListedIn({}) = {}
    BY DEF ListedIn
  <2> QED BY <1>2, <2>1, <2>2
<1>5. OpenTyped'
  <2>1. [form |-> f, row |-> x] \in [form : DOMAIN Table.forms, row : Ids \cup {None} \cup SUBSET Ids]
    BY <1>3
  <2>2. [form |-> f, row |-> x].row = x
    OBVIOUS
  <2> QED BY <1>1, <1>2, <1>3, <1>4, <2>1, <2>2, SameTable DEF TypeInv, OpenTyped, IsBatchForm
<1>6. CallsInv' /\ OwnTyped'
  BY <1>1, SameCalls, SameOwn DEF TypeInv
<1> QED BY <1>1, <1>5, <1>6, Assemble DEF TypeInv

\* A form, a button or a handler makes a call.
LEMMA CallMadeTyped ==
    ASSUME TypeInv, shown, NEW op \in DOMAIN Table.calls, NEW xs \in SUBSET Ids, Submit(op, xs),
           UNCHANGED <<page, shown, open, server, cache, missed>>, OwnTyped'
    PROVE  TypeInv'
<1>1. CallsInv'
  BY SubmitKeepsCalls DEF TypeInv
<1> QED BY <1>1, FewerOpen, Assemble DEF TypeInv

LEMMA SubmitFormTyped ==
    ASSUME TypeInv, NEW o \in open, SubmitForm(o), own' = own
    PROVE  TypeInv'
<1> DEFINE f == Table.forms[o.form]
           op == IF o.row = None THEN f.new ELSE f.old
<1>1. shown /\ op # "none" /\ Submit(op, Sent(op, o.row))
  BY DEF SubmitForm
<1>2. UNCHANGED <<page, shown, open, server, cache, missed>>
  BY DEF SubmitForm
<1>3. o.form \in DOMAIN Table.forms
  BY DEF TypeInv, OpenTyped
<1>4. op \in DOMAIN Table.calls
  BY <1>1, <1>3, TablesFit DEF TypeInv, CallsInv, CallsTyped, Table, CallsFit
<1>5. o.row \in Ids \cup {None}
  <2>1. ~IsBatchForm(o)
    <3> SUFFICES ASSUME page = "tunnels", o.form = "batch" PROVE FALSE
      BY DEF IsBatchForm
    <3>1. Table.forms["batch"].new = "none" /\ Table.forms["batch"].old = "none"
      BY PageTable, PageFields DEF Table, TunnelsForms, Form
    <3> QED BY <1>1, <3>1
  <2> QED BY <2>1 DEF TypeInv, OpenTyped
<1>6. Sent(op, o.row) \in SUBSET Ids
  BY <1>5, SentTyped
<1> HIDE DEF op
<1> QED BY <1>1, <1>2, <1>4, <1>6, CallMadeTyped, SameOwn DEF TypeInv

LEMMA PressTyped ==
    ASSUME TypeInv, NEW op \in DOMAIN Table.buttons, Press(op), own' = own
    PROVE  TypeInv'
<1>1. shown /\ UNCHANGED <<page, shown, open, server, cache, missed>>
  BY DEF Press, Reachable
<1>2. PICK xs \in SUBSET Ids : Submit(op, xs)
  <2>1. CASE Submit(op, {})
    BY <2>1
  <2>2. CASE \E x \in ListedIn(Table.buttons[op].on) : Submit(op, {x})
    BY <2>2, ListedTyped
  <2> QED BY <2>1, <2>2 DEF Press
<1>3. op \in DOMAIN Table.calls
  BY TablesFit DEF TypeInv, CallsInv, CallsTyped, Table, CallsFit
<1> QED BY <1>1, <1>2, <1>3, CallMadeTyped, SameOwn DEF TypeInv

LEMMA CloseTyped ==
    ASSUME TypeInv, NEW o, CloseForm(o), own' = own \/ CloseKeyDialog
    PROVE  TypeInv'
<1>1. UNCHANGED <<page, shown, server, cache, calls, missed>> /\ open' \subseteq open
  BY DEF CloseForm
<1>2. OwnTyped'
  <2>1. CASE own' = own
    BY <1>1, <2>1, SameOwn DEF TypeInv
  <2>2. CASE page = "apikeys" /\ own' = [own EXCEPT !.createdKey = FALSE]
    <3>1. shown /\ own \in [createdKey : BOOLEAN]
      BY <2>2 DEF CloseForm, TypeInv, OwnTyped
    <3>2. own' \in [createdKey : BOOLEAN]
      BY <2>2, <3>1
    <3> QED BY <1>1, <2>2, <3>1, <3>2 DEF OwnTyped
  <2> QED BY <2>1, <2>2 DEF CloseKeyDialog
<1> QED BY <1>1, <1>2, SameCalls, FewerOpen, Assemble DEF TypeInv

LEMMA FreshTyped ==
    ASSUME page' = page, shown', own' = Fresh(page)
    PROVE  OwnTyped'
<1>1. CASE page = "tunnels"
  <2>1. own' = [selected |-> {}, batchProcessing |-> FALSE]
    BY <1>1 DEF Fresh
  <2>2. own' \in [selected : SUBSET Ids, batchProcessing : BOOLEAN]
    BY <2>1
  <2> QED BY <1>1, <2>2 DEF OwnTyped
<1>2. CASE page = "apikeys"
  <2>1. own' = [createdKey |-> FALSE]
    BY <1>2 DEF Fresh
  <2>2. own' \in [createdKey : BOOLEAN]
    BY <2>1
  <2> QED BY <1>2, <2>2 DEF OwnTyped
<1>3. CASE page = "security"
  <2>1. own' = [secret |-> FALSE]
    BY <1>3 DEF Fresh
  <2>2. own' \in [secret : BOOLEAN]
    BY <2>1
  <2> QED BY <1>3, <2>2 DEF OwnTyped
<1>4. CASE page = "onboarding"
  <2>1. own' = [step |-> 1, org |-> FALSE, createdTunnel |-> FALSE]
    BY <1>4 DEF Fresh
  <2>2. own' \in [step : 1..STEPS, org : BOOLEAN, createdTunnel : BOOLEAN]
    BY <2>1 DEF STEPS
  <2> QED BY <1>4, <2>2 DEF OwnTyped
<1> QED BY <1>1, <1>2, <1>3, <1>4, OtherOwn

LEMMA MountTyped ==
    ASSUME TypeInv, Mount, own' = Fresh(page)
    PROVE  TypeInv'
<1>1. UNCHANGED <<page, server, calls, missed>> /\ shown' = TRUE /\ open' = Starting(page)
  BY DEF Mount
<1>2. cache' \in Query
  BY RefetchTyped DEF Mount, TypeInv
<1>3. OpenTyped'
  <2>1. Pages[page].starts \subseteq DOMAIN Table.forms
    BY TablesFit DEF TypeInv, CallsInv, CallsTyped, Table
  <2>2. page = "tunnels" => Pages[page].starts = {}
    BY PageTable, PageFields
  <2> QED BY <1>1, <2>1, <2>2, SameTable DEF OpenTyped, IsBatchForm, Starting
<1>4. CallsInv'
  BY <1>1, SameCalls DEF TypeInv
<1>5. OwnTyped'
  BY <1>1, FreshTyped
<1> QED BY <1>1, <1>2, <1>3, <1>4, <1>5 DEF TypeInv

LEMMA RolesOps ==
    ASSUME page = "roles"
    PROVE  /\ DOMAIN Table.calls = {"fetch", "create", "update", "delete"}
           /\ Table.forms["form"].new = "create" /\ Table.forms["form"].old = "update"
           /\ DOMAIN Table.forms = {"form"} /\ DOMAIN Table.buttons = {"delete"}
           /\ Table.calls["fetch"].does = "keep" /\ Table.calls["create"].does = "add"
           /\ Table.calls["update"].does = "keep" /\ Table.calls["delete"].does = "remove"
<1>1. Table.calls = RolesCalls /\ Table.forms = RolesForm /\ Table.buttons = RolesRows
  BY PageTable, PageFields DEF Table
<1> QED BY <1>1, CallFields, FormFields DEF RolesCalls, RolesForm, RolesRows

LEMMA RolesMountTyped ==
    ASSUME TypeInv, RolesMount
    PROVE  TypeInv'
<1>1. UNCHANGED <<page, open, server, missed>> /\ shown' = TRUE /\ page = "roles" /\ cache' = NoData
  BY DEF RolesMount
<1>2. CallsInv'
  BY <1>1, RolesOps, SubmitKeepsCalls DEF RolesMount, TypeInv
<1>3. OwnTyped'
  BY <1>1, OtherOwn
<1> QED BY <1>1, <1>2, <1>3, FewerOpen, NoDataTyped DEF TypeInv

LEMMA LeaveTyped ==
    ASSUME TypeInv, Leave, own' = None
    PROVE  TypeInv'
<1>1. UNCHANGED <<page, server, cache, missed>> /\ shown' = FALSE /\ open' = {}
  BY DEF Leave
<1>2. CallsInv'
  BY <1>1, LeaveKeepsCalls DEF Leave, TypeInv
<1>3. OpenTyped'
  BY <1>1, FewerOpen DEF TypeInv
<1> QED BY <1>1, <1>2, <1>3, GoneOwn, Assemble

LEMMA TunnelsTables ==
    ASSUME page = "tunnels"
    PROVE  /\ BatchOps \subseteq DOMAIN Table.calls /\ "batch" \in DOMAIN Table.forms
           /\ \A f \in DOMAIN Table.forms : /\ Table.forms[f].new \notin BatchOps
                                            /\ Table.forms[f].old \notin BatchOps
           /\ DOMAIN Table.buttons \cap BatchOps = {}
           /\ \A op \in DOMAIN Table.calls : Table.calls[op].opens = {}
<1>1. Table.calls = TunnelsCalls /\ Table.forms = TunnelsForms /\ Table.buttons = TunnelsRows
  BY PageTable, PageFields DEF Table
<1>2. \A op \in DOMAIN TunnelsCalls : TunnelsCalls[op].opens = {}
  BY CallFields, HookCalls DEF TunnelsCalls
<1> QED BY <1>1, <1>2, FormFields DEF TunnelsCalls, TunnelsForms, TunnelsRows, CreateTunnel, BatchOps

LEMMA SelectTyped ==
    ASSUME TypeInv, SelectStep
    PROVE  TypeInv'
<1>1. page = "tunnels" /\ shown /\ own \in [selected : SUBSET Ids, batchProcessing : BOOLEAN]
  BY DEF SelectStep, toggleSelect, toggleSelectAll, clearSelection, handleBatch, AskBatchDelete,
         handleBatchDelete, OnList, Reachable, TypeInv, OwnTyped
<1>2. ASSUME NEW xs \in SUBSET Ids, own' = [own EXCEPT !.selected = xs], UNCHANGED listVars
      PROVE  TypeInv'
  <2>1. UNCHANGED <<page, shown, open, server, cache, calls, missed>>
    BY <1>2 DEF listVars
  <2>2. own' \in [selected : SUBSET Ids, batchProcessing : BOOLEAN]
    BY <1>1, <1>2
  <2>3. OwnTyped'
    BY <1>1, <2>1, <2>2 DEF OwnTyped
  <2> QED BY <2>1, <2>3, SameCalls, FewerOpen, Assemble DEF TypeInv
<1>3. CASE toggleSelect
  <2>1. PICK x \in Listed : own' = [own EXCEPT !.selected = IF x \in @ THEN @ \ {x} ELSE @ \cup {x}]
    BY <1>3 DEF toggleSelect
  <2> DEFINE xs == IF x \in own.selected THEN own.selected \ {x} ELSE own.selected \cup {x}
  <2>2. own' = [own EXCEPT !.selected = xs]
    BY <2>1
  <2>3. xs \in SUBSET Ids
    BY <1>1, ListedTyped
  <2> HIDE DEF xs
  <2> QED BY <1>2, <1>3, <2>2, <2>3 DEF toggleSelect
<1>4. CASE toggleSelectAll
  <2> DEFINE xs == IF Listed # {} /\ Listed \subseteq own.selected THEN {} ELSE Listed
  <2>1. own' = [own EXCEPT !.selected = xs]
    BY <1>4 DEF toggleSelectAll
  <2>2. xs \in SUBSET Ids
    BY ListedTyped
  <2> HIDE DEF xs
  <2> QED BY <1>2, <1>4, <2>1, <2>2 DEF toggleSelectAll
<1>5. CASE clearSelection
  BY <1>2, <1>5 DEF clearSelection
<1>6. ASSUME own' = [own EXCEPT !.batchProcessing = TRUE], page' = page, shown' = shown
      PROVE  OwnTyped'
  <2>1. own' \in [selected : SUBSET Ids, batchProcessing : BOOLEAN]
    BY <1>1, <1>6
  <2> QED BY <1>1, <1>6, <2>1 DEF OwnTyped
<1>7. ASSUME NEW op \in {"batchStart", "batchStop"}, handleBatch(op) PROVE TypeInv'
  <2>1. own.selected \in SUBSET Ids /\ op \in DOMAIN Table.calls
    BY <1>1, TunnelsTables DEF BatchOps
  <2> QED BY <1>1, <1>6, <1>7, <2>1, CallMadeTyped DEF handleBatch
<1>8. CASE AskBatchDelete
  <2>1. UNCHANGED <<page, shown, server, cache, calls, missed, own>>
    BY <1>8 DEF AskBatchDelete
  <2>2. OpenTyped'
    <3> DEFINE o == [form |-> "batch", row |-> own.selected]
    <3>1. open' = {o}
      BY <1>8 DEF AskBatchDelete
    <3>2. o.row \in SUBSET Ids /\ o.form = "batch"
      BY <1>1
    <3>3. o \in [form : DOMAIN Table.forms, row : Ids \cup {None} \cup SUBSET Ids]
      BY <1>1, TunnelsTables
    <3> HIDE DEF o
    <3> QED BY <1>1, <2>1, <3>1, <3>2, <3>3, SameTable DEF OpenTyped, IsBatchForm
  <2> QED BY <2>1, <2>2, SameCalls, SameOwn, Assemble DEF TypeInv
<1>9. CASE handleBatchDelete
  <2>1. PICK o \in open : o.form = "batch" /\ Submit("batchDelete", o.row)
    BY <1>9 DEF handleBatchDelete
  <2>2. o.row \in SUBSET Ids
    BY <1>1, <2>1 DEF TypeInv, OpenTyped, IsBatchForm
  <2>3. "batchDelete" \in DOMAIN Table.calls
    BY <1>1, TunnelsTables DEF BatchOps
  <2> QED BY <1>1, <1>6, <1>9, <2>1, <2>2, <2>3, CallMadeTyped DEF handleBatchDelete
<1> QED BY <1>3, <1>4, <1>5, <1>7, <1>8, <1>9 DEF SelectStep

LEMMA OnboardingOps ==
    ASSUME page = "onboarding"
    PROVE  /\ DOMAIN Table.calls = {"org", "tunnel", "complete"}
           /\ DOMAIN Table.forms = {} /\ DOMAIN Table.buttons = {}
           /\ Table.calls["org"].by = "org" /\ Table.calls["tunnel"].by = "tunnel"
           /\ Table.calls["complete"].by = "complete"
           /\ Table.calls["org"].does = "keep" /\ Table.calls["tunnel"].does = "add"
           /\ Table.calls["complete"].does = "keep"
           /\ \A op \in DOMAIN Table.calls : Table.calls[op].reads = FALSE
<1>1. Table.calls = OnboardingCalls /\ Table.forms = NoForms /\ Table.buttons = NoButtons
  BY PageTable, PageFields DEF Table
<1> QED BY <1>1, CallFields, NothingToPress DEF OnboardingCalls

LEMMA WizardTyped ==
    ASSUME TypeInv, WizardStep
    PROVE  TypeInv'
<1>1. page = "onboarding" /\ shown /\ own \in [step : 1..STEPS, org : BOOLEAN, createdTunnel : BOOLEAN]
  BY DEF WizardStep, WizardNext, WizardBack, WizardSubmit, handleFinish, OnStep, TypeInv, OwnTyped
<1>2. CASE WizardNext \/ WizardBack
  <2>1. UNCHANGED <<page, shown, open, server, cache, calls, missed>>
    BY <1>2 DEF WizardNext, WizardBack, listVars
  <2>2. nextStep \in 1..STEPS /\ prevStep \in 1..STEPS
    BY <1>1 DEF nextStep, prevStep, STEPS
  <2>3. own' \in [step : 1..STEPS, org : BOOLEAN, createdTunnel : BOOLEAN]
    BY <1>1, <1>2, <2>2 DEF WizardNext, WizardBack
  <2>4. OwnTyped'
    BY <1>1, <2>1, <2>3 DEF OwnTyped
  <2> QED BY <2>1, <2>4, SameCalls, FewerOpen, Assemble DEF TypeInv
<1>3. CASE WizardSubmit \/ handleFinish
  <2>1. UNCHANGED <<page, shown, open, server, cache, missed, own>>
    BY <1>3 DEF WizardSubmit, handleFinish
  <2>2. PICK op \in {"org", "tunnel", "complete"} : Submit(op, {})
    BY <1>3 DEF WizardSubmit, handleFinish
  <2> QED BY <1>1, <2>1, <2>2, OnboardingOps, CallMadeTyped, SameOwn DEF TypeInv
<1> QED BY <1>2, <1>3 DEF WizardStep

LEMMA SecurityOps ==
    ASSUME page = "security"
    PROVE  /\ DOMAIN Table.calls = {"enroll", "verify", "disable", "verifyMe", "disableMe"}
           /\ DOMAIN Table.forms = {} /\ DOMAIN Table.buttons = {}
           /\ \A op \in DOMAIN Table.calls : Table.calls[op].does # "add"
           /\ Table.calls["enroll"].does = "keep"
           /\ Table.calls["verify"].does = "on" /\ Table.calls["disable"].does = "off"
           /\ Table.calls["verifyMe"].does = "keep" /\ Table.calls["disableMe"].does = "keep"
           /\ Table.calls["enroll"].reads = FALSE
<1>1. Table.calls = SecurityCalls /\ Table.forms = NoForms /\ Table.buttons = NoButtons
  BY PageTable, PageFields DEF Table
<1> QED BY <1>1, CallFields, NothingToPress DEF SecurityCalls

LEMMA MFATyped ==
    ASSUME TypeInv, handleMFA
    PROVE  TypeInv'
<1>1. page = "security" /\ shown /\ UNCHANGED <<page, shown, open, server, cache, missed, own>>
  BY DEF handleMFA, OnSecurity
<1>2. PICK op \in {"enroll", "verify", "disable"}, xs \in SUBSET Ids : Submit(op, xs)
  BY DEF handleMFA
<1> QED BY <1>1, <1>2, SecurityOps, CallMadeTyped, SameOwn DEF TypeInv

\* A call that would change the page finds it mounted.
LEMMA LiveShown == ASSUME CallsInv, NEW i \in Slots, calls[i].live PROVE shown
BY DEF CallsInv, AwayIsIdle

LEMMA ServedTyped ==
    ASSUME TypeInv, NEW i \in Busy, Served(i), own' = own
    PROVE  TypeInv'
<1>1. i \in Slots /\ calls[i] # NoCall
  BY DEF Busy
<1>2. UNCHANGED <<page, shown, open, cache, missed>> /\ server' \in Rows
  BY <1>1, OutcomesTyped DEF Served, TypeInv, CallsInv
<1>3. calls[i] \in CallOrNone \ {NoCall}
  BY <1>1 DEF TypeInv, CallsInv, CallsTyped
<1>4. calls[i].xs \in SUBSET Ids
  BY <1>3 DEF CallOrNone
<1>5. calls' = [calls EXCEPT ![i].phase = "done", ![i].xs = calls[i].xs]
  <2>1. [calls[i] EXCEPT !.phase = "done"] = [calls[i] EXCEPT !.phase = "done", !.xs = calls[i].xs]
    BY <1>3 DEF CallOrNone
  <2> QED BY <1>1, <2>1 DEF Served, TypeInv, CallsInv, CallsTyped
<1>6. CallsInv'
  BY <1>1, <1>2, <1>4, <1>5, ServeKeepsCalls DEF TypeInv
<1> QED BY <1>2, <1>6, FewerOpen, SameOwn DEF TypeInv

LEMMA ReadServedTyped ==
    ASSUME TypeInv, NEW i \in Busy, ReadServed(i)
    PROVE  TypeInv'
<1>1. i \in Slots /\ calls[i] # NoCall
  BY DEF Busy
<1>2. UNCHANGED <<page, shown, open, server, cache, own>> /\ missed' \in BOOLEAN
  BY DEF ReadServed
<1>3. PICK xs \in SUBSET Ids : calls' = [calls EXCEPT ![i].phase = "done", ![i].xs = xs]
  BY DEF ReadServed, Having
<1>4. CallsInv'
  BY <1>1, <1>2, <1>3, ServeKeepsCalls DEF TypeInv
<1> QED BY <1>2, <1>4, FewerOpen, SameOwn DEF TypeInv

LEMMA InvalidatedTyped ==
    ASSUME NEW q \in Query
    PROVE  Invalidated(q) \in Query
<1>1. [q EXCEPT !.fresh = FALSE] \in Query
  BY StaleTyped
<1> HIDE DEF Query
<1> QED BY <1>1, RefetchTyped DEF Invalidated

LEMMA SucceededTyped ==
    ASSUME TypeInv, NEW i \in Busy, Succeeded(i), OwnTyped'
    PROVE  TypeInv'
<1> DEFINE c == Table.calls[calls[i].op]
<1>1. i \in Slots /\ calls[i] # NoCall
  BY DEF Busy
<1>2. UNCHANGED <<page, shown, server>> /\ missed' \in BOOLEAN /\ calls' = Others(i)
  BY DEF Succeeded, Ended
<1>3. cache' \in Query
  BY InvalidatedTyped DEF Succeeded, TypeInv
<1>4. CallsInv'
  BY <1>1, <1>2, EndKeepsCalls DEF TypeInv
<1>5. OpenTyped'
  <2>1. calls[i].op \in DOMAIN Table.calls
    BY <1>1, Named DEF TypeInv, CallsInv
  <2>2. c.opens \subseteq DOMAIN Table.forms
    BY <2>1, TablesFit DEF TypeInv, CallsInv, CallsTyped, Table, CallsFit
  <2>3. page = "tunnels" => c.opens = {}
    BY <2>1, TunnelsTables
  <2>4. open' \subseteq open \cup {[form |-> f, row |-> None] : f \in c.opens}
    BY DEF Succeeded
  <2> HIDE DEF c
  <2>5. ASSUME NEW o \in {[form |-> f, row |-> None] : f \in c.opens}
        PROVE  /\ o \in [form : DOMAIN Table.forms, row : Ids \cup {None} \cup SUBSET Ids]
               /\ ~IsBatchForm(o) /\ o.row \in Ids \cup {None}
    BY <2>2, <2>3 DEF IsBatchForm
  <2>6. ASSUME NEW o PROVE IsBatchForm(o)' = IsBatchForm(o)
    BY <1>2 DEF IsBatchForm
  <2> QED BY <1>2, <2>4, <2>5, <2>6, SameTable DEF TypeInv, OpenTyped
<1> QED BY <1>2, <1>3, <1>4, <1>5 DEF TypeInv

LEMMA FailedTyped ==
    ASSUME TypeInv, NEW i \in Busy, Failed(i), OwnTyped'
    PROVE  TypeInv'
<1>1. i \in Slots /\ calls[i] # NoCall
  BY DEF Busy
<1>2. UNCHANGED <<page, shown, open, cache>> /\ calls' = Others(i)
  BY DEF Failed, Ended
<1>3. server' \in Rows /\ missed' \in BOOLEAN
  BY <1>1, OutcomesTyped DEF Failed, TypeInv, CallsInv
<1>4. CallsInv'
  BY <1>1, <1>2, EndKeepsCalls DEF TypeInv
<1> QED BY <1>2, <1>3, <1>4, FewerOpen DEF TypeInv

\* The batch calls are those of Tunnels.tsx.
LEMMA BatchOnTunnels ==
    ASSUME CallsInv, NEW i \in Slots, IsBatch(i)
    PROVE  page = "tunnels" /\ calls[i] # NoCall /\ calls[i].op \in BatchOps
<1>1. calls[i].op \in BatchOps
  BY DEF IsBatch, BatchOps
<1>2. calls[i].op # "none"
  BY DEF IsBatch
<1>3. calls[i].op \in DOMAIN Table.calls
  BY <1>2, Named DEF CallsInv
<1> QED BY <1>1, <1>2, <1>3, Named, TablesFit DEF CallsInv, CallsTyped, Table

LEMMA BatchTyped ==
    ASSUME TypeInv, NEW i \in Busy, BatchSucceeded(i) \/ BatchFailed(i)
    PROVE  TypeInv'
<1>1. i \in Slots /\ calls[i] # NoCall /\ page = "tunnels" /\ UNCHANGED <<page, shown>>
  BY BatchOnTunnels DEF Busy, BatchSucceeded, BatchFailed, Failed, TypeInv
<1>2. CASE calls[i].live
  <2>1. shown /\ own \in [selected : SUBSET Ids, batchProcessing : BOOLEAN]
    BY <1>1, <1>2, LiveShown DEF TypeInv, OwnTyped
  <2>2. \/ own' = [own EXCEPT !.selected = {}, !.batchProcessing = FALSE]
        \/ own' = [own EXCEPT !.batchProcessing = FALSE]
    BY <1>2 DEF BatchSucceeded, BatchFailed
  <2>3. own' \in [selected : SUBSET Ids, batchProcessing : BOOLEAN]
    BY <2>1, <2>2
  <2>4. OwnTyped'
    BY <1>1, <2>1, <2>3 DEF OwnTyped
  <2> QED BY <2>4, FailedTyped, <1>1, EndKeepsCalls, RefetchTyped, FewerOpen
          DEF BatchSucceeded, BatchFailed, TypeInv, Ended
<1>3. CASE ~calls[i].live
  <2>1. OwnTyped'
    BY <1>1, <1>3, SameOwn DEF BatchSucceeded, BatchFailed, TypeInv
  <2> QED BY <2>1, FailedTyped, <1>1, EndKeepsCalls, RefetchTyped, FewerOpen
          DEF BatchSucceeded, BatchFailed, TypeInv, Ended
<1> QED BY <1>2, <1>3

LEMMA KeyCreatedTyped ==
    ASSUME TypeInv, NEW i \in Busy, KeyCreated(i)
    PROVE  TypeInv'
<1>1. i \in Slots /\ page = "apikeys" /\ UNCHANGED <<page, shown>> /\ Succeeded(i)
  BY DEF Busy, KeyCreated, Succeeded
<1>2. CASE calls[i].live
  <2>1. shown /\ own \in [createdKey : BOOLEAN]
    BY <1>1, <1>2, LiveShown DEF TypeInv, OwnTyped
  <2>2. own' \in [createdKey : BOOLEAN]
    BY <1>2, <2>1 DEF KeyCreated
  <2>3. OwnTyped'
    BY <1>1, <2>1, <2>2 DEF OwnTyped
  <2> QED BY <1>1, <2>3, SucceededTyped
<1>3. CASE ~calls[i].live
  <2>1. OwnTyped'
    BY <1>1, <1>3, SameOwn DEF KeyCreated, TypeInv
  <2> QED BY <1>1, <2>1, SucceededTyped
<1> QED BY <1>2, <1>3

LEMMA WizardAnswerTyped ==
    ASSUME TypeInv, NEW i \in Busy, handleCreateOrg(i) \/ handleCreateTunnel(i)
    PROVE  TypeInv'
<1>1. i \in Slots /\ page = "onboarding" /\ UNCHANGED <<page, shown>> /\ Succeeded(i)
  BY DEF Busy, handleCreateOrg, handleCreateTunnel, Succeeded
<1>2. CASE calls[i].live
  <2>1. shown /\ own \in [step : 1..STEPS, org : BOOLEAN, createdTunnel : BOOLEAN]
    BY <1>1, <1>2, LiveShown DEF TypeInv, OwnTyped
  <2>2. nextStep \in 1..STEPS
    BY <2>1 DEF nextStep, STEPS
  <2>3. \/ own' = [own EXCEPT !.org = TRUE, !.step = nextStep]
        \/ own' = [own EXCEPT !.createdTunnel = TRUE, !.step = nextStep]
    BY <1>2 DEF handleCreateOrg, handleCreateTunnel
  <2>4. own' \in [step : 1..STEPS, org : BOOLEAN, createdTunnel : BOOLEAN]
    BY <2>1, <2>2, <2>3
  <2>5. OwnTyped'
    BY <1>1, <2>1, <2>4 DEF OwnTyped
  <2> QED BY <1>1, <2>5, SucceededTyped
<1>3. CASE ~calls[i].live
  <2>1. OwnTyped'
    BY <1>1, <1>3, SameOwn DEF handleCreateOrg, handleCreateTunnel, TypeInv
  <2> QED BY <1>1, <2>1, SucceededTyped
<1> QED BY <1>2, <1>3

LEMMA FinishedTyped ==
    ASSUME TypeInv, NEW i \in Busy, Finished(i)
    PROVE  TypeInv'
<1>1. i \in Slots /\ calls[i] # NoCall
  BY DEF Busy
<1>2. UNCHANGED <<page, open, server, cache, missed>> /\ shown' = FALSE /\ own' = None
  BY DEF Finished
<1>3. CallsInv'
  BY <1>1, <1>2, LeaveKeepsCalls DEF Finished, TypeInv
<1> QED BY <1>2, <1>3, FewerOpen, GoneOwn, Assemble DEF TypeInv

LEMMA RolesAnswerTyped ==
    ASSUME TypeInv, NEW i \in Busy, fetchRoles(i) \/ RolesChanged(i)
    PROVE  TypeInv'
<1>1. i \in Slots /\ calls[i] # NoCall /\ page = "roles" /\ UNCHANGED <<page, shown, server, own>>
  BY DEF Busy, fetchRoles, RolesChanged
<1>2. OwnTyped'
  BY <1>1, SameOwn DEF TypeInv
<1>3. CASE fetchRoles(i)
  <2>1. \A xs : [x \in Ids |-> IF x \in xs THEN NewRow ELSE NoRow] \in Rows
    BY RowTypes DEF Rows
  <2>2. [x \in Ids |-> NoRow] \in Rows
    BY RowTypes DEF Rows
  <2>3. cache' \in Query
    BY <1>3, <2>1, <2>2, ShowsTyped DEF fetchRoles, TypeInv
  <2>4. missed' \in BOOLEAN /\ open' = open
    BY <1>3 DEF fetchRoles
  <2>5. CallsInv'
    BY <1>1, <1>3, EndKeepsCalls DEF fetchRoles, Ended, TypeInv
  <2> QED BY <1>1, <1>2, <2>3, <2>4, <2>5, FewerOpen DEF TypeInv
<1>4. CASE RolesChanged(i)
  <2>1. CallsInv'
    BY <1>1, <1>4, EndKeepsCalls, FollowKeepsCalls, RolesOps DEF RolesChanged, Ended, TypeInv
  <2>2. cache' \in Query /\ missed' \in BOOLEAN /\ open' \subseteq open
    BY <1>4, NoDataTyped DEF RolesChanged, TypeInv
  <2> QED BY <1>1, <1>2, <2>1, <2>2, FewerOpen DEF TypeInv
<1> QED BY <1>3, <1>4

LEMMA SecurityAnswerTyped ==
    ASSUME TypeInv, NEW i \in Busy, handleEnrollMFA(i) \/ MFAChanged(i) \/ fetchUser(i)
    PROVE  TypeInv'
<1>1. i \in Slots /\ calls[i] # NoCall /\ page = "security" /\ page' = page
  BY DEF Busy, handleEnrollMFA, MFAChanged, fetchUser, Succeeded
<1>2. ASSUME NEW v \in BOOLEAN, calls[i].live, own' = [own EXCEPT !.secret = v], shown' = shown
      PROVE  OwnTyped'
  <2>1. shown /\ own \in [secret : BOOLEAN]
    BY <1>1, <1>2, LiveShown DEF TypeInv, OwnTyped
  <2>2. own' \in [secret : BOOLEAN]
    BY <1>2, <2>1
  <2> QED BY <1>1, <1>2, <2>1, <2>2 DEF OwnTyped
<1>3. CASE handleEnrollMFA(i)
  <2>1. shown' = shown /\ Succeeded(i)
    BY <1>3 DEF handleEnrollMFA, Succeeded
  <2>2. OwnTyped'
    BY <1>1, <1>2, <1>3, <2>1, SameOwn DEF handleEnrollMFA, TypeInv
  <2> QED BY <2>1, <2>2, SucceededTyped
<1>4. CASE MFAChanged(i)
  <2>1. UNCHANGED <<page, shown, open, server, cache, missed>>
    BY <1>4 DEF MFAChanged
  <2>2. OwnTyped'
    BY <1>1, <1>2, <1>4, <2>1, SameOwn DEF MFAChanged, TypeInv
  <2>3. PICK op \in {"verifyMe", "disableMe"} : Followed(i, op)
    BY <1>4 DEF MFAChanged
  <2>4. CallsInv'
    BY <1>1, <2>1, <2>3, SecurityOps, FollowKeepsCalls DEF TypeInv
  <2> QED BY <2>1, <2>2, <2>4, FewerOpen, Assemble DEF TypeInv
<1>5. CASE fetchUser(i)
  <2>1. UNCHANGED <<page, open, server>> /\ missed' \in BOOLEAN
    BY <1>5 DEF fetchUser
  <2>2. CASE /\ Ended(i) /\ UNCHANGED <<shown, own>>
             /\ Shows([x \in Ids |-> [here |-> TRUE, on |-> x \in calls[i].xs]], TRUE)
    <3>1. CallsInv'
      BY <1>1, <2>1, <2>2, EndKeepsCalls DEF Ended, TypeInv
    <3>2. \A x \in Ids : (x \in calls[i].xs) \in BOOLEAN
      OBVIOUS
    <3>3. [x \in Ids |-> [here |-> TRUE, on |-> x \in calls[i].xs]] \in Rows
      BY <3>2, RowTypes DEF Rows
    <3>4. cache' \in Query
      BY <2>2, <3>3, ShowsTyped
    <3> QED BY <2>1, <2>2, <3>1, <3>4, FewerOpen, SameOwn DEF TypeInv
  <2>3. CASE calls' = LeftBehind(Others(i)) /\ cache' = NoData /\ shown' = FALSE /\ own' = None
    <3>1. CallsInv'
      BY <1>1, <2>1, <2>3, LeaveKeepsCalls DEF TypeInv
    <3> QED BY <2>1, <2>3, <3>1, FewerOpen, GoneOwn, NoDataTyped DEF TypeInv
  <2> QED BY <1>5, <2>2, <2>3 DEF fetchUser
<1> QED BY <1>3, <1>4, <1>5

LEMMA AnsweredTyped ==
    ASSUME TypeInv, NEW i \in Busy, Answered(i)
    PROVE  TypeInv'
<1>1. ASSUME Succeeded(i) \/ Failed(i), own' = own PROVE TypeInv'
  <2>1. OwnTyped'
    BY <1>1, SameOwn DEF Succeeded, Failed, TypeInv
  <2> QED BY <1>1, <2>1, SucceededTyped, FailedTyped
<1> QED BY <1>1, BatchTyped, KeyCreatedTyped, WizardAnswerTyped, FinishedTyped, RolesAnswerTyped,
        SecurityAnswerTyped DEF Answered

LEMMA NextTypeInv ==
    ASSUME TypeInv, [ConsoleNext]_consoleVars
    PROVE  TypeInv'
<1>1. CASE PageStep
  <2>1. ASSUME NEW o, CloseForm(o), own' = own PROVE TypeInv'
    BY <2>1, CloseTyped
  <2>2. ASSUME CloseKeyDialog PROVE TypeInv'
    BY <2>2, CloseTyped DEF CloseKeyDialog
  <2>3. ASSUME Asking, own' = own PROVE TypeInv'
    BY <2>3, OpenFormTyped, SubmitFormTyped, PressTyped DEF Asking
  <2> QED BY <1>1, <2>1, <2>2, <2>3, FetchingTyped, MountTyped, RolesMountTyped, LeaveTyped DEF PageStep
<1>2. CASE SelectStep \/ WizardStep \/ handleMFA
  BY <1>2, SelectTyped, WizardTyped, MFATyped
<1>3. ASSUME NEW i \in Busy, (Served(i) /\ UNCHANGED own) \/ ReadServed(i) \/ Answered(i)
      PROVE  TypeInv'
  BY <1>3, ServedTyped, ReadServedTyped, AnsweredTyped
<1>4. CASE UNCHANGED consoleVars
  <2>1. UNCHANGED <<page, shown, open, server, cache, calls, missed, own>>
    BY <1>4 DEF consoleVars
  <2> QED BY <2>1, SameCalls, FewerOpen, SameOwn, Assemble DEF TypeInv
<1> QED BY <1>1, <1>2, <1>3, <1>4 DEF ConsoleNext

LEMMA InitTypeInv == ConsoleInit => TypeInv
<1> SUFFICES ASSUME ConsoleInit PROVE TypeInv
  OBVIOUS
<1>1. PICK p \in DOMAIN Pages, rows \in {[x \in Ids |-> NoRow], [x \in Ids |-> NewRow]} :
         ListInit(p, rows)
  BY DEF ConsoleInit
<1>2. page \in DOMAIN Pages /\ shown = FALSE /\ open = {} /\ missed = FALSE /\ own = None
  BY <1>1 DEF ListInit, ConsoleInit
<1>3. server \in Rows
  BY <1>1, RowTypes DEF ListInit, Rows
<1>4. cache \in Query
  BY <1>1, NoDataTyped DEF ListInit
<1>5. calls = [i \in Slots |-> NoCall]
  BY <1>1 DEF ListInit
<1>6. CallsTyped
  BY <1>2, <1>5 DEF CallsTyped, CallOrNone
<1>7. Packed
  <2>1. UpTo(0)
    BY <1>5, BoundAssumption DEF UpTo, Slots
  <2> QED BY <2>1 DEF Packed
<1>8. AwayIsIdle
  <2>1. NoCall.live = FALSE
    BY DEF NoCall
  <2> QED BY <1>5, <2>1 DEF AwayIsIdle
<1>9. OpenTyped /\ OwnTyped
  BY <1>2 DEF OpenTyped, OwnTyped
<1> QED BY <1>2, <1>3, <1>4, <1>6, <1>7, <1>8, <1>9 DEF TypeInv, CallsInv

\* The inductive invariant of types of the console.
THEOREM ConsoleTypeInvariance == ConsoleSpec => []TypeInv
<1>1. TypeInv /\ [ConsoleNext]_consoleVars => TypeInv'
  BY NextTypeInv
<1> QED BY <1>1, InitTypeInv, PTL DEF ConsoleSpec

\* The state of every page keeps its type: in particular a late answer never
\* writes the state of a page that is gone, and every call under way is one
\* the page's table has.
THEOREM ConsoleTypeCorrect == ConsoleSpec => []ConsoleTypeOK
<1>1. TypeInv => ConsoleTypeOK
  <2> SUFFICES ASSUME TypeInv PROVE ConsoleTypeOK
    OBVIOUS
  <2>1. \A i \in Slots : calls[i] \in CallOrNone
    BY DEF TypeInv, CallsInv, CallsTyped
  <2>2. \A i \in Slots : calls[i] = NoCall \/
          /\ calls[i].op \in DOMAIN Table.calls
          /\ calls[i].xs \subseteq Ids
          /\ calls[i].phase \in {"sent", "done"}
          /\ calls[i].live \in BOOLEAN /\ calls[i].held \in BOOLEAN
    BY <2>1 DEF CallOrNone
  <2>3. \A o \in open : o.form \in DOMAIN Table.forms /\ o.row \in Ids \cup {None} \cup SUBSET Ids
    BY DEF TypeInv, OpenTyped
  <2> QED BY <2>2, <2>3 DEF TypeInv, OwnTyped, CallsInv, CallsTyped, ConsoleTypeOK
<1> QED BY <1>1, ConsoleTypeInvariance, PTL


(***************************************************************************)
(* How a step changes the calls under way.  Single mutations are the ones  *)
(* whose buttons wait for them: everything that creates a row, and the     *)
(* first call of the wizard.                                               *)
(***************************************************************************)
Single(m) == Creates(Table.calls, m) \/ (page = "onboarding" /\ m = "org")

MutationOf(op) == Table.calls[op].by

LEMMA NotSingle ==
    /\ page = "tunnels" => \A op \in BatchOps : MutationOf(op) = "batch" /\ ~Single("batch")
    /\ page = "roles" => ~Single(MutationOf("fetch"))
    /\ page = "security" => \A op \in DOMAIN Table.calls : ~Single(MutationOf(op))
    /\ page = "onboarding" => ~Single(MutationOf("complete"))
<1>1. ASSUME page = "tunnels"
      PROVE  \A op \in BatchOps : MutationOf(op) = "batch" /\ ~Single("batch")
  <2>1. Table.calls = TunnelsCalls
    BY <1>1, PageTable, PageFields DEF Table
  <2>2. \A op \in BatchOps : TunnelsCalls[op].by = "batch"
    BY CallFields DEF TunnelsCalls, BatchOps
  <2>3. ~Creates(TunnelsCalls, "batch")
    BY CallFields, HookCalls DEF TunnelsCalls, Creates
  <2> QED BY <1>1, <2>1, <2>2, <2>3 DEF MutationOf, Single
<1>2. ASSUME page = "roles" PROVE ~Single(MutationOf("fetch"))
  <2>1. Table.calls = RolesCalls
    BY <1>2, PageTable, PageFields DEF Table
  <2>2. RolesCalls["fetch"].by = "fetch" /\ ~Creates(RolesCalls, "fetch")
    BY CallFields DEF RolesCalls, Creates
  <2> QED BY <1>2, <2>1, <2>2 DEF MutationOf, Single
<1>3. ASSUME page = "security" PROVE \A op \in DOMAIN Table.calls : ~Single(MutationOf(op))
  BY <1>3, SecurityOps DEF Single, Creates
<1>4. ASSUME page = "onboarding" PROVE ~Single(MutationOf("complete"))
  BY <1>4, OnboardingOps DEF Single, Creates, MutationOf
<1> QED BY <1>1, <1>2, <1>3, <1>4

\* A call is made: of a single mutation only when none of it is pending.
Made(op, xs) ==
    /\ op \in DOMAIN Table.calls /\ xs \in SUBSET Ids
    /\ Submit(op, xs)
    /\ Single(MutationOf(op)) => ~Pending(MutationOf(op))

Answering(i, xs) == calls' = [calls EXCEPT ![i].phase = "done", ![i].xs = xs]

Reread(i, op) == op \in ReadOps \cap DOMAIN Table.calls /\ ~Single(MutationOf(op)) /\ Followed(i, op)

CallsMove ==
    \/ calls' = calls
    \/ \E op, xs : Made(op, xs)
    \/ \E i \in Busy : \E xs : Answering(i, xs)
    \/ \E i \in Busy : calls' = Others(i)
    \/ ~shown'
    \/ \E i \in Busy : \E op : Reread(i, op)

Submits(o) == IF o.row = None THEN Table.forms[o.form].new ELSE Table.forms[o.form].old

LEMMA TableFits ==
    ASSUME TypeInv
    PROVE  /\ CreationsWait(Table.calls, Table.forms, Table.buttons)
           /\ CallsFit(Table.calls, Table.forms, Table.buttons)
BY TablesFit DEF TypeInv, CallsInv, CallsTyped, Table

LEMMA SubmitFormMakes ==
    ASSUME TypeInv, NEW o \in open, SubmitForm(o)
    PROVE  \E xs : Made(Submits(o), xs)
<1> DEFINE f == Table.forms[o.form]
           op == Submits(o)
<1>1. Enabled(f.waits) /\ op # "none" /\ Submit(op, Sent(op, o.row))
  BY DEF SubmitForm, Submits
<1>2. o.form \in DOMAIN Table.forms
  BY DEF TypeInv, OpenTyped
<1>3. op \in DOMAIN Table.calls
  BY <1>1, <1>2, TableFits DEF CallsFit, Submits
<1>4. o.row \in Ids \cup {None}
  <2>1. ~IsBatchForm(o)
    <3> SUFFICES ASSUME page = "tunnels", o.form = "batch" PROVE FALSE
      BY DEF IsBatchForm
    <3>1. Table.forms["batch"].new = "none" /\ Table.forms["batch"].old = "none"
      BY PageTable, PageFields DEF Table, TunnelsForms, Form
    <3> QED BY <1>1, <3>1 DEF Submits
  <2> QED BY <2>1 DEF TypeInv, OpenTyped
<1>5. Sent(op, o.row) \in SUBSET Ids
  BY <1>4, SentTyped
<1>6. ASSUME Single(MutationOf(op)) PROVE ~Pending(MutationOf(op))
  <2>1. page # "onboarding"
    BY <1>2, OnboardingOps
  <2>2. PICK a \in DOMAIN Table.calls : Table.calls[a].does = "add" /\ Table.calls[a].by = MutationOf(op)
    BY <1>6, <2>1 DEF Single, Creates
  <2>3. MutationOf(op) \in f.waits
    BY <1>1, <1>2, <2>2, TableFits DEF CreationsWait, MutationOf, Submits
  <2> QED BY <1>1, <2>3 DEF Enabled
<1> HIDE DEF op
<1>7. Made(op, Sent(op, o.row))
  BY <1>1, <1>3, <1>5, <1>6 DEF Made
<1> QED BY <1>7 DEF op

LEMMA PressMakes ==
    ASSUME TypeInv, NEW op \in DOMAIN Table.buttons, Press(op)
    PROVE  \E xs : Made(op, xs)
<1>1. PICK xs \in SUBSET Ids : Submit(op, xs)
  <2>1. CASE Submit(op, {})
    BY <2>1
  <2>2. CASE \E x \in ListedIn(Table.buttons[op].on) : Submit(op, {x})
    BY <2>2, ListedTyped
  <2> QED BY <2>1, <2>2 DEF Press
<1>2. op \in DOMAIN Table.calls
  BY TableFits DEF CallsFit
<1>3. ASSUME Single(MutationOf(op)) PROVE ~Pending(MutationOf(op))
  <2>1. page # "onboarding"
    BY OnboardingOps
  <2>2. PICK a \in DOMAIN Table.calls : Table.calls[a].does = "add" /\ Table.calls[a].by = MutationOf(op)
    BY <1>3, <2>1 DEF Single, Creates
  <2>3. MutationOf(op) \in Table.buttons[op].waits
    BY <2>2, TableFits DEF CreationsWait, MutationOf
  <2> QED BY <2>3 DEF Press, Enabled
<1> QED BY <1>1, <1>2, <1>3 DEF Made

\* What the user does to forms and buttons.
LEMMA AskingMoves ==
    ASSUME TypeInv, Asking
    PROVE  /\ UNCHANGED <<page, shown, server, cache, missed>>
           /\ \/ calls' = calls
              \/ \E o \in open : SubmitForm(o) /\ \E xs : Made(Submits(o), xs)
              \/ \E op \in DOMAIN Table.buttons : \E xs : Made(op, xs)
<1>1. ASSUME NEW f, OpenForm(f) PROVE calls' = calls
  BY <1>1 DEF OpenForm
<1>2. UNCHANGED <<page, shown, server, cache, missed>>
  BY DEF Asking, OpenForm, SubmitForm, Press
<1> QED BY <1>1, <1>2, SubmitFormMakes, PressMakes DEF Asking

\* The server does its part of a call.
LEMMA ServesAnswer ==
    ASSUME TypeInv, NEW i \in Busy, Served(i) \/ ReadServed(i)
    PROVE  \E xs : Answering(i, xs)
<1>1. i \in Slots /\ calls[i] \in CallOrNone \ {NoCall}
  BY DEF Busy, TypeInv, CallsInv, CallsTyped
<1>2. [calls[i] EXCEPT !.phase = "done"] = [calls[i] EXCEPT !.phase = "done", !.xs = calls[i].xs]
  BY <1>1 DEF CallOrNone
<1> QED BY <1>1, <1>2 DEF Served, ReadServed, TypeInv, CallsInv, CallsTyped, Answering

\* The batch operations.
LEMMA SelectMoves ==
    ASSUME TypeInv, SelectStep
    PROVE  page' = page /\ (calls' = calls \/ \E op, xs : Made(op, xs))
<1>1. page = "tunnels" /\ shown /\ own \in [selected : SUBSET Ids, batchProcessing : BOOLEAN]
  BY DEF SelectStep, toggleSelect, toggleSelectAll, clearSelection, handleBatch, AskBatchDelete,
         handleBatchDelete, OnList, Reachable, TypeInv, OwnTyped
<1>2. page' = page
  BY DEF SelectStep, toggleSelect, toggleSelectAll, clearSelection, handleBatch, AskBatchDelete,
         handleBatchDelete, listVars
<1>3. ASSUME NEW op \in BatchOps, NEW xs \in SUBSET Ids, Submit(op, xs) PROVE Made(op, xs)
  BY <1>1, <1>3, TunnelsTables, NotSingle DEF Made
<1>4. ASSUME handleBatchDelete PROVE \E op, xs : Made(op, xs)
  <2>1. PICK o \in open : o.form = "batch" /\ Submit("batchDelete", o.row)
    BY <1>4 DEF handleBatchDelete
  <2>2. o.row \in SUBSET Ids
    BY <1>1, <2>1 DEF TypeInv, OpenTyped, IsBatchForm
  <2> QED BY <1>3, <2>1, <2>2 DEF BatchOps
<1>5. ASSUME NEW op \in BatchOps, handleBatch(op) PROVE Made(op, own.selected)
  BY <1>1, <1>3, <1>5 DEF handleBatch
<1>6. ASSUME toggleSelect \/ toggleSelectAll \/ clearSelection \/ AskBatchDelete PROVE calls' = calls
  BY <1>6 DEF toggleSelect, toggleSelectAll, clearSelection, AskBatchDelete, listVars
<1> QED BY <1>2, <1>4, <1>5, <1>6 DEF SelectStep, BatchOps

LEMMA NextMoves ==
    ASSUME TypeInv, [ConsoleNext]_consoleVars
    PROVE  page' = page /\ CallsMove
<1>1. CASE PageStep
  <2>1. ASSUME Asking PROVE page' = page /\ (calls' = calls \/ \E op, xs : Made(op, xs))
    BY <2>1, AskingMoves
  <2>2. ASSUME RolesMount PROVE page' = page /\ Made("fetch", {})
    BY <2>2, RolesOps, NotSingle DEF RolesMount, Made
  <2>3. ASSUME Fetching PROVE page' = page /\ calls' = calls
    BY <2>3 DEF Fetching, FetchRead, FetchDone, FetchFails, Retry
  <2>4. ASSUME NEW o, CloseForm(o) PROVE page' = page /\ calls' = calls
    BY <2>4 DEF CloseForm
  <2>5. ASSUME Mount PROVE page' = page /\ calls' = calls
    BY <2>5 DEF Mount
  <2>6. ASSUME Leave PROVE page' = page /\ ~shown'
    BY <2>6 DEF Leave
  <2> QED BY <1>1, <2>1, <2>2, <2>3, <2>4, <2>5, <2>6 DEF PageStep, CloseKeyDialog, CallsMove
<1>2. CASE SelectStep
  BY <1>2, SelectMoves DEF CallsMove
<1>3. CASE WizardStep
  <2>1. page = "onboarding" /\ page' = page
    BY <1>3 DEF WizardStep, WizardNext, WizardBack, WizardSubmit, handleFinish, OnStep, listVars
  <2>2. CASE WizardNext \/ WizardBack
    BY <2>1, <2>2 DEF WizardNext, WizardBack, listVars, CallsMove
  <2>3. CASE WizardSubmit
    <3>1. PICK op \in {"org", "tunnel"} : ~Pending(op) /\ Submit(op, {})
      BY <2>3 DEF WizardSubmit
    <3> QED BY <2>1, <3>1, OnboardingOps DEF Made, MutationOf, CallsMove
  <2>4. CASE handleFinish
    BY <2>1, <2>4, OnboardingOps, NotSingle DEF handleFinish, Made, CallsMove
  <2> QED BY <1>3, <2>2, <2>3, <2>4 DEF WizardStep
<1>4. CASE handleMFA
  <2>1. page = "security" /\ page' = page
    BY <1>4 DEF handleMFA, OnSecurity
  <2>2. PICK op \in {"enroll", "verify", "disable"}, xs \in SUBSET Ids : Submit(op, xs)
    BY <1>4 DEF handleMFA
  <2> QED BY <2>1, <2>2, SecurityOps, NotSingle DEF Made, CallsMove
<1>5. ASSUME NEW i \in Busy, Served(i) \/ ReadServed(i) PROVE page' = page /\ \E xs : Answering(i, xs)
  BY <1>5, ServesAnswer DEF Served, ReadServed
<1>7. ASSUME NEW i \in Busy, Answered(i) PROVE page' = page /\ CallsMove
  <2>1. ASSUME Succeeded(i) \/ Failed(i) PROVE page' = page /\ calls' = Others(i)
    BY <2>1 DEF Succeeded, Failed, Ended
  <2>2. ASSUME BatchSucceeded(i) PROVE page' = page /\ calls' = Others(i)
    BY <2>2 DEF BatchSucceeded, Ended
  <2>3. ASSUME Finished(i) PROVE page' = page /\ ~shown'
    BY <2>3 DEF Finished
  <2>4. ASSUME fetchRoles(i) PROVE page' = page /\ calls' = Others(i)
    BY <2>4 DEF fetchRoles, Ended
  <2>5. ASSUME RolesChanged(i) PROVE page' = page /\ (calls' = Others(i) \/ Reread(i, "fetch"))
    BY <2>5, RolesOps, NotSingle DEF RolesChanged, Ended, Reread, ReadOps
  <2>6. ASSUME MFAChanged(i) PROVE page' = page /\ (Reread(i, "verifyMe") \/ Reread(i, "disableMe"))
    BY <2>6, SecurityOps, NotSingle DEF MFAChanged, Reread, ReadOps
  <2>7. ASSUME fetchUser(i) PROVE page' = page /\ (calls' = Others(i) \/ ~shown')
    BY <2>7 DEF fetchUser, Ended
  <2>8. page' = page /\ (calls' = Others(i) \/ ~shown' \/ \E op : Reread(i, op))
    BY <1>7, <2>1, <2>2, <2>3, <2>4, <2>5, <2>6, <2>7
       DEF Answered, BatchFailed, KeyCreated, handleCreateOrg, handleCreateTunnel, handleEnrollMFA
  <2> QED BY <2>8 DEF CallsMove
<1>8. CASE UNCHANGED consoleVars
  BY <1>8 DEF consoleVars, CallsMove
<1> QED BY <1>1, <1>2, <1>3, <1>4, <1>5, <1>7, <1>8 DEF ConsoleNext, CallsMove

(***************************************************************************)
(* One creation at a time.  A call of a single mutation that would change  *)
(* the page is the one its button waits for, and there is only one.        *)
(***************************************************************************)
Sole(c) == c.live /\ Single(MutationOf(c.op))

SoleInv ==
    /\ \A i \in Slots : Sole(calls[i]) => calls[i].held
    /\ \A i, j \in Slots : Sole(calls[i]) /\ Sole(calls[j]) /\ i # j =>
                              MutationOf(calls[i].op) # MutationOf(calls[j].op)

\* The same of the next calls, with the table of the page in this state.
SoleNext ==
    /\ \A i \in Slots : Sole(calls'[i]) => calls'[i].held
    /\ \A i, j \in Slots : Sole(calls'[i]) /\ Sole(calls'[j]) /\ i # j =>
                              MutationOf(calls'[i].op) # MutationOf(calls'[j].op)

LEMMA SoleNextIs == ASSUME page' = page, SoleNext PROVE SoleInv'
BY SameTable DEF SoleInv, SoleNext, Sole, Single, MutationOf, Creates

\* Nothing new is made: every such call was one before.
LEMMA SoleFrom ==
    ASSUME SoleInv, NEW f \in [Slots -> Slots],
           \A j \in Slots : Sole(calls'[j]) =>
               /\ calls[f[j]].live /\ calls[f[j]].op = calls'[j].op /\ calls[f[j]].held = calls'[j].held,
           \A j, k \in Slots : j # k /\ Sole(calls'[j]) /\ Sole(calls'[k]) => f[j] # f[k]
    PROVE  SoleNext
<1>1. ASSUME NEW j \in Slots, Sole(calls'[j]) PROVE Sole(calls[f[j]])
  BY <1>1 DEF Sole
<1>2. ASSUME NEW j \in Slots, Sole(calls'[j]) PROVE calls'[j].held
  <2>1. calls[f[j]].held /\ calls[f[j]].held = calls'[j].held
    BY <1>1, <1>2 DEF SoleInv
  <2> QED BY <2>1
<1>3. ASSUME NEW j \in Slots, NEW k \in Slots, Sole(calls'[j]), Sole(calls'[k]), j # k
      PROVE  MutationOf(calls'[j].op) # MutationOf(calls'[k].op)
  <2>1. f[j] # f[k] /\ Sole(calls[f[j]]) /\ Sole(calls[f[k]])
    BY <1>1, <1>3
  <2>2. MutationOf(calls[f[j]].op) # MutationOf(calls[f[k]].op)
    BY <2>1 DEF SoleInv
  <2>3. calls[f[j]].op = calls'[j].op /\ calls[f[k]].op = calls'[k].op
    BY <1>3
  <2> QED BY <2>2, <2>3
<1> QED BY <1>2, <1>3 DEF SoleNext

LEMMA AnsweringFields ==
    ASSUME CallsTyped, NEW i \in Busy, NEW xs, Answering(i, xs)
    PROVE  /\ \A j \in Slots \ {i} : calls'[j] = calls[j]
           /\ calls'[i].op = calls[i].op /\ calls'[i].live = calls[i].live
           /\ calls'[i].held = calls[i].held
           /\ calls'[i].phase = "done" /\ calls'[i].xs = xs
<1>1. i \in Slots /\ calls[i] \in CallOrNone \ {NoCall} /\ calls \in [Slots -> CallOrNone]
  BY DEF Busy, CallsTyped
<1> DEFINE c == [calls[i] EXCEPT !.phase = "done", !.xs = xs]
<1>2. calls' = [calls EXCEPT ![i] = c]
  BY <1>1 DEF Answering
<1>3. /\ c.op = calls[i].op /\ c.live = calls[i].live /\ c.held = calls[i].held
      /\ c.phase = "done" /\ c.xs = xs
  BY <1>1 DEF CallOrNone
<1> HIDE DEF c
<1> QED BY <1>1, <1>2, <1>3

LEMMA NextSole ==
    ASSUME TypeInv, TypeInv', SoleInv, page' = page, CallsMove
    PROVE  SoleInv'
<1> CallsTyped /\ Packed
  BY DEF TypeInv, CallsInv
<1> NoCall.live = FALSE
  BY DEF NoCall
<1> SUFFICES SoleNext
  BY SoleNextIs
<1>1. CASE calls' = calls
  BY <1>1 DEF SoleInv, SoleNext
<1>2. ASSUME NEW op, NEW xs, Made(op, xs) PROVE SoleNext
  <2>1. PICK n \in Slots :
              /\ calls[n] = NoCall /\ calls'[n] = NewCall(op, xs)
              /\ \A j \in Slots \ {n} :
                    \/ calls'[j] = calls[j] /\ ~(calls[j] # NoCall /\ By(j) = MutationOf(op))
                    \/ /\ calls[j] # NoCall /\ By(j) = MutationOf(op)
                       /\ calls'[j] = [calls[j] EXCEPT !.held = FALSE]
    BY <1>2, SubmitMove DEF Made, MutationOf
  <2>2. calls'[n].op = op /\ calls'[n].held
    BY <2>1 DEF NewCall
  <2>3. ASSUME NEW j \in Slots \ {n}, Sole(calls'[j])
        PROVE  calls'[j] = calls[j] /\ MutationOf(calls[j].op) # MutationOf(op)
    <3>1. CASE calls'[j] = calls[j] /\ ~(calls[j] # NoCall /\ By(j) = MutationOf(op))
      BY <2>3, <3>1 DEF Sole, By, MutationOf
    <3>2. CASE calls[j] # NoCall /\ By(j) = MutationOf(op) /\ calls'[j] = [calls[j] EXCEPT !.held = FALSE]
      <4>1. calls[j] \in CallOrNone \ {NoCall}
        BY <3>2 DEF CallsTyped
      <4>2. calls'[j].op = calls[j].op /\ calls'[j].live = calls[j].live
        BY <3>2, <4>1 DEF CallOrNone
      <4>3. Sole(calls[j])
        BY <2>3, <4>2 DEF Sole
      <4>4. calls[j].held /\ j \in Busy /\ Single(MutationOf(op))
        BY <3>2, <4>3 DEF SoleInv, Busy, Sole, By, MutationOf
      <4>5. Pending(MutationOf(op))
        BY <3>2, <4>4 DEF Pending
      <4> QED BY <1>2, <4>4, <4>5 DEF Made
    <3> QED BY <2>1, <3>1, <3>2
  <2>4. \A j \in Slots : Sole(calls'[j]) => calls'[j].held
    BY <2>2, <2>3 DEF SoleInv
  <2>5. ASSUME NEW j \in Slots, NEW k \in Slots, Sole(calls'[j]), Sole(calls'[k]), j # k
        PROVE  MutationOf(calls'[j].op) # MutationOf(calls'[k].op)
    <3>1. CASE j = n \/ k = n
      BY <2>2, <2>3, <2>5, <3>1
    <3>2. CASE j # n /\ k # n
      BY <2>3, <2>5, <3>2 DEF SoleInv
    <3> QED BY <3>1, <3>2
  <2> QED BY <2>4, <2>5 DEF SoleNext
<1>3. ASSUME NEW i \in Busy, NEW xs, Answering(i, xs) PROVE SoleNext
  <2>1. \A j \in Slots : /\ calls'[j].op = calls[j].op /\ calls'[j].live = calls[j].live
                         /\ calls'[j].held = calls[j].held
    BY <1>3, AnsweringFields
  <2>2. [j \in Slots |-> j] \in [Slots -> Slots]
    OBVIOUS
  <2> DEFINE f == [j \in Slots |-> j]
  <2>3. \A j \in Slots : f[j] = j
    OBVIOUS
  <2> HIDE DEF f
  <2>4. \A j \in Slots : Sole(calls'[j]) =>
               /\ calls[f[j]].live /\ calls[f[j]].op = calls'[j].op /\ calls[f[j]].held = calls'[j].held
    BY <2>1, <2>3 DEF Sole
  <2> QED BY <2>2, <2>3, <2>4, SoleFrom DEF f
<1>4. ASSUME NEW i \in Busy, \A j \in Slots : calls'[j] = Others(i)[j] \/ ~Sole(calls'[j])
      PROVE  SoleNext
  <2>1. i \in Slots
    BY DEF Busy
  <2> DEFINE f == [j \in Slots |-> IF From(i, j) \in Slots THEN From(i, j) ELSE j]
  <2>2. f \in [Slots -> Slots]
    OBVIOUS
  <2>3. ASSUME NEW j \in Slots, Sole(calls'[j])
        PROVE  From(i, j) \in Slots /\ f[j] = From(i, j) /\ calls'[j] = calls[From(i, j)]
    <3>1. calls'[j] = Others(i)[j]
      BY <1>4, <2>3
    <3>2. Others(i)[j] # NoCall
      BY <2>3, <3>1 DEF Sole
    <3>3. From(i, j) \in Slots /\ Others(i)[j] = calls[From(i, j)]
      BY <2>1, <3>2, OthersMove
    <3> QED BY <3>1, <3>3
  <2> HIDE DEF f
  <2>4. \A j, k \in Slots : j # k => From(i, j) # From(i, k)
    BY <2>1, OthersMove
  <2>5. \A j \in Slots : Sole(calls'[j]) =>
               /\ calls[f[j]].live /\ calls[f[j]].op = calls'[j].op /\ calls[f[j]].held = calls'[j].held
    BY <2>3 DEF Sole
  <2>6. \A j, k \in Slots : j # k /\ Sole(calls'[j]) /\ Sole(calls'[k]) => f[j] # f[k]
    BY <2>3, <2>4
  <2> QED BY <2>2, <2>5, <2>6, SoleFrom
<1>5. ASSUME NEW i \in Busy, calls' = Others(i) PROVE SoleNext
  BY <1>4, <1>5
<1>6. CASE ~shown'
  <2>1. \A j \in Slots : ~calls'[j].live
    BY <1>6, SameTable DEF TypeInv, CallsInv, AwayIsIdle
  <2> QED BY <2>1 DEF SoleNext, Sole
<1>7. ASSUME NEW i \in Busy, NEW op, Reread(i, op) PROVE SoleNext
  <2>1. PICK n \in Slots :
              /\ calls'[n] = NextCall(i, op)
              /\ \A j \in Slots \ {n} : calls'[j] = Others(i)[j]
    BY <1>7, FollowMove DEF Reread, Busy
  <2>2. ~Sole(calls'[n])
    BY <1>7, <2>1 DEF Sole, NextCall, Reread
  <2> HIDE DEF Others
  <2> QED BY <1>4, <2>1, <2>2
<1> QED BY <1>1, <1>2, <1>3, <1>5, <1>6, <1>7 DEF CallsMove

LEMMA InitSole == ASSUME ConsoleInit, TypeInv PROVE SoleInv
<1>1. calls = [i \in Slots |-> NoCall] /\ NoCall.live = FALSE
  BY DEF ConsoleInit, ListInit, NoCall
<1> QED BY <1>1 DEF SoleInv, Sole

\* A call of a mounted page whose mutation creates rows is the one its
\* button waits for, and no other call of that mutation is under way, on
\* every page and in every reachable state.
THEOREM SoleInvariance == ConsoleSpec => []SoleInv
<1>1. TypeInv /\ TypeInv' /\ SoleInv /\ [ConsoleNext]_consoleVars => SoleInv'
  BY NextMoves, NextSole
<1>2. ConsoleInit => SoleInv
  BY InitTypeInv, InitSole
<1> QED BY <1>1, <1>2, ConsoleTypeInvariance, PTL DEF ConsoleSpec

\* On every page, for any number of calls under way: the mounted page never
\* has two creations of the same kind under way (isPending of the mutation,
\* which is about its latest call only, still disables the button).
THEOREM OneCreationAtATime == ConsoleSpec => []OneCreation
<1>1. TypeInv /\ SoleInv => OneCreation
  <2> SUFFICES ASSUME TypeInv, SoleInv, NEW i \in Slots, NEW j \in Slots,
                      i # j, calls[i] # NoCall, calls[j] # NoCall, calls[i].live, calls[j].live,
                      Table.calls[calls[i].op].does = "add", calls[i].op = calls[j].op
               PROVE  FALSE
    BY DEF OneCreation
  <2>1. calls[i].op \in DOMAIN Table.calls
    BY Named DEF TypeInv, CallsInv
  <2>2. Single(MutationOf(calls[i].op))
    BY <2>1 DEF Single, Creates, MutationOf
  <2>3. Sole(calls[i]) /\ Sole(calls[j])
    BY <2>2 DEF Sole
  <2> QED BY <2>3 DEF SoleInv
<1> QED BY <1>1, SoleInvariance, ConsoleTypeInvariance, PTL

(***************************************************************************)
(* The batch operations of Tunnels.tsx.                                    *)
(***************************************************************************)
Batching(c) == c.op \in BatchOps /\ c.live

BusyInv ==
    page = "tunnels" /\ shown =>
        /\ own.batchProcessing <=> \E i \in Slots : Batching(calls[i])
        /\ \A i, j \in Slots : Batching(calls[i]) /\ Batching(calls[j]) => i = j

\* What a step does to the calls and to batchProcessing while the page is
\* mounted.
TunnelsStep ==
    \/ calls' = calls /\ own'.batchProcessing = own.batchProcessing
    \/ \E op, xs : op \notin BatchOps /\ Made(op, xs) /\ own' = own
    \/ \E op, xs : /\ op \in BatchOps /\ Made(op, xs)
                   /\ ~own.batchProcessing /\ own'.batchProcessing = TRUE
    \/ \E i \in Busy : \E xs : Answering(i, xs) /\ own' = own
    \/ \E i \in Busy : ~Batching(calls[i]) /\ calls' = Others(i) /\ own' = own
    \/ \E i \in Busy : Batching(calls[i]) /\ calls' = Others(i) /\ own'.batchProcessing = FALSE

LEMMA SelectSteps ==
    ASSUME TypeInv, page = "tunnels", SelectStep
    PROVE  TunnelsStep
<1>1. shown /\ own \in [selected : SUBSET Ids, batchProcessing : BOOLEAN]
  BY DEF SelectStep, toggleSelect, toggleSelectAll, clearSelection, handleBatch, AskBatchDelete,
         handleBatchDelete, OnList, Reachable, TypeInv, OwnTyped
<1>2. ASSUME NEW op \in BatchOps, NEW xs \in SUBSET Ids, Submit(op, xs), ~own.batchProcessing,
             own' = [own EXCEPT !.batchProcessing = TRUE]
      PROVE  TunnelsStep
  <2>1. Made(op, xs)
    BY <1>2, TunnelsTables, NotSingle DEF Made
  <2>2. own'.batchProcessing = TRUE
    BY <1>1, <1>2
  <2> QED BY <1>2, <2>1, <2>2 DEF TunnelsStep
<1>3. CASE handleBatchDelete
  <2>1. PICK o \in open : o.form = "batch" /\ Submit("batchDelete", o.row)
    BY <1>3 DEF handleBatchDelete
  <2>2. o.row \in SUBSET Ids
    BY <2>1 DEF TypeInv, OpenTyped, IsBatchForm
  <2> QED BY <1>2, <1>3, <2>1, <2>2 DEF handleBatchDelete, BatchOps
<1>4. ASSUME NEW op \in BatchOps, handleBatch(op) PROVE TunnelsStep
  BY <1>1, <1>2, <1>4 DEF handleBatch
<1>5. CASE AskBatchDelete
  BY <1>5 DEF AskBatchDelete, TunnelsStep
<1>6. CASE toggleSelect \/ toggleSelectAll \/ clearSelection
  <2>1. PICK xs : own' = [own EXCEPT !.selected = xs]
    BY <1>6, Zenon DEF toggleSelect, toggleSelectAll, clearSelection
  <2>2. calls' = calls
    BY <1>6 DEF toggleSelect, toggleSelectAll, clearSelection, listVars
  <2>3. own'.batchProcessing = own.batchProcessing
    BY <1>1, <2>1
  <2> QED BY <2>2, <2>3 DEF TunnelsStep
<1> QED BY <1>3, <1>4, <1>5, <1>6 DEF SelectStep, BatchOps

LEMMA TunnelsAsking ==
    ASSUME TypeInv, page = "tunnels", Asking, own' = own
    PROVE  TunnelsStep
<1>1. ASSUME NEW o \in open, NEW xs, Made(Submits(o), xs) PROVE Submits(o) \notin BatchOps
  <2>1. o.form \in DOMAIN Table.forms
    BY DEF TypeInv, OpenTyped
  <2> QED BY <2>1, TunnelsTables DEF Submits
<1>2. DOMAIN Table.buttons \cap BatchOps = {}
  BY TunnelsTables
<1> QED BY <1>1, <1>2, AskingMoves DEF TunnelsStep

LEMMA TunnelsAnswers ==
    ASSUME TypeInv, page = "tunnels", shown, NEW i \in Busy, Answered(i)
    PROVE  TunnelsStep
<1>1. i \in Slots /\ calls[i].op \in DOMAIN Table.calls
  BY Named DEF Busy, TypeInv, CallsInv
<1>2. ~IsRead(i) /\ (IsBatch(i) <=> calls[i].op \in BatchOps)
  BY <1>1, TablesFit DEF IsRead, ReadOps, IsBatch, BatchOps, TypeInv, CallsInv, CallsTyped, Table
<1>3. own \in [selected : SUBSET Ids, batchProcessing : BOOLEAN]
  BY DEF TypeInv, OwnTyped
<1>4. CASE BatchSucceeded(i) \/ BatchFailed(i)
  <2>1. calls' = Others(i)
    BY <1>4 DEF BatchSucceeded, BatchFailed, Failed, Ended
  <2>2. calls[i].op \in BatchOps
    BY <1>2, <1>4 DEF BatchSucceeded, BatchFailed
  <2>3. CASE calls[i].live
    <3>1. \/ own' = [own EXCEPT !.selected = {}, !.batchProcessing = FALSE]
          \/ own' = [own EXCEPT !.batchProcessing = FALSE]
      BY <1>4, <2>3 DEF BatchSucceeded, BatchFailed
    <3>2. own'.batchProcessing = FALSE
      BY <1>3, <3>1
    <3> QED BY <2>1, <2>2, <2>3, <3>2 DEF TunnelsStep, Batching
  <2>4. CASE ~calls[i].live
    BY <1>4, <2>1, <2>4 DEF BatchSucceeded, BatchFailed, TunnelsStep, Batching
  <2> QED BY <2>3, <2>4
<1>5. CASE ~IsBatch(i) /\ (Succeeded(i) \/ Failed(i)) /\ own' = own
  <2>1. calls' = Others(i)
    BY <1>5 DEF Succeeded, Failed, Ended
  <2> QED BY <1>2, <1>5, <2>1 DEF TunnelsStep, Batching
<1> QED BY <1>2, <1>4, <1>5 DEF Answered, Special, KeyCreated, handleCreateOrg, handleCreateTunnel,
          Finished, fetchRoles, RolesChanged, handleEnrollMFA, MFAChanged, fetchUser

LEMMA TunnelsSteps ==
    ASSUME TypeInv, [ConsoleNext]_consoleVars, page = "tunnels", shown, shown'
    PROVE  TunnelsStep
<1>1. CASE PageStep
  <2>1. CASE Fetching /\ own' = own
    BY <2>1 DEF Fetching, FetchRead, FetchDone, FetchFails, Retry, TunnelsStep
  <2>2. ASSUME NEW o, CloseForm(o), own' = own PROVE TunnelsStep
    BY <2>2 DEF CloseForm, TunnelsStep
  <2> QED BY <1>1, <2>1, <2>2, TunnelsAsking DEF PageStep, CloseKeyDialog, Mount, RolesMount, Leave
<1>2. CASE SelectStep
  BY <1>2, SelectSteps
<1>3. ~WizardStep /\ ~handleMFA
  BY DEF WizardStep, WizardNext, WizardBack, WizardSubmit, handleFinish, OnStep, handleMFA, OnSecurity
<1>4. ASSUME NEW i \in Busy, Served(i) \/ ReadServed(i), own' = own PROVE TunnelsStep
  BY <1>4, ServesAnswer DEF TunnelsStep
<1>5. ASSUME NEW i \in Busy, ReadServed(i) PROVE own' = own
  BY <1>5 DEF ReadServed
<1>6. CASE UNCHANGED consoleVars
  BY <1>6 DEF consoleVars, TunnelsStep
<1> QED BY <1>1, <1>2, <1>3, <1>4, <1>5, <1>6, TunnelsAnswers DEF ConsoleNext

\* Only opening the page mounts it.
LEMMA Mounting ==
    ASSUME TypeInv, [ConsoleNext]_consoleVars, ~shown, shown', page # "roles"
    PROVE  Mount /\ own' = Fresh(page)
<1>1. ASSUME NEW i \in Busy, Answered(i) PROVE ~shown'
  <2>1. ASSUME Succeeded(i) \/ Failed(i) PROVE ~shown'
    BY <2>1 DEF Succeeded, Failed
  <2> QED BY <1>1, <2>1 DEF Answered, BatchSucceeded, BatchFailed, KeyCreated, handleCreateOrg,
          handleCreateTunnel, Finished, fetchRoles, RolesChanged, handleEnrollMFA, MFAChanged, fetchUser
<1>2. ASSUME NEW i \in Busy, Served(i) \/ ReadServed(i) PROVE ~shown'
  BY <1>2 DEF Served, ReadServed
<1>3. ~SelectStep /\ ~WizardStep /\ ~handleMFA
  BY DEF SelectStep, toggleSelect, toggleSelectAll, clearSelection, handleBatch, AskBatchDelete,
         handleBatchDelete, OnList, Reachable, WizardStep, WizardNext, WizardBack, WizardSubmit,
         handleFinish, OnStep, handleMFA, OnSecurity
<1>4. ~UNCHANGED consoleVars
  BY DEF consoleVars
<1>5. ASSUME Fetching PROVE ~shown'
  BY <1>5 DEF Fetching, FetchRead, FetchDone, FetchFails, Retry
<1>6. ~Asking /\ (\A o : ~CloseForm(o)) /\ ~CloseKeyDialog /\ ~Leave
  BY DEF Asking, OpenForm, SubmitForm, Press, Reachable, CloseForm, CloseKeyDialog, Leave
<1>7. PageStep
  BY <1>1, <1>2, <1>3, <1>4 DEF ConsoleNext
<1> QED BY <1>5, <1>6, <1>7 DEF PageStep, RolesMount

LEMMA NextBusy ==
    ASSUME TypeInv, TypeInv', BusyInv, [ConsoleNext]_consoleVars
    PROVE  BusyInv'
<1> page' = page
  BY NextMoves
<1> Slots' = Slots
  BY SameTable
<1> CallsTyped /\ Packed
  BY DEF TypeInv, CallsInv
<1> NoCall.op = "none" /\ ~Batching(NoCall)
  BY DEF NoCall, Batching
<1> SUFFICES ASSUME page = "tunnels", shown'
             PROVE  /\ own'.batchProcessing <=> \E i \in Slots : Batching(calls'[i])
                    /\ \A i, j \in Slots : Batching(calls'[i]) /\ Batching(calls'[j]) => i = j
  BY DEF BusyInv, Batching
<1>1. CASE ~shown
  <2>1. Mount /\ own' = Fresh(page)
    BY <1>1, Mounting
  <2>2. calls' = calls /\ \A i \in Slots : ~Batching(calls[i])
    BY <1>1, <2>1 DEF Mount, Batching, TypeInv, CallsInv, AwayIsIdle
  <2>3. own'.batchProcessing = FALSE
    BY <2>1 DEF Fresh
  <2> QED BY <2>2, <2>3
<1>2. CASE shown
  <2>1. /\ own.batchProcessing <=> \E i \in Slots : Batching(calls[i])
        /\ \A i, j \in Slots : Batching(calls[i]) /\ Batching(calls[j]) => i = j
    BY <1>2 DEF BusyInv
  <2>2. TunnelsStep
    BY <1>2, TunnelsSteps
  <2>3. CASE calls' = calls /\ own'.batchProcessing = own.batchProcessing
    BY <2>1, <2>3
  <2>4. ASSUME NEW op, NEW xs, Made(op, xs)
        PROVE  \E n \in Slots : /\ calls[n] = NoCall /\ (Batching(calls'[n]) <=> op \in BatchOps)
                                /\ \A j \in Slots \ {n} : Batching(calls'[j]) <=> Batching(calls[j])
    <3>1. PICK n \in Slots :
              /\ calls[n] = NoCall /\ calls'[n] = NewCall(op, xs)
              /\ \A j \in Slots \ {n} :
                    \/ calls'[j] = calls[j]
                    \/ calls[j] # NoCall /\ calls'[j] = [calls[j] EXCEPT !.held = FALSE]
      BY <2>4, SubmitMove DEF Made
    <3>2. Batching(calls'[n]) <=> op \in BatchOps
      BY <3>1 DEF Batching, NewCall
    <3>3. ASSUME NEW j \in Slots \ {n} PROVE Batching(calls'[j]) <=> Batching(calls[j])
      <4>1. calls[j] # NoCall => LET c == [calls[j] EXCEPT !.held = FALSE]
                                 IN  c.op = calls[j].op /\ c.live = calls[j].live
        BY DEF CallsTyped, CallOrNone
      <4> QED BY <3>1, <4>1 DEF Batching
    <3> QED BY <3>1, <3>2, <3>3
  <2>5. ASSUME NEW op, NEW xs, op \notin BatchOps, Made(op, xs), own' = own
        PROVE  /\ own'.batchProcessing <=> \E i \in Slots : Batching(calls'[i])
               /\ \A i, j \in Slots : Batching(calls'[i]) /\ Batching(calls'[j]) => i = j
    BY <2>1, <2>4, <2>5
  <2>6. ASSUME NEW op, NEW xs, op \in BatchOps, Made(op, xs), ~own.batchProcessing,
               own'.batchProcessing = TRUE
        PROVE  /\ own'.batchProcessing <=> \E i \in Slots : Batching(calls'[i])
               /\ \A i, j \in Slots : Batching(calls'[i]) /\ Batching(calls'[j]) => i = j
    BY <2>1, <2>4, <2>6
  <2>7. ASSUME NEW i \in Busy, NEW xs, Answering(i, xs), own' = own
        PROVE  /\ own'.batchProcessing <=> \E k \in Slots : Batching(calls'[k])
               /\ \A k, j \in Slots : Batching(calls'[k]) /\ Batching(calls'[j]) => k = j
    <3>1. \A j \in Slots : Batching(calls'[j]) <=> Batching(calls[j])
      BY <2>7, AnsweringFields DEF Batching
    <3> QED BY <2>1, <2>7, <3>1
  <2>8. ASSUME NEW i \in Busy, calls' = Others(i)
        PROVE  /\ \A j \in Slots : Batching(calls'[j]) =>
                     From(i, j) \in Slots \ {i} /\ Batching(calls[From(i, j)])
               /\ \A k \in Slots \ {i} : To(i, k) \in Slots /\ calls'[To(i, k)] = calls[k]
               /\ \A j, k \in Slots : j # k => From(i, j) # From(i, k)
    <3>1. i \in Slots
      BY DEF Busy
    <3> HIDE DEF Others
    <3> QED BY <2>8, <3>1, OthersMove
  <2>9. ASSUME NEW i \in Busy, ~Batching(calls[i]), calls' = Others(i), own' = own
        PROVE  /\ own'.batchProcessing <=> \E k \in Slots : Batching(calls'[k])
               /\ \A k, j \in Slots : Batching(calls'[k]) /\ Batching(calls'[j]) => k = j
    BY <2>1, <2>8, <2>9
  <2>10. ASSUME NEW i \in Busy, Batching(calls[i]), calls' = Others(i), own'.batchProcessing = FALSE
         PROVE  \A k \in Slots : ~Batching(calls'[k])
    <3>1. i \in Slots
      BY DEF Busy
    <3> QED BY <2>1, <2>8, <2>10, <3>1
  <2> QED BY <2>2, <2>3, <2>5, <2>6, <2>7, <2>9, <2>10 DEF TunnelsStep
<1> QED BY <1>1, <1>2 DEF TypeInv

LEMMA InitBusy == ConsoleInit => BusyInv
BY DEF ConsoleInit, ListInit, BusyInv

\* The batch buttons of the tunnel list are disabled exactly while a batch
\* call of the mounted page is under way: the finally of the handlers undoes
\* what their start did, whatever other calls are answered in between.
THEOREM BatchButtonsComeBack == ConsoleSpec => []BusyIsReal
<1>1. TypeInv /\ TypeInv' /\ BusyInv /\ [ConsoleNext]_consoleVars => BusyInv'
  BY NextBusy
<1>2. ConsoleSpec => []BusyInv
  BY <1>1, InitBusy, ConsoleTypeInvariance, PTL DEF ConsoleSpec
<1>3. BusyInv => BusyIsReal
  BY DEF BusyInv, BusyIsReal, Batching, BatchOps, IsBatch
<1> QED BY <1>2, <1>3, PTL

(***************************************************************************)
(* The wizard of Onboarding.tsx.  A tunnel is created only once there is   *)
(* an organisation; the organisation is saved from the second step, and    *)
(* only the answer about a tunnel can move the wizard past it meanwhile.   *)
(***************************************************************************)
Awaits(c, op) == c.op = op /\ c.live

WizardInv ==
    page = "onboarding" /\ shown =>
        /\ own.step >= 3 => own.org
        /\ own.step = 5 => own.createdTunnel
        /\ own.createdTunnel => own.org
        /\ \A i \in Slots : Awaits(calls[i], "tunnel") => own.org
        /\ \A i \in Slots : Awaits(calls[i], "org") => own.step <= 2 \/ own.createdTunnel

\* A call whose answer the page awaits was awaited before, or is made now.
LEMMA MadeAwaits ==
    ASSUME TypeInv, NEW op, NEW xs, Made(op, xs), NEW a, NEW j \in Slots, Awaits(calls'[j], a)
    PROVE  a = op \/ \E k \in Slots : Awaits(calls[k], a)
<1>1. CallsTyped /\ Packed
  BY DEF TypeInv, CallsInv
<1>2. PICK n \in Slots :
          /\ calls'[n] = NewCall(op, xs)
          /\ \A k \in Slots \ {n} :
                \/ calls'[k] = calls[k]
                \/ calls[k] # NoCall /\ calls'[k] = [calls[k] EXCEPT !.held = FALSE]
  BY <1>1, SubmitMove DEF Made
<1>3. calls[j] # NoCall => LET c == [calls[j] EXCEPT !.held = FALSE]
                           IN  c.op = calls[j].op /\ c.live = calls[j].live
  BY <1>1 DEF CallsTyped, CallOrNone
<1>4. NewCall(op, xs).op = op
  BY DEF NewCall
<1> QED BY <1>2, <1>3, <1>4 DEF Awaits

LEMMA AnsweringAwaits ==
    ASSUME TypeInv, NEW i \in Busy, NEW xs, Answering(i, xs), NEW a, NEW j \in Slots, Awaits(calls'[j], a)
    PROVE  Awaits(calls[j], a)
<1>1. CallsTyped
  BY DEF TypeInv, CallsInv
<1> QED BY <1>1, AnsweringFields DEF Awaits

LEMMA OthersAwait ==
    ASSUME NEW i \in Busy, calls' = Others(i), NEW a, NEW j \in Slots, Awaits(calls'[j], a)
    PROVE  \E k \in Slots \ {i} : Awaits(calls[k], a)
<1>1. i \in Slots
  BY DEF Busy
<1>2. ~Awaits(NoCall, a)
  BY DEF Awaits, NoCall
<1>3. Others(i)[j] = NoCall \/ \E k \in Slots \ {i} : Others(i)[j] = calls[k]
  BY <1>1, OthersMove
<1> HIDE DEF Others
<1> QED BY <1>2, <1>3

OnboardingStep ==
    \/ calls' = calls /\ own' = own
    \/ WizardNext /\ calls' = calls
    \/ WizardBack /\ calls' = calls
    \/ own.step = 2 /\ Made("org", {}) /\ own' = own
    \/ own.step = 4 /\ Made("tunnel", {}) /\ own' = own
    \/ Made("complete", {}) /\ own' = own
    \/ \E i \in Busy : \E xs : Answering(i, xs) /\ own' = own
    \/ \E i \in Busy : calls' = Others(i) /\ own' = own
    \/ \E i \in Busy : /\ Awaits(calls[i], "org") /\ calls' = Others(i)
                       /\ own' = [own EXCEPT !.org = TRUE, !.step = nextStep]
    \/ \E i \in Busy : /\ Awaits(calls[i], "tunnel") /\ calls' = Others(i)
                       /\ own' = [own EXCEPT !.createdTunnel = TRUE, !.step = nextStep]

LEMMA OnboardingSteps ==
    ASSUME TypeInv, [ConsoleNext]_consoleVars, page = "onboarding", shown, shown'
    PROVE  OnboardingStep
<1>1. CASE PageStep
  <2>1. CASE Fetching /\ own' = own
    BY <2>1 DEF Fetching, FetchRead, FetchDone, FetchFails, Retry, OnboardingStep
  <2>2. ASSUME NEW o, CloseForm(o), own' = own PROVE OnboardingStep
    BY <2>2 DEF CloseForm, OnboardingStep
  <2>3. ~Asking
    BY OnboardingOps DEF Asking, SubmitForm, TypeInv, OpenTyped
  <2> QED BY <1>1, <2>1, <2>2, <2>3 DEF PageStep, CloseKeyDialog, Mount, RolesMount, Leave
<1>2. ~SelectStep /\ ~handleMFA
  BY DEF SelectStep, toggleSelect, toggleSelectAll, clearSelection, handleBatch, AskBatchDelete,
         handleBatchDelete, OnList, handleMFA, OnSecurity
<1>3. CASE WizardStep
  <2>1. CASE WizardNext \/ WizardBack
    BY <2>1 DEF WizardNext, WizardBack, listVars, OnboardingStep
  <2>2. CASE WizardSubmit
    <3>1. own' = own /\ \/ own.step = 2 /\ ~Pending("org") /\ Submit("org", {})
                        \/ own.step = 4 /\ ~Pending("tunnel") /\ Submit("tunnel", {})
      BY <2>2 DEF WizardSubmit, OnStep
    <3> QED BY <3>1, OnboardingOps DEF Made, MutationOf, OnboardingStep
  <2>3. CASE handleFinish
    BY <2>3, OnboardingOps, NotSingle DEF handleFinish, Made, OnboardingStep
  <2> QED BY <1>3, <2>1, <2>2, <2>3 DEF WizardStep
<1>4. ASSUME NEW i \in Busy, (Served(i) /\ own' = own) \/ ReadServed(i) PROVE OnboardingStep
  <2>1. own' = own
    BY <1>4 DEF ReadServed
  <2> QED BY <1>4, <2>1, ServesAnswer DEF OnboardingStep
<1>5. ASSUME NEW i \in Busy, Answered(i) PROVE OnboardingStep
  <2>1. ASSUME Succeeded(i) \/ Failed(i) PROVE calls' = Others(i)
    BY <2>1 DEF Succeeded, Failed, Ended
  <2>2. i \in Slots /\ ~IsBatch(i)
    BY BatchOnTunnels DEF Busy, TypeInv
  <2>3. CASE handleCreateOrg(i)
    BY <2>1, <2>3 DEF handleCreateOrg, OnboardingStep, Awaits
  <2>4. CASE handleCreateTunnel(i)
    BY <2>1, <2>4 DEF handleCreateTunnel, OnboardingStep, Awaits
  <2>5. CASE (Succeeded(i) \/ Failed(i)) /\ own' = own
    BY <2>1, <2>5 DEF OnboardingStep
  <2> QED BY <1>5, <2>2, <2>3, <2>4, <2>5 DEF Answered, BatchSucceeded, BatchFailed, KeyCreated,
          Finished, fetchRoles, RolesChanged, handleEnrollMFA, MFAChanged, fetchUser
<1>6. CASE UNCHANGED consoleVars
  BY <1>6 DEF consoleVars, OnboardingStep
<1> QED BY <1>1, <1>2, <1>3, <1>4, <1>5, <1>6 DEF ConsoleNext

LEMMA NextWizard ==
    ASSUME TypeInv, TypeInv', SoleInv, WizardInv, [ConsoleNext]_consoleVars
    PROVE  WizardInv'
<1> page' = page
  BY NextMoves
<1> Slots' = Slots
  BY SameTable
<1> DEFINE Goal == /\ own'.step >= 3 => own'.org
                   /\ own'.step = 5 => own'.createdTunnel
                   /\ own'.createdTunnel => own'.org
                   /\ \A i \in Slots : Awaits(calls'[i], "tunnel") => own'.org
                   /\ \A i \in Slots : Awaits(calls'[i], "org") => own'.step <= 2 \/ own'.createdTunnel
<1> SUFFICES ASSUME page = "onboarding", shown' PROVE Goal
  BY DEF WizardInv, Awaits
<1>1. CASE ~shown
  <2>1. Mount /\ own' = Fresh(page)
    BY <1>1, Mounting
  <2>2. calls' = calls /\ \A i \in Slots : ~calls[i].live
    BY <1>1, <2>1 DEF Mount, TypeInv, CallsInv, AwayIsIdle
  <2>3. own'.step = 1 /\ own'.createdTunnel = FALSE
    BY <2>1 DEF Fresh
  <2> QED BY <2>2, <2>3 DEF Awaits
<1>2. CASE shown
  <2>1. /\ own.step >= 3 => own.org
        /\ own.step = 5 => own.createdTunnel
        /\ own.createdTunnel => own.org
        /\ \A i \in Slots : Awaits(calls[i], "tunnel") => own.org
        /\ \A i \in Slots : Awaits(calls[i], "org") => own.step <= 2 \/ own.createdTunnel
    BY <1>2 DEF WizardInv
  <2>2. own \in [step : 1..STEPS, org : BOOLEAN, createdTunnel : BOOLEAN]
    BY <1>2 DEF TypeInv, OwnTyped
  <2>3. OnboardingStep
    BY <1>2, OnboardingSteps
  <2>4. CASE calls' = calls /\ own' = own
    BY <2>1, <2>4
  <2>5. CASE WizardNext /\ calls' = calls
    <3>1. own.step \in {1, 3, 4} /\ (own.step = 4 => own.createdTunnel)
      BY <2>5 DEF WizardNext, OnStep
    <3>2. own'.step = own.step + 1 /\ own'.org = own.org /\ own'.createdTunnel = own.createdTunnel
      BY <2>2, <2>5, <3>1 DEF WizardNext, nextStep, STEPS
    <3> QED BY <2>1, <2>5, <3>1, <3>2
  <2>6. CASE WizardBack /\ calls' = calls
    <3>1. own'.step = own.step - 1 /\ own'.org = own.org /\ own'.createdTunnel = own.createdTunnel
      BY <2>2, <2>6 DEF WizardBack, OnStep, prevStep, STEPS
    <3>2. own.step \in 2..4
      BY <2>6 DEF WizardBack, OnStep
    <3> QED BY <2>1, <2>6, <3>1, <3>2
  <2>7. ASSUME NEW op \in {"org", "tunnel", "complete"}, Made(op, {}), own' = own,
               op = "org" => own.step = 2, op = "tunnel" => own.step = 4
        PROVE  Goal
    <3>1. ASSUME NEW j \in Slots, Awaits(calls'[j], "tunnel") PROVE own'.org
      <4>1. op = "tunnel" \/ \E k \in Slots : Awaits(calls[k], "tunnel")
        BY <2>7, <3>1, MadeAwaits
      <4> QED BY <2>1, <2>7, <4>1
    <3>2. ASSUME NEW j \in Slots, Awaits(calls'[j], "org") PROVE own'.step <= 2 \/ own'.createdTunnel
      <4>1. op = "org" \/ \E k \in Slots : Awaits(calls[k], "org")
        BY <2>7, <3>2, MadeAwaits
      <4> QED BY <2>1, <2>7, <4>1
    <3> QED BY <2>1, <2>7, <3>1, <3>2
  <2>8. ASSUME NEW i \in Busy, NEW xs, Answering(i, xs), own' = own PROVE Goal
    <3>1. \A j \in Slots, a \in {"org", "tunnel"} : Awaits(calls'[j], a) => Awaits(calls[j], a)
      BY <2>8, AnsweringAwaits
    <3> QED BY <2>1, <2>8, <3>1
  <2>9. ASSUME NEW i \in Busy, calls' = Others(i)
        PROVE  \A j \in Slots, a \in {"org", "tunnel"} : Awaits(calls'[j], a) =>
                   \E k \in Slots \ {i} : Awaits(calls[k], a)
    BY <2>9, OthersAwait
  <2>10. ASSUME NEW i \in Busy, calls' = Others(i), own' = own PROVE Goal
    BY <2>1, <2>9, <2>10
  <2>11. nextStep \in 1..5 /\ nextStep <= own.step + 1
    BY <2>2 DEF nextStep, STEPS
  <2>12. ASSUME NEW i \in Busy, Awaits(calls[i], "org"), calls' = Others(i),
                own' = [own EXCEPT !.org = TRUE, !.step = nextStep]
         PROVE  Goal
    <3>1. own'.org = TRUE /\ own'.step = nextStep /\ own'.createdTunnel = own.createdTunnel
      BY <2>2, <2>12
    <3>2. own.step <= 2 \/ own.createdTunnel
      BY <2>1, <2>12 DEF Busy
    <3>3. ASSUME NEW k \in Slots \ {i}, Awaits(calls[k], "org") PROVE FALSE
      <4>1. Sole(calls[k]) /\ Sole(calls[i]) /\ i \in Slots
        BY <2>12, <3>3, OnboardingOps DEF Awaits, Sole, Single, MutationOf, Busy
      <4> QED BY <2>12, <3>3, <4>1 DEF SoleInv, Awaits
    <3>4. \A j \in Slots : ~Awaits(calls'[j], "org")
      BY <2>9, <2>12, <3>3
    <3> QED BY <2>1, <2>2, <2>11, <3>1, <3>2, <3>4 DEF STEPS
  <2>13. ASSUME NEW i \in Busy, Awaits(calls[i], "tunnel"), calls' = Others(i),
                own' = [own EXCEPT !.createdTunnel = TRUE, !.step = nextStep]
         PROVE  Goal
    <3>1. own'.createdTunnel = TRUE /\ own'.org = own.org
      BY <2>2, <2>13
    <3>2. own.org
      BY <2>1, <2>13 DEF Busy
    <3> QED BY <3>1, <3>2
  <2> HIDE DEF Goal
  <2> QED BY <2>3, <2>4, <2>5, <2>6, <2>7, <2>8, <2>10, <2>12, <2>13 DEF OnboardingStep
<1> HIDE DEF Goal
<1> QED BY <1>1, <1>2 DEF TypeInv

LEMMA InitWizard == ConsoleInit => WizardInv
BY DEF ConsoleInit, ListInit, WizardInv

\* The wizard is never past the organisation before it is saved nor at the
\* end before there is a tunnel, in whatever order the answers arrive and
\* however often the user goes back meanwhile.
THEOREM WizardKeepsOrder == ConsoleSpec => []WizardOrder
<1>1. TypeInv /\ TypeInv' /\ SoleInv /\ WizardInv /\ [ConsoleNext]_consoleVars => WizardInv'
  BY NextWizard
<1>2. ConsoleSpec => []WizardInv
  BY <1>1, InitWizard, SoleInvariance, ConsoleTypeInvariance, PTL DEF ConsoleSpec
<1>3. WizardInv => WizardOrder
  BY DEF WizardInv, WizardOrder
<1> QED BY <1>2, <1>3, PTL

(***************************************************************************)
(* The new key of the API keys tab.                                        *)
(***************************************************************************)
KeyInv ==
    page = "apikeys" /\ shown /\ own.createdKey => \A i \in Slots : ~Awaits(calls[i], "create")

ApiKeysStep ==
    \/ calls' = calls /\ own' = own
    \/ calls' = calls /\ KeyDialog \in open /\ own' = [own EXCEPT !.createdKey = FALSE]
    \/ \E op, xs : Made(op, xs) /\ (op = "create" => ~own.createdKey) /\ own' = own
    \/ \E i \in Busy : \E xs : Answering(i, xs) /\ own' = own
    \/ \E i \in Busy : calls' = Others(i) /\ own' = own
    \/ \E i \in Busy : /\ Awaits(calls[i], "create") /\ calls' = Others(i)
                       /\ own' = [own EXCEPT !.createdKey = TRUE]

LEMMA ApiKeysOps ==
    ASSUME page = "apikeys"
    PROVE  /\ DOMAIN Table.calls = {"create", "revoke"} /\ Single(MutationOf("create"))
           /\ DOMAIN Table.forms = {"create", "revoke"} /\ DOMAIN Table.buttons = {}
           /\ Table.forms["create"].old = "none"
           /\ Table.forms["revoke"].new = "none" /\ Table.forms["revoke"].old = "revoke"
<1>1. Table.calls = ApiKeysCalls /\ Table.forms = ApiKeysForms /\ Table.buttons = NoButtons
  BY PageTable, PageFields DEF Table
<1>2. Single(MutationOf("create"))
  BY <1>1, CallFields DEF Single, Creates, MutationOf, ApiKeysCalls
<1> QED BY <1>1, <1>2, FormFields, NothingToPress DEF ApiKeysCalls, ApiKeysForms

LEMMA ApiKeysAsking ==
    ASSUME TypeInv, page = "apikeys", Asking, ~KeyInsteadOfForm, own' = own
    PROVE  ApiKeysStep
<1>1. ASSUME NEW o \in open, SubmitForm(o), NEW xs, Made(Submits(o), xs), Submits(o) = "create"
      PROVE  ~own.createdKey
  <2>1. o \in [form : {"create", "revoke"}, row : Ids \cup {None} \cup SUBSET Ids]
    BY ApiKeysOps DEF TypeInv, OpenTyped
  <2>2. o.form = "create" /\ o.row = None
    BY <1>1, <2>1, ApiKeysOps DEF Submits
  <2>3. o = KeyDialog
    BY <2>1, <2>2 DEF KeyDialog
  <2> QED BY <1>1, <2>3 DEF KeyInsteadOfForm
<1> QED BY <1>1, AskingMoves, ApiKeysOps DEF ApiKeysStep

LEMMA ApiKeysSteps ==
    ASSUME TypeInv, [ConsoleNext]_consoleVars, page = "apikeys", shown, shown'
    PROVE  ApiKeysStep
<1>1. CASE PageStep
  <2>1. CASE Fetching /\ own' = own
    BY <2>1 DEF Fetching, FetchRead, FetchDone, FetchFails, Retry, ApiKeysStep
  <2>2. ASSUME NEW o, CloseForm(o), own' = own PROVE ApiKeysStep
    BY <2>2 DEF CloseForm, ApiKeysStep
  <2>3. CASE CloseKeyDialog
    BY <2>3 DEF CloseKeyDialog, CloseForm, ApiKeysStep
  <2> QED BY <1>1, <2>1, <2>2, <2>3, ApiKeysAsking DEF PageStep, Mount, RolesMount, Leave
<1>2. ~SelectStep /\ ~WizardStep /\ ~handleMFA
  BY DEF SelectStep, toggleSelect, toggleSelectAll, clearSelection, handleBatch, AskBatchDelete,
         handleBatchDelete, OnList, WizardStep, WizardNext, WizardBack, WizardSubmit, handleFinish,
         OnStep, handleMFA, OnSecurity
<1>3. ASSUME NEW i \in Busy, (Served(i) /\ own' = own) \/ ReadServed(i) PROVE ApiKeysStep
  <2>1. own' = own
    BY <1>3 DEF ReadServed
  <2> QED BY <1>3, <2>1, ServesAnswer DEF ApiKeysStep
<1>4. ASSUME NEW i \in Busy, Answered(i) PROVE ApiKeysStep
  <2>1. ASSUME Succeeded(i) \/ Failed(i) PROVE calls' = Others(i)
    BY <2>1 DEF Succeeded, Failed, Ended
  <2>2. i \in Slots /\ ~IsBatch(i)
    BY BatchOnTunnels DEF Busy, TypeInv
  <2>3. CASE KeyCreated(i)
    BY <2>1, <2>3 DEF KeyCreated, ApiKeysStep, Awaits
  <2>4. CASE (Succeeded(i) \/ Failed(i)) /\ own' = own
    BY <2>1, <2>4 DEF ApiKeysStep
  <2> QED BY <1>4, <2>2, <2>3, <2>4 DEF Answered, BatchSucceeded, BatchFailed, handleCreateOrg,
          handleCreateTunnel, Finished, fetchRoles, RolesChanged, handleEnrollMFA, MFAChanged, fetchUser
<1>5. CASE UNCHANGED consoleVars
  BY <1>5 DEF consoleVars, ApiKeysStep
<1> QED BY <1>1, <1>2, <1>3, <1>4, <1>5 DEF ConsoleNext

LEMMA NextKey ==
    ASSUME TypeInv, TypeInv', SoleInv, KeyInv, [ConsoleNext]_consoleVars
    PROVE  KeyInv'
<1> page' = page
  BY NextMoves
<1> Slots' = Slots
  BY SameTable
<1> SUFFICES ASSUME page = "apikeys", shown', own'.createdKey
             PROVE  \A j \in Slots : ~Awaits(calls'[j], "create")
  BY DEF KeyInv, Awaits
<1>1. CASE ~shown
  <2>1. Mount /\ own' = Fresh(page)
    BY <1>1, Mounting
  <2> QED BY <2>1 DEF Fresh
<1>2. CASE shown
  <2>1. own.createdKey => \A j \in Slots : ~Awaits(calls[j], "create")
    BY <1>2 DEF KeyInv
  <2>2. own \in [createdKey : BOOLEAN]
    BY <1>2 DEF TypeInv, OwnTyped
  <2>3. ApiKeysStep
    BY <1>2, ApiKeysSteps
  <2>4. CASE calls' = calls /\ own' = own
    BY <2>1, <2>4
  <2>5. ~(own' = [own EXCEPT !.createdKey = FALSE])
    BY <2>2
  <2>6. ASSUME NEW op, NEW xs, Made(op, xs), op = "create" => ~own.createdKey, own' = own
        PROVE  \A j \in Slots : ~Awaits(calls'[j], "create")
    BY <2>1, <2>6, MadeAwaits
  <2>7. ASSUME NEW i \in Busy, NEW xs, Answering(i, xs), own' = own
        PROVE  \A j \in Slots : ~Awaits(calls'[j], "create")
    BY <2>1, <2>7, AnsweringAwaits
  <2>8. ASSUME NEW i \in Busy, calls' = Others(i), own' = own
        PROVE  \A j \in Slots : ~Awaits(calls'[j], "create")
    BY <2>1, <2>8, OthersAwait
  <2>9. ASSUME NEW i \in Busy, Awaits(calls[i], "create"), calls' = Others(i)
        PROVE  \A j \in Slots : ~Awaits(calls'[j], "create")
    <3>1. ASSUME NEW k \in Slots \ {i}, Awaits(calls[k], "create") PROVE FALSE
      <4>1. Sole(calls[k]) /\ Sole(calls[i]) /\ i \in Slots
        BY <2>9, <3>1, ApiKeysOps DEF Awaits, Sole, Busy
      <4> QED BY <2>9, <3>1, <4>1 DEF SoleInv, Awaits
    <3> QED BY <2>9, <3>1, OthersAwait
  <2> QED BY <2>3, <2>4, <2>5, <2>6, <2>7, <2>8, <2>9 DEF ApiKeysStep
<1> QED BY <1>1, <1>2 DEF TypeInv

LEMMA InitKey == ConsoleInit => KeyInv
BY DEF ConsoleInit, ListInit, KeyInv

\* A new API key, told only once, stays until the dialog that shows it is
\* closed, and while it is shown no creation is under way whose answer would
\* replace it.
THEOREM KeyStaysShown == ConsoleSpec => KeyIsShown
<1>1. TypeInv /\ TypeInv' /\ SoleInv /\ KeyInv /\ [ConsoleNext]_consoleVars => KeyInv'
  BY NextKey
<1>2. ConsoleSpec => []KeyInv
  BY <1>1, InitKey, SoleInvariance, ConsoleTypeInvariance, PTL DEF ConsoleSpec
<1> DEFINE KeyStep ==
        page = "apikeys" /\ shown /\ own.createdKey =>
            /\ shown' => own'.createdKey \/ KeyDialog \in open
            /\ \A i \in Slots : ~(calls[i].op = "create" /\ calls[i].live)
<1>3. ASSUME TypeInv, KeyInv, [ConsoleNext]_consoleVars PROVE KeyStep
  <2> SUFFICES ASSUME page = "apikeys", shown, own.createdKey PROVE KeyStep
    OBVIOUS
  <2>1. \A i \in Slots : ~(calls[i].op = "create" /\ calls[i].live)
    BY <1>3 DEF KeyInv, Awaits
  <2>2. own \in [createdKey : BOOLEAN]
    BY <1>3 DEF TypeInv, OwnTyped
  <2>3. ASSUME shown' PROVE own'.createdKey \/ KeyDialog \in open
    <3>1. ApiKeysStep
      BY <1>3, <2>3, ApiKeysSteps
    <3>2. own' = [own EXCEPT !.createdKey = TRUE] => own'.createdKey
      BY <2>2
    <3> QED BY <3>1, <3>2 DEF ApiKeysStep
  <2> QED BY <2>1, <2>3
<1>4. TypeInv /\ KeyInv /\ [ConsoleNext]_consoleVars => [KeyStep]_consoleVars
  BY <1>3
<1> QED BY <1>2, <1>4, ConsoleTypeInvariance, PTL DEF ConsoleSpec, KeyIsShown

(***************************************************************************)
(* What is listed.  A change the server has made and the page has not been *)
(* told of is a call that is done; a copy of a call is the same but for    *)
(* being the latest of its mutation.                                       *)
(***************************************************************************)
Changed(c) == c.phase = "done" /\ Table.calls[c.op].does # "keep"
Unlearnt == \E i \in Slots : Changed(calls[i])
NextUnlearnt == \E i \in Slots : Changed(calls'[i])

Copy(c, d) == c.op = d.op /\ c.xs = d.xs /\ c.phase = d.phase /\ c.live = d.live

LEMMA UnlearntNext == ASSUME page' = page PROVE Unlearnt' <=> NextUnlearnt
BY SameTable DEF Unlearnt, NextUnlearnt, Changed

LEMMA NothingChanged == ~Changed(NoCall)
BY DEF Changed, NoCall

LEMMA CopyChanged == ASSUME NEW c, NEW d, Copy(c, d) PROVE Changed(c) <=> Changed(d)
BY DEF Copy, Changed

LEMMA MadeCopies ==
    ASSUME TypeInv, NEW op, NEW xs, Made(op, xs)
    PROVE  \E n \in Slots : /\ calls[n] = NoCall /\ calls'[n] = NewCall(op, xs)
                            /\ \A j \in Slots \ {n} : Copy(calls'[j], calls[j])
<1>1. CallsTyped /\ Packed
  BY DEF TypeInv, CallsInv
<1>2. PICK n \in Slots :
          /\ calls[n] = NoCall /\ calls'[n] = NewCall(op, xs)
          /\ \A j \in Slots \ {n} :
                \/ calls'[j] = calls[j]
                \/ calls[j] # NoCall /\ calls'[j] = [calls[j] EXCEPT !.held = FALSE]
  BY <1>1, SubmitMove DEF Made
<1>3. ASSUME NEW j \in Slots \ {n} PROVE Copy(calls'[j], calls[j])
  <2>1. calls[j] # NoCall => Copy([calls[j] EXCEPT !.held = FALSE], calls[j])
    BY <1>1 DEF CallsTyped, CallOrNone, Copy
  <2> QED BY <1>2, <2>1 DEF Copy
<1> QED BY <1>2, <1>3

LEMMA OthersCopies ==
    ASSUME NEW i \in Slots, calls' = Others(i)
    PROVE  /\ \A j \in Slots : \/ calls'[j] = NoCall
                               \/ /\ From(i, j) \in Slots \ {i} /\ calls'[j] = calls[From(i, j)]
                                  /\ To(i, From(i, j)) = j
           /\ \A k \in Slots \ {i} : To(i, k) \in Slots /\ calls'[To(i, k)] = calls[k]
           /\ \A k, m \in Slots \ {i} : k # m => To(i, k) # To(i, m)
<1>1. \A j \in Slots : To(i, From(i, j)) = j
  BY BoundAssumption DEF Slots, From, To
<1>2. \A k, m \in Slots \ {i} : k # m => To(i, k) # To(i, m)
  BY BoundAssumption DEF Slots, To
<1> HIDE DEF Others
<1>3. \A j \in Slots : \/ calls'[j] = NoCall
                       \/ From(i, j) \in Slots \ {i} /\ calls'[j] = calls[From(i, j)]
  BY OthersMove
<1>4. \A k \in Slots \ {i} : To(i, k) \in Slots /\ calls'[To(i, k)] = calls[k]
  BY OthersMove
<1> QED BY <1>1, <1>2, <1>3, <1>4

\* A change stays to be learnt of as long as its call is under way.
LEMMA MadeUnlearnt ==
    ASSUME TypeInv, NEW op, NEW xs, Made(op, xs), Unlearnt
    PROVE  NextUnlearnt
BY MadeCopies, CopyChanged, NothingChanged DEF Unlearnt, NextUnlearnt

LEMMA OthersUnlearnt ==
    ASSUME NEW i \in Slots, calls' = Others(i), NEW k \in Slots \ {i}, Changed(calls[k])
    PROVE  NextUnlearnt
BY OthersCopies DEF NextUnlearnt

LEMMA LeaveUnlearnt ==
    ASSUME TypeInv, calls' = LeftBehind(calls), Unlearnt
    PROVE  NextUnlearnt
<1>1. \A j \in Slots : calls'[j].op = calls[j].op /\ calls'[j].phase = calls[j].phase
  BY LeftTyped DEF TypeInv, CallsInv, CallsTyped
<1> QED BY <1>1 DEF Unlearnt, NextUnlearnt, Changed

\* The server carries a call out: either it changes nothing, or there is a
\* change to learn of.
LEMMA ServedChanges ==
    ASSUME TypeInv, NEW i \in Busy, Served(i)
    PROVE  /\ Unlearnt => NextUnlearnt
           /\ server' = server \/ NextUnlearnt
<1>1. i \in Slots /\ calls[i] \in CallOrNone \ {NoCall} /\ calls \in [Slots -> CallOrNone]
  BY DEF Busy, TypeInv, CallsInv, CallsTyped
<1> DEFINE c == [calls[i] EXCEPT !.phase = "done"]
<1>2. calls' = [calls EXCEPT ![i] = c]
  BY <1>1 DEF Served
<1>3. c.op = calls[i].op /\ c.phase = "done" /\ calls[i].phase = "sent"
  BY <1>1 DEF CallOrNone, Served
<1> HIDE DEF c
<1>4. calls'[i] = c /\ \A j \in Slots \ {i} : calls'[j] = calls[j]
  BY <1>1, <1>2
<1>5. ~Changed(calls[i])
  BY <1>3 DEF Changed
<1>6. Unlearnt => NextUnlearnt
  BY <1>4, <1>5 DEF Unlearnt, NextUnlearnt
<1>7. CASE Table.calls[calls[i].op].does = "keep"
  BY <1>6, <1>7 DEF Served, Outcomes, Results
<1>8. CASE Table.calls[calls[i].op].does # "keep"
  <2>1. Changed(calls'[i])
    BY <1>3, <1>4, <1>8 DEF Changed
  <2> QED BY <1>1, <1>6, <2>1 DEF NextUnlearnt
<1> QED BY <1>7, <1>8

\* A call that fails was not known to have changed anything.
LEMMA FailedChanges ==
    ASSUME TypeInv, NEW i \in Busy, Failed(i), ~missed'
    PROVE  ~missed /\ server' = server /\ (Unlearnt => NextUnlearnt)
<1>1. i \in Slots /\ calls' = Others(i) /\ ~Changed(calls[i])
  BY DEF Failed, Ended, Changed, Busy
<1>2. ~missed /\ server' = server
  BY DEF Failed
<1> QED BY <1>1, <1>2, OthersUnlearnt DEF Unlearnt

(***************************************************************************)
(* The pages that read with useQuery and invalidate the query when they    *)
(* change something.                                                       *)
(***************************************************************************)
Apart == {"tunnel", "security", "onboarding", "roles"}

UpToDate(q, rows) ==
    /\ q.fetch = "read" => q.got = rows
    /\ q.fetch = "idle" /\ q.fresh /\ q.data # None => q.data = rows

QueryInv == page \notin Apart /\ ~missed /\ ~Unlearnt => UpToDate(cache, server)

LEMMA RefetchUpToDate ==
    ASSUME NEW q \in Query, NEW rows, UpToDate(q, rows) \/ ~(q.fetch = "read" /\ q.data = None)
    PROVE  UpToDate(Refetch(q), rows)
<1>1. CASE Refetch(q).fetch = "sent"
  BY <1>1 DEF UpToDate
<1>2. CASE Refetch(q) = q /\ q.fetch # "idle" /\ q.data = None
  BY <1>2 DEF UpToDate
<1> QED BY <1>1, <1>2, RefetchTyped

QueryStep ==
    \/ UNCHANGED <<server, missed>> /\ cache' \in {cache, Refetch(cache)} /\ (Unlearnt => NextUnlearnt)
    \/ Fetching
    \/ \E i \in Busy : Served(i) \/ Succeeded(i) \/ BatchSucceeded(i) \/ Failed(i)

LEMMA QuerySteps ==
    ASSUME TypeInv, [ConsoleNext]_consoleVars, page \notin Apart
    PROVE  QueryStep
<1>1. ASSUME calls' = calls PROVE Unlearnt => NextUnlearnt
  BY <1>1 DEF Unlearnt, NextUnlearnt
<1>2. ASSUME NEW i \in Busy PROVE ~IsRead(i)
  <2>1. i \in Slots /\ calls[i].op \in DOMAIN Table.calls
    BY Named DEF Busy, TypeInv, CallsInv
  <2> QED BY <2>1, TablesFit DEF IsRead, ReadOps, TypeInv, CallsInv, CallsTyped, Table, Apart
<1>3. CASE PageStep
  <2>1. CASE Asking
    <3>1. Unlearnt => NextUnlearnt
      BY <1>1, <2>1, AskingMoves, MadeUnlearnt
    <3> QED BY <2>1, <3>1, AskingMoves DEF QueryStep
  <2>2. ASSUME NEW o, CloseForm(o) PROVE QueryStep
    BY <1>1, <2>2 DEF CloseForm, QueryStep
  <2>3. CASE Mount
    BY <1>1, <2>3 DEF Mount, QueryStep
  <2>4. CASE Leave
    BY <2>4, LeaveUnlearnt DEF Leave, QueryStep
  <2> QED BY <1>3, <2>1, <2>2, <2>3, <2>4 DEF PageStep, CloseKeyDialog, RolesMount, QueryStep, Apart
<1>4. CASE SelectStep
  <2>1. UNCHANGED <<server, cache, missed>>
    BY <1>4 DEF SelectStep, toggleSelect, toggleSelectAll, clearSelection, handleBatch, AskBatchDelete,
                handleBatchDelete, listVars
  <2>2. page = "tunnels"
    BY <1>4 DEF SelectStep, toggleSelect, toggleSelectAll, clearSelection, handleBatch, AskBatchDelete,
                handleBatchDelete, OnList
  <2>3. calls' = calls \/ \E op, xs : Made(op, xs)
    BY <1>4, SelectMoves
  <2> QED BY <1>1, <2>1, <2>3, MadeUnlearnt DEF QueryStep
<1>5. ~WizardStep /\ ~handleMFA
  BY DEF WizardStep, WizardNext, WizardBack, WizardSubmit, handleFinish, OnStep, handleMFA, OnSecurity, Apart
<1>6. ASSUME NEW i \in Busy, Served(i) \/ ReadServed(i) \/ Answered(i) PROVE QueryStep
  BY <1>2, <1>6 DEF Answered, BatchFailed, KeyCreated, handleCreateOrg, handleCreateTunnel, Finished, ReadServed,
         fetchRoles, RolesChanged, handleEnrollMFA, MFAChanged, fetchUser, QueryStep, Apart
<1>7. CASE UNCHANGED consoleVars
  BY <1>1, <1>7 DEF consoleVars, QueryStep
<1> QED BY <1>3, <1>4, <1>5, <1>6, <1>7 DEF ConsoleNext

LEMMA NextQuery ==
    ASSUME TypeInv, QueryInv, [ConsoleNext]_consoleVars
    PROVE  QueryInv'
<1> page' = page
  BY NextMoves
<1> SUFFICES ASSUME page \notin Apart, ~missed', ~NextUnlearnt
             PROVE  UpToDate(cache', server')
  BY UnlearntNext DEF QueryInv, UpToDate, Apart
<1> cache \in Query
  BY DEF TypeInv
<1>1. QueryStep
  BY QuerySteps
<1>2. CASE UNCHANGED <<server, missed>> /\ cache' \in {cache, Refetch(cache)} /\ (Unlearnt => NextUnlearnt)
  BY <1>2, RefetchUpToDate DEF QueryInv
<1>3. CASE Fetching
  <2>1. UNCHANGED <<server, calls>>
    BY <1>3 DEF Fetching, FetchRead, FetchDone, FetchFails, Retry
  <2>2. ~Unlearnt
    BY <2>1 DEF Unlearnt, NextUnlearnt
  <2>3. CASE FetchRead
    <3>1. cache'.fetch = "read" /\ cache'.got = server
      BY <2>3 DEF FetchRead, Query
    <3> QED BY <2>1, <3>1 DEF UpToDate
  <2>4. CASE FetchDone
    <3>1. cache.got = server
      BY <2>2, <2>4 DEF FetchDone, QueryInv, UpToDate
    <3>2. cache'.fetch = "idle" /\ cache'.data = cache.got
      BY <2>4 DEF FetchDone
    <3> QED BY <2>1, <3>1, <3>2 DEF UpToDate
  <2>5. CASE FetchFails
    <3>1. cache'.fetch = "idle" /\ cache'.fresh = FALSE
      BY <2>5 DEF FetchFails, Query
    <3> QED BY <3>1 DEF UpToDate
  <2>6. CASE Retry
    <3>1. cache' = Refetch(cache) /\ missed' = missed
      BY <2>6 DEF Retry
    <3> QED BY <2>1, <2>2, <3>1, RefetchUpToDate DEF QueryInv
  <2> QED BY <1>3, <2>3, <2>4, <2>5, <2>6 DEF Fetching
<1>4. ASSUME NEW i \in Busy, Served(i) PROVE UpToDate(cache', server')
  <2>1. UNCHANGED <<cache, missed>>
    BY <1>4 DEF Served
  <2> QED BY <1>4, <2>1, ServedChanges DEF QueryInv
<1>5. ASSUME NEW i \in Busy, Failed(i) PROVE UpToDate(cache', server')
  <2>1. cache' = cache
    BY <1>5 DEF Failed
  <2> QED BY <1>5, <2>1, FailedChanges DEF QueryInv
<1>6. ASSUME NEW i \in Busy, BatchSucceeded(i) PROVE UpToDate(cache', server')
  BY <1>6, RefetchUpToDate DEF BatchSucceeded
<1>7. ASSUME NEW i \in Busy, Succeeded(i) PROVE UpToDate(cache', server')
  <2> DEFINE c == Table.calls[calls[i].op]
  <2>1. i \in Slots /\ calls[i].op \in DOMAIN Table.calls
    BY Named DEF Busy, TypeInv, CallsInv
  <2>2. c.reads \/ c.does = "keep"
    BY <2>1, TablesFit DEF TypeInv, CallsInv, CallsTyped, Table, Apart, ChangesRead
  <2>3. server' = server /\ calls' = Others(i) /\ ~missed
    BY <1>7 DEF Succeeded, Ended
  <2>4. CASE c.reads
    <3> DEFINE q == [cache EXCEPT !.fresh = FALSE]
    <3>1. q \in Query /\ q.data = cache.data /\ q.fetch = cache.fetch /\ q.fresh = FALSE
      BY StaleTyped
    <3> HIDE DEF q
    <3>2. ~Overtaken
      BY <1>7, <2>4 DEF Succeeded
    <3>3. cache' = IF shown THEN Refetch(q) ELSE q
      BY <1>7, <2>4 DEF Succeeded, Invalidated, q
    <3>4. CASE shown
      BY <3>1, <3>2, <3>3, <3>4, RefetchUpToDate DEF Overtaken
    <3>5. CASE ~shown
      BY <3>1, <3>2, <3>3, <3>5 DEF Overtaken, UpToDate
    <3> QED BY <3>4, <3>5
  <2>5. CASE ~c.reads
    <3>1. cache' = cache
      BY <1>7, <2>5 DEF Succeeded
    <3>2. ~Changed(calls[i])
      BY <2>2, <2>5 DEF Changed
    <3>3. ~Unlearnt
      BY <2>1, <2>3, <3>2, OthersUnlearnt DEF Unlearnt
    <3> QED BY <2>3, <3>1, <3>3 DEF QueryInv
  <2> QED BY <2>4, <2>5
<1> QED BY <1>1, <1>2, <1>3, <1>4, <1>5, <1>6, <1>7 DEF QueryStep

LEMMA InitQuery == ConsoleInit => QueryInv
BY DEF ConsoleInit, ListInit, QueryInv, UpToDate, NoData

(***************************************************************************)
(* The pages that do not use the query cache: the wizard lists nothing,    *)
(* Roles.tsx and the security tab read with calls of their own.            *)
(***************************************************************************)
Unqueried == {"onboarding", "roles", "security"}
ReadPages == {"roles", "security"}

\* Nothing is ever fetched through the cache, and the rows these pages have
\* are of the kind that their answers describe.
StillInv ==
    /\ page \in Unqueried => cache.fetch = "idle" /\ cache.failed = FALSE
    /\ page = "onboarding" => cache.data = None
    /\ page = "roles" => \A x \in Ids : server[x] \in {NoRow, NewRow}
    /\ page = "security" => \A x \in Ids : server[x].here

\* A call whose answer will be shown.
Awaited(c) == c.op \in ReadOps /\ (c.live \/ page = "security")

Seen(rows) == IF page = "roles" THEN Having(rows) ELSE {x \in Ids : rows[x].on}

\* With no answer to come the page shows the rows; an answer that nothing
\* else will overwrite has them.
ReadsReal(cs, q, rows, here) ==
    /\ (\A i \in Slots : ~Awaited(cs[i])) /\ here /\ q.fresh /\ q.data # None => q.data = rows
    /\ \A i \in Slots :
          Awaited(cs[i]) /\ cs[i].phase = "done" /\ (\A j \in Slots \ {i} : ~Awaited(cs[j]))
              => cs[i].xs = Seen(rows)

Here == shown \/ page = "security"

ReadsInv == page \in ReadPages /\ ~missed /\ ~Unlearnt => ReadsReal(calls, cache, server, Here)

ReadPageStep ==
    \/ /\ calls' = calls /\ UNCHANGED <<server, cache, missed>>
       /\ shown' = shown \/ page = "security"
    \/ \E op, xs : op \notin ReadOps /\ Made(op, xs) /\ UNCHANGED <<shown, server, cache, missed>>
    \/ RolesMount
    \/ Leave
    \/ \E i \in Busy : ~IsRead(i) /\ Served(i)
    \/ \E i \in Busy : ReadServed(i)
    \/ \E i \in Busy : ~IsRead(i) /\ Failed(i)
    \/ \E i \in Busy : /\ ~IsRead(i) /\ ~Changed(calls[i]) /\ calls' = Others(i)
                       /\ UNCHANGED <<shown, server, cache, missed>>
    \/ \E i \in Busy : fetchRoles(i) \/ RolesChanged(i) \/ MFAChanged(i) \/ fetchUser(i)

LEMMA Unlisted == ASSUME page \in Unqueried PROVE Table.lists = FALSE
BY PageTable DEF Table, Bare, Page, Unqueried

LEMMA NoFetching == ASSUME StillInv, page \in Unqueried PROVE ~Fetching
BY DEF StillInv, Fetching, FetchRead, FetchDone, FetchFails, Retry

LEMMA MountsStill ==
    ASSUME page \in Unqueried, Mount
    PROVE  calls' = calls /\ UNCHANGED <<server, cache, missed>>
BY Unlisted DEF Mount

LEMMA ReadPageSteps ==
    ASSUME TypeInv, StillInv, [ConsoleNext]_consoleVars, page \in ReadPages
    PROVE  ReadPageStep
<1> page \in Unqueried
  BY DEF ReadPages, Unqueried
<1>1. CASE PageStep
  <2>1. ASSUME NEW o, CloseForm(o) PROVE ReadPageStep
    BY <2>1 DEF CloseForm, ReadPageStep
  <2>2. CASE Asking
    <3>1. ASSUME NEW o \in open, NEW xs, Made(Submits(o), xs) PROVE Submits(o) \notin ReadOps
      <4>1. o.form \in DOMAIN Table.forms
        BY DEF TypeInv, OpenTyped
      <4> QED BY <4>1, RolesOps, SecurityOps DEF Submits, ReadOps, ReadPages
    <3>2. DOMAIN Table.buttons \cap ReadOps = {}
      BY RolesOps, SecurityOps DEF ReadOps, ReadPages
    <3> QED BY <2>2, <3>1, <3>2, AskingMoves DEF ReadPageStep
  <2>3. CASE page # "roles" /\ Mount
    BY <2>3, MountsStill DEF ReadPageStep, ReadPages
  <2> QED BY <1>1, <2>1, <2>2, <2>3, NoFetching DEF PageStep, CloseKeyDialog, ReadPageStep
<1>2. ~SelectStep /\ ~WizardStep
  BY DEF SelectStep, toggleSelect, toggleSelectAll, clearSelection, handleBatch, AskBatchDelete,
         handleBatchDelete, OnList, WizardStep, WizardNext, WizardBack, WizardSubmit, handleFinish,
         OnStep, ReadPages
<1>3. CASE handleMFA
  <2>1. page = "security" /\ UNCHANGED <<shown, server, cache, missed>>
    BY <1>3 DEF handleMFA, OnSecurity
  <2>2. PICK op \in {"enroll", "verify", "disable"}, xs \in SUBSET Ids : Submit(op, xs)
    BY <1>3 DEF handleMFA
  <2>3. op \notin ReadOps /\ Made(op, xs)
    BY <2>1, <2>2, SecurityOps, NotSingle DEF Made, ReadOps
  <2> QED BY <2>1, <2>3 DEF ReadPageStep
<1>4. ASSUME NEW i \in Busy, Answered(i) PROVE ReadPageStep
  <2>1. i \in Slots /\ ~IsBatch(i)
    BY BatchOnTunnels DEF Busy, TypeInv, ReadPages
  <2>2. CASE handleEnrollMFA(i)
    <3>1. page = "security" /\ calls[i].op = "enroll" /\ Succeeded(i)
      BY <2>2 DEF handleEnrollMFA
    <3>2. ~IsRead(i) /\ ~Changed(calls[i])
      BY <3>1, SecurityOps DEF IsRead, Changed
    <3>3. calls' = Others(i) /\ UNCHANGED <<shown, server, cache>>
      BY <3>1, SecurityOps DEF Succeeded, Ended
    <3>4. missed' = missed
      BY <3>1, SecurityOps DEF Succeeded, TypeInv
    <3> QED BY <3>2, <3>3, <3>4 DEF ReadPageStep
  <2> QED BY <1>4, <2>1, <2>2 DEF Answered, Special, BatchSucceeded, BatchFailed, KeyCreated, handleCreateOrg,
          handleCreateTunnel, Finished, ReadPageStep, ReadPages
<1>5. CASE UNCHANGED consoleVars
  BY <1>5 DEF consoleVars, ReadPageStep
<1> QED BY <1>1, <1>2, <1>3, <1>4, <1>5 DEF ConsoleNext, ReadPageStep

\* The rows.
LEMMA OutcomeRows ==
    ASSUME TypeInv, StillInv, page \in ReadPages, NEW i \in Busy, server' \in Outcomes(i)
    PROVE  /\ page = "roles" => \A x \in Ids : server'[x] \in {NoRow, NewRow}
           /\ page = "security" => \A x \in Ids : server'[x].here
<1>1. i \in Slots /\ calls[i].op \in DOMAIN Table.calls
  BY Named DEF Busy, TypeInv, CallsInv
<1>2. server' \in Results(Table.calls[calls[i].op].does, calls[i].xs)
  BY DEF Outcomes
<1>3. server \in Rows
  BY DEF TypeInv
<1>4. ASSUME page = "roles" PROVE \A x \in Ids : server'[x] \in {NoRow, NewRow}
  <2>1. Table.calls[calls[i].op].does \in {"add", "remove", "keep"}
    BY <1>1, <1>4, RolesOps
  <2>2. \A x \in Ids : server[x] \in {NoRow, NewRow}
    BY <1>4 DEF StillInv
  <2> QED BY <1>2, <1>3, <2>1, <2>2 DEF Results, Rows
<1>5. ASSUME page = "security" PROVE \A x \in Ids : server'[x].here
  <2>1. Table.calls[calls[i].op].does \in {"on", "off", "keep"}
    BY <1>1, <1>5, SecurityOps
  <2>2. \A x \in Ids : server[x] \in Row /\ server[x].here
    BY <1>3, <1>5 DEF StillInv, Rows
  <2>3. ASSUME NEW v \in BOOLEAN, NEW x \in Ids PROVE \A ys : Turned(server, ys, v)[x].here
    <3>1. [server[x] EXCEPT !.on = v].here
      BY <2>2 DEF Row
    <3> QED BY <2>2, <3>1 DEF Turned
  <2>4. CASE Table.calls[calls[i].op].does = "keep"
    BY <1>2, <2>2, <2>4 DEF Results
  <2>5. CASE Table.calls[calls[i].op].does = "on"
    <3>1. PICK ys : server' = Turned(server, ys, TRUE)
      BY <1>2, <2>5 DEF Results
    <3> QED BY <2>3, <3>1
  <2>6. CASE Table.calls[calls[i].op].does = "off"
    <3>1. PICK ys : server' = Turned(server, ys, FALSE)
      BY <1>2, <2>6 DEF Results
    <3> QED BY <2>3, <3>1
  <2> QED BY <2>1, <2>4, <2>5, <2>6
<1> QED BY <1>4, <1>5

LEMMA ShowsStill ==
    ASSUME NEW rows, NEW known \in BOOLEAN, Shows(rows, known)
    PROVE  /\ cache'.data = rows /\ cache'.fresh = known
           /\ cache'.fetch = "idle" /\ cache'.failed = FALSE
<1>1. cache' = [data |-> rows, got |-> None, fetch |-> "idle", fresh |-> known, failed |-> FALSE]
  BY DEF Shows, NoData
<1> QED BY <1>1

LEMMA NextStill ==
    ASSUME TypeInv, StillInv, [ConsoleNext]_consoleVars
    PROVE  StillInv'
<1> page' = page
  BY NextMoves
<1> NoData.fetch = "idle" /\ NoData.failed = FALSE
  BY DEF NoData
<1>1. CASE page \in ReadPages
  <2>1. ReadPageStep
    BY <1>1, ReadPageSteps
  <2>2. cache' = cache \/ cache' = NoData \/ \E rows : \E known \in BOOLEAN : Shows(rows, known)
    BY <2>1 DEF ReadPageStep, RolesMount, Leave, Served, ReadServed, Failed, fetchRoles, RolesChanged,
                MFAChanged, fetchUser
  <2>3. cache'.fetch = "idle" /\ cache'.failed = FALSE
    <3>1. cache.fetch = "idle" /\ cache.failed = FALSE
      BY <1>1 DEF StillInv, Unqueried, ReadPages
    <3> QED BY <2>2, <3>1, ShowsStill
  <2>4. server' = server \/ \E i \in Busy : server' \in Outcomes(i)
    BY <2>1 DEF ReadPageStep, RolesMount, Leave, Served, ReadServed, Failed, fetchRoles, RolesChanged,
                MFAChanged, fetchUser
  <2>5. /\ page = "roles" => \A x \in Ids : server'[x] \in {NoRow, NewRow}
        /\ page = "security" => \A x \in Ids : server'[x].here
    BY <1>1, <2>4, OutcomeRows DEF StillInv
  <2> QED BY <1>1, <2>3, <2>5 DEF StillInv, ReadPages, NoRow, NewRow
<1>2. CASE page = "onboarding"
  <2>1. cache' = cache
    <3>1. CASE PageStep
      <4>1. ~Asking
        BY <1>2, OnboardingOps DEF Asking, SubmitForm, TypeInv, OpenTyped
      <4> QED BY <1>2, <3>1, <4>1, NoFetching, MountsStill
              DEF PageStep, CloseForm, CloseKeyDialog, RolesMount, Leave, Unqueried
    <3>2. CASE WizardStep
      BY <3>2 DEF WizardStep, WizardNext, WizardBack, WizardSubmit, handleFinish, listVars
    <3>3. ~SelectStep /\ ~handleMFA
      BY <1>2 DEF SelectStep, toggleSelect, toggleSelectAll, clearSelection, handleBatch, AskBatchDelete,
                  handleBatchDelete, OnList, handleMFA, OnSecurity
    <3>4. ASSUME NEW i \in Busy, Served(i) \/ ReadServed(i) PROVE cache' = cache
      BY <3>4 DEF Served, ReadServed
    <3>5. ASSUME NEW i \in Busy, Answered(i) PROVE cache' = cache
      <4>1. i \in Slots /\ calls[i].op \in DOMAIN Table.calls /\ ~IsBatch(i)
        BY <1>2, Named, BatchOnTunnels DEF Busy, TypeInv, CallsInv
      <4>2. ASSUME Succeeded(i) \/ Failed(i) PROVE cache' = cache
        BY <1>2, <4>1, <4>2, OnboardingOps DEF Succeeded, Failed
      <4> QED BY <1>2, <3>5, <4>1, <4>2 DEF Answered, BatchSucceeded, BatchFailed, KeyCreated, handleCreateOrg,
              handleCreateTunnel, Finished, fetchRoles, RolesChanged, handleEnrollMFA, MFAChanged, fetchUser
    <3>6. CASE UNCHANGED consoleVars
      BY <3>6 DEF consoleVars
    <3> QED BY <3>1, <3>2, <3>3, <3>4, <3>5, <3>6 DEF ConsoleNext
  <2> QED BY <1>2, <2>1 DEF StillInv
<1>3. CASE page \notin Unqueried
  BY <1>3 DEF StillInv, Unqueried
<1> QED BY <1>1, <1>2, <1>3 DEF Unqueried, ReadPages

LEMMA InitStill == ConsoleInit => StillInv
<1> SUFFICES ASSUME ConsoleInit PROVE StillInv
  OBVIOUS
<1>1. cache = NoData /\ NoData.fetch = "idle" /\ NoData.failed = FALSE /\ NoData.data = None
  BY DEF ConsoleInit, ListInit, NoData
<1>2. server \in {[x \in Ids |-> NoRow], [x \in Ids |-> NewRow]}
  BY DEF ConsoleInit, ListInit
<1>3. page = "security" => \A x \in Ids : server[x].here
  BY DEF ConsoleInit, Having
<1>4. \A x \in Ids : server[x] \in {NoRow, NewRow}
  BY <1>2
<1> QED BY <1>1, <1>3, <1>4 DEF StillInv

\* Reads change nothing, and only they are awaited.
LEMMA ReadsKeep ==
    ASSUME TypeInv, page \in ReadPages, NEW i \in Busy, IsRead(i)
    PROVE  i \in Slots /\ ~Changed(calls[i])
<1>1. i \in Slots /\ calls[i].op \in DOMAIN Table.calls
  BY Named DEF Busy, TypeInv, CallsInv
<1> QED BY <1>1, RolesOps, SecurityOps DEF Changed, IsRead, ReadPages

LEMMA AwaitedCalls ==
    /\ ~Awaited(NoCall)
    /\ \A i \in Slots : Awaited(calls[i]) <=> Heeded(i)
    /\ \A c, d : Copy(c, d) => (Awaited(c) <=> Awaited(d))
<1>1. ~Awaited(NoCall)
  BY DEF Awaited, NoCall, ReadOps
<1>2. \A i \in Slots : Awaited(calls[i]) <=> Heeded(i)
  BY DEF Awaited, Heeded, IsRead, ReadOps
<1>3. \A c, d : Copy(c, d) => (Awaited(c) <=> Awaited(d))
  BY DEF Awaited, Copy
<1> QED BY <1>1, <1>2, <1>3

\* The same reads are under way, with the same answers.
LEMMA SameReads ==
    ASSUME ReadsReal(calls, cache, server, Here), NEW here, here => Here,
           \A j \in Slots : /\ Awaited(calls'[j]) <=> Awaited(calls[j])
                            /\ Awaited(calls[j]) => Copy(calls'[j], calls[j])
    PROVE  ReadsReal(calls', cache, server, here)
BY DEF ReadsReal, Copy

\* A call that was not awaited ends.
LEMMA OtherReads ==
    ASSUME ReadsReal(calls, cache, server, Here), NEW here, here => Here,
           NEW i \in Slots, ~Awaited(calls[i]), calls' = Others(i)
    PROVE  ReadsReal(calls', cache, server, here)
<1>1. /\ \A j \in Slots : Awaited(calls'[j]) =>
            From(i, j) \in Slots \ {i} /\ calls'[j] = calls[From(i, j)] /\ To(i, From(i, j)) = j
      /\ \A k \in Slots \ {i} : To(i, k) \in Slots /\ calls'[To(i, k)] = calls[k]
      /\ \A k, m \in Slots \ {i} : k # m => To(i, k) # To(i, m)
  BY OthersCopies, AwaitedCalls
<1>2. (\A j \in Slots : ~Awaited(calls'[j])) => \A k \in Slots : ~Awaited(calls[k])
  BY <1>1
<1>3. ASSUME NEW j \in Slots, Awaited(calls'[j]), calls'[j].phase = "done",
             \A m \in Slots \ {j} : ~Awaited(calls'[m])
      PROVE  calls'[j].xs = Seen(server)
  <2> DEFINE k == From(i, j)
  <2>1. k \in Slots \ {i} /\ calls'[j] = calls[k] /\ To(i, k) = j
    BY <1>1, <1>3
  <2> HIDE DEF k
  <2>2. ASSUME NEW m \in Slots \ {k}, Awaited(calls[m]) PROVE FALSE
    <3>1. m # i
      BY <2>2
    <3>2. To(i, m) \in Slots /\ calls'[To(i, m)] = calls[m] /\ To(i, m) # To(i, k)
      BY <1>1, <2>1, <2>2, <3>1
    <3> QED BY <1>3, <2>1, <2>2, <3>2
  <2> QED BY <1>3, <2>1, <2>2 DEF ReadsReal
<1> QED BY <1>2, <1>3 DEF ReadsReal

\* A read has just been sent.
LEMMA ReadSent ==
    ASSUME NEW n \in Slots, Awaited(calls'[n]), calls'[n].phase = "sent", NEW q, NEW rows, NEW here
    PROVE  ReadsReal(calls', q, rows, here)
BY DEF ReadsReal

\* None is under way.
LEMMA NoReads ==
    ASSUME \A j \in Slots : ~Awaited(calls'[j]), NEW q, NEW rows, NEW here,
           here /\ q.fresh /\ q.data # None => q.data = rows
    PROVE  ReadsReal(calls', q, rows, here)
BY DEF ReadsReal

\* The last answer to come is the newest one.
LEMMA LastAnswer ==
    ASSUME TypeInv, StillInv, page \in ReadPages, ReadsReal(calls, cache, server, Here),
           NEW i \in Slots, Awaited(calls[i]), calls[i].phase = "done",
           \A j \in Slots \ {i} : ~Awaited(calls[j])
    PROVE  /\ page = "roles" => [x \in Ids |-> IF x \in calls[i].xs THEN NewRow ELSE NoRow] = server
           /\ page = "security" => [x \in Ids |-> [here |-> TRUE, on |-> x \in calls[i].xs]] = server
<1>1. calls[i].xs = Seen(server)
  BY DEF ReadsReal
<1>2. server = [x \in Ids |-> server[x]] /\ \A x \in Ids : server[x] \in Row
  BY DEF TypeInv, Rows
<1>3. ASSUME page = "roles"
      PROVE  [x \in Ids |-> IF x \in calls[i].xs THEN NewRow ELSE NoRow] = server
  <2>1. ASSUME NEW x \in Ids PROVE server[x] = IF x \in calls[i].xs THEN NewRow ELSE NoRow
    <3>1. server[x] \in {NoRow, NewRow} /\ (x \in calls[i].xs <=> server[x].here)
      BY <1>1, <1>3 DEF StillInv, Seen, Having
    <3>2. NoRow.here = FALSE /\ NewRow.here = TRUE
      BY DEF NoRow, NewRow
    <3> QED BY <3>1, <3>2
  <2> QED BY <1>2, <2>1
<1>4. ASSUME page = "security"
      PROVE  [x \in Ids |-> [here |-> TRUE, on |-> x \in calls[i].xs]] = server
  <2>1. ASSUME NEW x \in Ids PROVE server[x] = [here |-> TRUE, on |-> x \in calls[i].xs]
    <3>1. server[x].here /\ (x \in calls[i].xs <=> server[x].on)
      BY <1>1, <1>4 DEF StillInv, Seen
    <3>2. server[x] = [here |-> server[x].here, on |-> server[x].on]
          /\ server[x].here \in BOOLEAN /\ server[x].on \in BOOLEAN
      BY <1>2 DEF Row
    <3>3. CASE x \in calls[i].xs
      <4>1. server[x].here = TRUE /\ server[x].on = TRUE /\ (x \in calls[i].xs) = TRUE
        BY <3>1, <3>2, <3>3
      <4> QED BY <3>2, <4>1, Zenon
    <3>4. CASE x \notin calls[i].xs
      <4>1. server[x].here = TRUE /\ server[x].on = FALSE /\ (x \in calls[i].xs) = FALSE
        BY <3>1, <3>2, <3>4
      <4> QED BY <3>2, <4>1, Zenon
    <3> QED BY <3>3, <3>4
  <2> QED BY <1>2, <2>1
<1> QED BY <1>3, <1>4

LEMMA NextReads ==
    ASSUME TypeInv, TypeInv', StillInv, ReadsInv, [ConsoleNext]_consoleVars
    PROVE  ReadsInv'
<1> page' = page
  BY NextMoves
<1> DEFINE here == shown' \/ page = "security"
           Goal == ReadsReal(calls', cache', server', here)
<1> SUFFICES ASSUME page \in ReadPages, ~missed', ~NextUnlearnt
             PROVE  Goal
  BY UnlearntNext, SameTable DEF ReadsInv, ReadsReal, Awaited, Seen, Having, Here, ReadPages
<1> HIDE DEF here
<1> CallsTyped /\ Packed
  BY DEF TypeInv, CallsInv
<1>1. ReadPageStep
  BY ReadPageSteps
<1>2. ASSUME ~missed, ~Unlearnt PROVE ReadsReal(calls, cache, server, Here)
  BY <1>2 DEF ReadsInv
<1>3. CASE calls' = calls /\ UNCHANGED <<server, cache, missed>> /\ (shown' = shown \/ page = "security")
  <2>1. ~Unlearnt /\ ~missed
    BY <1>3 DEF Unlearnt, NextUnlearnt
  <2>2. here => Here
    BY <1>3 DEF here, Here
  <2> QED BY <1>2, <1>3, <2>1, <2>2, SameReads DEF Copy
<1>4. ASSUME NEW op, NEW xs, op \notin ReadOps, Made(op, xs), UNCHANGED <<shown, server, cache, missed>>
      PROVE  Goal
  <2>1. ~Unlearnt /\ ~missed
    BY <1>4, MadeUnlearnt
  <2>2. here => Here
    BY <1>4 DEF here, Here
  <2>3. PICK n \in Slots : /\ calls[n] = NoCall /\ calls'[n] = NewCall(op, xs)
                           /\ \A j \in Slots \ {n} : Copy(calls'[j], calls[j])
    BY <1>4, MadeCopies
  <2>4. ~Awaited(calls'[n])
    BY <1>4, <2>3 DEF Awaited, NewCall
  <2>5. \A j \in Slots : /\ Awaited(calls'[j]) <=> Awaited(calls[j])
                         /\ Awaited(calls[j]) => Copy(calls'[j], calls[j])
    BY <2>3, <2>4, AwaitedCalls
  <2> QED BY <1>2, <1>4, <2>1, <2>2, <2>5, SameReads
<1>5. CASE RolesMount
  <2>1. Made("fetch", {}) /\ page = "roles"
    BY <1>5, RolesOps, NotSingle DEF RolesMount, Made
  <2>2. PICK n \in Slots : calls'[n] = NewCall("fetch", {})
    BY <2>1, MadeCopies
  <2>3. Awaited(calls'[n]) /\ calls'[n].phase = "sent"
    BY <2>2 DEF Awaited, NewCall, ReadOps
  <2> QED BY <2>3, ReadSent
<1>6. CASE Leave
  <2>1. calls' = LeftBehind(calls) /\ UNCHANGED <<server, cache, missed>> /\ shown' = FALSE
    BY <1>6 DEF Leave
  <2>2. \A j \in Slots : /\ calls'[j].op = calls[j].op /\ calls'[j].phase = calls[j].phase
                         /\ calls'[j].xs = calls[j].xs /\ calls'[j].live = FALSE
    BY <2>1, LeftTyped DEF CallsTyped
  <2>3. CASE page = "roles"
    <3>1. ~here /\ \A j \in Slots : ~Awaited(calls'[j])
      BY <2>1, <2>2, <2>3 DEF Awaited, here
    <3> QED BY <3>1, NoReads
  <2>4. CASE page = "security"
    <3>1. ReadsReal(calls, cache, server, Here)
      BY <1>2, <2>1, LeaveUnlearnt
    <3>2. Here
      BY <2>4 DEF Here
    <3>3. \A j \in Slots : Awaited(calls'[j]) <=> Awaited(calls[j])
      BY <2>2, <2>4 DEF Awaited
    <3> QED BY <2>1, <2>2, <3>1, <3>2, <3>3 DEF ReadsReal
  <2> QED BY <2>3, <2>4 DEF ReadPages
<1>7. ASSUME NEW i \in Busy, ~IsRead(i), Served(i) PROVE Goal
  <2>1. ~Unlearnt /\ server' = server /\ UNCHANGED <<shown, cache, missed>>
    BY <1>7, ServedChanges DEF Served
  <2>2. here => Here
    BY <2>1 DEF here, Here
  <2>3. i \in Slots /\ \E xs : Answering(i, xs)
    BY <1>7, ServesAnswer DEF Busy
  <2>4. calls'[i].op = calls[i].op /\ \A j \in Slots \ {i} : calls'[j] = calls[j]
    BY <2>3, AnsweringFields
  <2>5. ~Awaited(calls[i]) /\ ~Awaited(calls'[i])
    BY <1>7, <2>4 DEF IsRead, Awaited, ReadOps
  <2> QED BY <1>2, <2>1, <2>2, <2>3, <2>4, <2>5, SameReads DEF Copy
<1>8. ASSUME NEW i \in Busy, ReadServed(i) PROVE Goal
  <2>1. i \in Slots /\ UNCHANGED <<shown, server, cache>> /\ missed' = (missed /\ ~Heeded(i))
        /\ IsRead(i) /\ calls[i].phase = "sent"
    BY <1>8 DEF ReadServed, Busy
  <2>2. Answering(i, Seen(server))
    BY <1>8 DEF ReadServed, Answering, Seen
  <2>3. /\ \A j \in Slots \ {i} : calls'[j] = calls[j]
        /\ calls'[i].op = calls[i].op /\ calls'[i].live = calls[i].live
        /\ calls'[i].phase = "done" /\ calls'[i].xs = Seen(server)
    BY <2>2, AnsweringFields
  <2>4. \A j \in Slots : Awaited(calls'[j]) <=> Awaited(calls[j])
    BY <2>3 DEF Awaited
  <2>5. CASE Heeded(i)
    <3>1. Awaited(calls'[i])
      BY <2>1, <2>4, <2>5, AwaitedCalls
    <3> QED BY <2>1, <2>3, <3>1 DEF ReadsReal
  <2>6. CASE ~Heeded(i)
    <3>1. ~Awaited(calls[i])
      BY <2>1, <2>6, AwaitedCalls
    <3>2. ~Changed(calls[i])
      BY <1>8, <2>1, ReadsKeep
    <3>3. ~Unlearnt /\ ~missed
      BY <2>1, <2>3, <2>6, <3>2 DEF Unlearnt, NextUnlearnt
    <3>4. here => Here
      BY <2>1 DEF here, Here
    <3>5. \A j \in Slots : Awaited(calls[j]) => Copy(calls'[j], calls[j])
      BY <2>3, <3>1 DEF Copy
    <3> QED BY <1>2, <2>1, <2>4, <3>3, <3>4, <3>5, SameReads
  <2> QED BY <2>5, <2>6
<1>9. ASSUME NEW i \in Busy, ~IsRead(i), calls' = Others(i), UNCHANGED <<shown, server, cache>>,
             ~missed, ~Unlearnt
      PROVE  Goal
  <2>1. i \in Slots /\ ~Awaited(calls[i])
    BY <1>9 DEF Busy, IsRead, Awaited, ReadOps
  <2>2. here => Here
    BY <1>9 DEF here, Here
  <2> QED BY <1>2, <1>9, <2>1, <2>2, OtherReads
<1>10. ASSUME NEW i \in Busy, ~IsRead(i), Failed(i) PROVE Goal
  <2>1. calls' = Others(i) /\ UNCHANGED <<shown, cache>>
    BY <1>10 DEF Failed, Ended
  <2> QED BY <1>9, <1>10, <2>1, FailedChanges
<1>11. ASSUME NEW i \in Busy, ~IsRead(i), ~Changed(calls[i]), calls' = Others(i),
              UNCHANGED <<shown, server, cache, missed>>
       PROVE  Goal
  <2>1. i \in Slots
    BY DEF Busy
  <2>2. ~Unlearnt
    BY <1>11, <2>1, OthersUnlearnt DEF Unlearnt
  <2> QED BY <1>9, <1>11, <2>2
<1>12. ASSUME NEW i \in Busy, IsRead(i), calls' = Others(i), ~missed,
              \A j \in Busy \ {i} : ~Heeded(j), Awaited(calls[i])
       PROVE  /\ i \in Slots /\ ReadsReal(calls, cache, server, Here)
              /\ \A j \in Slots \ {i} : ~Awaited(calls[j])
              /\ \A j \in Slots : ~Awaited(calls'[j])
  <2>1. i \in Slots /\ ~Changed(calls[i])
    BY <1>12, ReadsKeep
  <2>2. ~Unlearnt
    BY <1>12, <2>1, OthersUnlearnt DEF Unlearnt
  <2>3. \A j \in Slots \ {i} : ~Awaited(calls[j])
    BY <1>12, AwaitedCalls DEF Busy
  <2>4. \A j \in Slots : ~Awaited(calls'[j])
    BY <1>12, <2>1, <2>3, OthersCopies, AwaitedCalls
  <2> QED BY <1>2, <1>12, <2>1, <2>2, <2>3, <2>4
<1>13. ASSUME NEW i \in Busy, fetchRoles(i) PROVE Goal
  <2>1. page = "roles" /\ IsRead(i) /\ calls' = Others(i) /\ UNCHANGED <<shown, server>>
        /\ ~missed /\ ~(Heeded(i) /\ Outruns(i))
    BY <1>13 DEF fetchRoles, Ended
  <2>2. i \in Slots /\ ~Changed(calls[i])
    BY <2>1, ReadsKeep
  <2>3. CASE calls[i].live
    <3>1. Awaited(calls[i]) /\ Heeded(i)
      BY <2>1, <2>2, <2>3, AwaitedCalls DEF Heeded
    <3>2. \A j \in Busy \ {i} : ~Heeded(j)
      BY <2>1, <3>1 DEF Outruns
    <3>3. /\ ReadsReal(calls, cache, server, Here)
          /\ \A j \in Slots \ {i} : ~Awaited(calls[j])
          /\ \A j \in Slots : ~Awaited(calls'[j])
      BY <1>12, <2>1, <3>1, <3>2
    <3>4. CASE /\ calls[i].phase = "done"
               /\ Shows([x \in Ids |-> IF x \in calls[i].xs THEN NewRow ELSE NoRow], TRUE)
      <4>1. [x \in Ids |-> IF x \in calls[i].xs THEN NewRow ELSE NoRow] = server
        BY <2>1, <2>2, <3>1, <3>3, <3>4, LastAnswer
      <4>2. Shows(server, TRUE)
        BY <3>4, <4>1, Zenon DEF Shows
      <4>3. cache'.data = server
        BY <4>2, ShowsStill
      <4> QED BY <2>1, <3>3, <4>3, NoReads
    <3>5. CASE Shows([x \in Ids |-> NoRow], FALSE)
      <4> DEFINE rows == [x \in Ids |-> NoRow]
      <4>1. Shows(rows, FALSE)
        BY <3>5
      <4> HIDE DEF rows
      <4>2. cache'.fresh = FALSE
        BY <4>1, ShowsStill
      <4> QED BY <3>3, <4>2, NoReads
    <3> QED BY <1>13, <2>3, <3>4, <3>5 DEF fetchRoles
  <2>4. CASE ~calls[i].live
    <3>1. ~Awaited(calls[i]) /\ cache' = cache
      BY <1>13, <2>1, <2>4 DEF Awaited, fetchRoles
    <3>2. ~Unlearnt
      BY <2>1, <2>2, OthersUnlearnt DEF Unlearnt
    <3>3. here => Here
      BY <2>1 DEF here, Here
    <3> QED BY <1>2, <2>1, <2>2, <3>1, <3>2, <3>3, OtherReads
  <2> QED BY <2>3, <2>4
<1>14. ASSUME NEW i \in Busy, NEW op \in ReadOps, Followed(i, op), calls[i].live \/ page = "security"
       PROVE  Goal
  <2>1. PICK n \in Slots : calls'[n] = NextCall(i, op)
    BY <1>14, FollowMove DEF Busy
  <2>2. Awaited(calls'[n]) /\ calls'[n].phase = "sent"
    BY <1>14, <2>1 DEF Awaited, NextCall
  <2> QED BY <2>2, ReadSent
<1>15. ASSUME NEW i \in Busy, RolesChanged(i) PROVE Goal
  BY <1>14, <1>15 DEF RolesChanged, ReadOps
<1>16. ASSUME NEW i \in Busy, MFAChanged(i) PROVE Goal
  BY <1>14, <1>16 DEF MFAChanged, ReadOps
<1>17. ASSUME NEW i \in Busy, fetchUser(i) PROVE Goal
  <2>1. page = "security" /\ IsRead(i) /\ server' = server /\ ~missed /\ ~Outruns(i)
    BY <1>17 DEF fetchUser
  <2>2. i \in Slots /\ Awaited(calls[i])
    BY <2>1, AwaitedCalls DEF Heeded, Busy
  <2>3. \A j \in Busy \ {i} : ~Heeded(j)
    BY <2>1 DEF Outruns
  <2>4. CASE /\ calls[i].phase = "done" /\ Ended(i)
             /\ Shows([x \in Ids |-> [here |-> TRUE, on |-> x \in calls[i].xs]], TRUE)
    <3>1. /\ ReadsReal(calls, cache, server, Here)
          /\ \A j \in Slots \ {i} : ~Awaited(calls[j])
          /\ \A j \in Slots : ~Awaited(calls'[j])
      BY <1>12, <2>1, <2>2, <2>3, <2>4 DEF Ended
    <3>2. [x \in Ids |-> [here |-> TRUE, on |-> x \in calls[i].xs]] = server
      BY <2>1, <2>2, <2>4, <3>1, LastAnswer
    <3>3. Shows(server, TRUE)
      BY <2>4, <3>2, Zenon DEF Shows
    <3>4. cache'.data = server
      BY <3>3, ShowsStill
    <3> QED BY <2>1, <3>1, <3>4, NoReads
  <2>5. CASE calls' = LeftBehind(Others(i)) /\ cache' = NoData
    <3>1. Others(i) \in [Slots -> CallOrNone]
      BY <2>2, OthersTyped
    <3>2. \A j \in Slots : calls'[j].op = Others(i)[j].op
      BY <2>5, <3>1, LeftTyped DEF CallsTyped
    <3>3. ASSUME NEW j \in Slots, Awaited(calls'[j]) PROVE FALSE
      <4>1. Others(i)[j].op \in ReadOps
        BY <3>2, <3>3 DEF Awaited
      <4>2. Others(i)[j] # NoCall
        BY <4>1 DEF NoCall, ReadOps
      <4>3. PICK k \in Slots \ {i} : Others(i)[j] = calls[k]
        BY <2>2, <4>2, OthersMove
      <4>4. k \in Busy /\ Heeded(k)
        BY <2>1, <4>1, <4>2, <4>3 DEF Busy, Heeded, IsRead, ReadOps
      <4> QED BY <2>3, <4>3, <4>4
    <3>4. cache'.data = None
      BY <2>5 DEF NoData
    <3> QED BY <3>3, <3>4, NoReads
  <2> QED BY <1>17, <2>4, <2>5 DEF fetchUser
<1> HIDE DEF Goal
<1> QED BY <1>1, <1>3, <1>4, <1>5, <1>6, <1>7, <1>8, <1>10, <1>11, <1>13, <1>15, <1>16, <1>17 DEF ReadPageStep

LEMMA InitReads == ConsoleInit => ReadsInv
<1> SUFFICES ASSUME ConsoleInit PROVE ReadsInv
  OBVIOUS
<1>1. cache.data = None /\ \A i \in Slots : calls[i] = NoCall
  BY DEF ConsoleInit, ListInit, NoData
<1> QED BY <1>1, AwaitedCalls DEF ReadsInv, ReadsReal

\* Once nothing is under way, the rows on the screen are the server's on
\* every page but that of one tunnel, for any rows and any number of calls
\* under way: invalidation after every change, on the pages with a query,
\* and the read that follows every change, on the two without, suffice
\* unless a change could not be learnt of.
THEOREM ListedRowsAreReal == ConsoleSpec => []ListedIsReal
<1>1. TypeInv /\ QueryInv /\ [ConsoleNext]_consoleVars => QueryInv'
  BY NextQuery
<1>2. TypeInv /\ StillInv /\ [ConsoleNext]_consoleVars => StillInv'
  BY NextStill
<1>3. TypeInv /\ TypeInv' /\ StillInv /\ ReadsInv /\ [ConsoleNext]_consoleVars => ReadsInv'
  BY NextReads
<1>4. ConsoleSpec => [](QueryInv /\ StillInv /\ ReadsInv)
  BY <1>1, <1>2, <1>3, InitQuery, InitStill, InitReads, ConsoleTypeInvariance, PTL DEF ConsoleSpec
<1>5. QueryInv /\ StillInv /\ ReadsInv => ListedIsReal
  <2> SUFFICES ASSUME QueryInv, StillInv, ReadsInv, shown, page # "tunnel", cache.data # None, cache.fresh,
                      cache.fetch = "idle", ~missed, \A i \in Slots : calls[i] = NoCall
               PROVE  cache.data = server
    BY DEF ListedIsReal
  <2>1. ~Unlearnt
    BY NothingChanged DEF Unlearnt
  <2>2. CASE page \notin Apart
    BY <2>1, <2>2 DEF QueryInv, UpToDate
  <2>3. CASE page = "onboarding"
    BY <2>3 DEF StillInv
  <2>4. CASE page \in ReadPages
    BY <2>1, <2>4, AwaitedCalls DEF ReadsInv, ReadsReal, Here
  <2> QED BY <2>2, <2>3, <2>4 DEF Apart, ReadPages
<1> QED BY <1>4, <1>5, PTL
=============================================================================
