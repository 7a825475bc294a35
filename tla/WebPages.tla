------------------------------ MODULE WebPages ------------------------------
(***************************************************************************)
(* The pages of the dashboard (web/src/pages) as tables of module          *)
(* PageTables: what their calls do and what success does to the page,      *)
(* which forms and dialogs they have, which buttons their rows have.       *)
(* Forms are taken to be filled in validly; search, filters, paging,       *)
(* clipboard and toasts are left out.                                      *)
(***************************************************************************)
EXTENDS PageTables

(***************************************************************************)
(* Tunnels.tsx and TunnelDetail.tsx on useTunnels.  A row is on while its  *)
(* tunnel is active.  Every mutation of the hook invalidates the list, not *)
(* the query of one tunnel.                                                *)
(***************************************************************************)
useTunnels ==
    [create  |-> Call("create", "add"),     update  |-> Call("update", "keep"),
     delete  |-> Call("delete", "remove"),  start   |-> Call("start", "on"),
     stop    |-> Call("stop", "off"),       restart |-> Call("restart", "keep")]

\* The batch calls are plain calls, outside the hook.  (The tags of a new
\* tunnel are sent by another one, which changes no row's condition and
\* whose answer nobody reads.)
TunnelsCalls ==
    [create      |-> Closing(useTunnels.create, {"create"}),
     delete      |-> Closing(useTunnels.delete, {"delete"}),
     start       |-> useTunnels.start,      stop      |-> useTunnels.stop,
     batchStart  |-> Call("batch", "on"),   batchStop |-> Call("batch", "off"),
     batchDelete |-> Closing(Call("batch", "remove"), {"batch"})]

\* Clone opens the create dialog too.
CreateTunnel == Form("create", "none", {}, {"create"})

\* The batch dialog is about the selected rows, see Console.
TunnelsForms ==
    [create |-> CreateTunnel,
     delete |-> Form("none", "delete", AnyRow, {"delete"}),
     batch  |-> Form("none", "none", {}, {})]

TunnelsRows ==
    [start |-> Button({FALSE}, {"start"}), stop |-> Button({TRUE}, {"stop"})]

\* Only the edit dialog reads the tunnel again.
TunnelDetailCalls ==
    [start   |-> Unread(useTunnels.start),   stop   |-> Unread(useTunnels.stop),
     restart |-> Unread(useTunnels.restart), update |-> Closing(useTunnels.update, {"edit"})]

TunnelDetailForms == [edit |-> Form("none", "update", AnyRow, {"update"})]

TunnelDetailButtons ==
    [start |-> Button({FALSE}, {"start"}), stop |-> Button({TRUE}, {"stop"}),
     restart |-> Button(AnyRow, {"restart"})]

(***************************************************************************)
(* Domains.tsx.  A row is on once its domain is verified; adding one opens *)
(* the DNS instructions.                                                   *)
(***************************************************************************)
\* Mutant: the list is not read again.
DomainsCallsUnread ==
    [add    |-> Unread(Opening(Closing(Call("add", "add"), {"add"}), {"instructions"})),
     remove |-> Closing(Call("remove", "remove"), {"delete"}),
     verify |-> Call("verify", "on")]

DomainsCalls ==
    [add    |-> Opening(Closing(Call("add", "add"), {"add"}), {"instructions"}),
     remove |-> Closing(Call("remove", "remove"), {"delete"}),
     verify |-> Call("verify", "on")]

DomainsForms ==
    [add          |-> Form("add", "none", {}, {"add"}),
     instructions |-> Form("none", "none", {}, {}),
     delete       |-> Form("none", "remove", AnyRow, {"remove"})]

DomainsRows == [verify |-> Button(AnyRow, {"verify"})]

(***************************************************************************)
(* Networks.tsx and NetworkDetail.tsx on useNetworks.                      *)
(***************************************************************************)
NetworksCalls ==
    [create |-> Closing(Call("create", "add"), {"create"}),
     join   |-> Closing(Call("join", "add"), {"join"}),
     delete |-> Closing(Call("delete", "remove"), {"delete"})]

\* Mutant: the buttons are not disabled while the call is under way.
NetworksFormsEnabled ==
    [create |-> Form("create", "none", {}, {}),
     join   |-> Form("join", "none", {}, {}),
     delete |-> Form("none", "delete", AnyRow, {})]

NetworksForms ==
    [create |-> Form("create", "none", {}, {"create"}),
     join   |-> Form("join", "none", {}, {"join"}),
     delete |-> Form("none", "delete", AnyRow, {"delete"})]

\* The rows are the nodes of the network.
NetworkDetailCalls ==
    [remove |-> Closing(Call("remove", "remove"), {"remove"})]

NetworkDetailForms == [remove |-> Form("none", "remove", AnyRow, {"remove"})]

\* The card with the invitation to the network, which has a query of its own.
InviteCalls == [create |-> Call("create", "add")]

InviteButtons == [create |-> When(Button({}, {"create"}), "empty")]

(***************************************************************************)
(* The tabs of Settings.tsx.  A key is on once it is revoked, a session    *)
(* while it is the current one.  The create dialog of the keys shows the   *)
(* new key, so success leaves it open.                                     *)
(***************************************************************************)
ApiKeysCalls ==
    [create |-> Call("create", "add"),
     revoke |-> Closing(Call("revoke", "on"), {"revoke"})]

ApiKeysForms ==
    [create |-> Form("create", "none", {}, {"create"}),
     revoke |-> Form("none", "revoke", {FALSE}, {"revoke"})]

MembersCalls == [generate |-> Call("generate", "add"), delete |-> Call("delete", "remove")]

MembersButtons == [generate |-> Button({}, {"generate"}), delete |-> Button(AnyRow, {})]

SessionsCalls == [revoke |-> Closing(Call("revoke", "remove"), {"revoke"})]

SessionsForms == [revoke |-> Form("none", "revoke", {FALSE}, {"revoke"})]

\* The security tab: the row is the account, on while MFA is enabled.  A
\* verification and a disabling are followed by a call of fetchUser.
SecurityCalls ==
    [enroll    |-> Unread(Call("enroll", "keep")),
     verify    |-> Unread(Call("verify", "on")),
     disable   |-> Unread(Call("disable", "off")),
     verifyMe  |-> Call("verify", "keep"),
     disableMe |-> Call("disable", "keep")]

(***************************************************************************)
(* Billing.tsx: the rows are the plans, on for the current one.  Checkout  *)
(* leads to the payment provider; the button of a free plan is never       *)
(* disabled.                                                               *)
(***************************************************************************)
BillingCalls ==
    [checkout     |-> Unread(Call("checkout", "keep")),
     checkoutFree |-> Unread(Call("checkout", "keep"))]

BillingPlans ==
    [checkout |-> Button({FALSE}, {"checkout"}), checkoutFree |-> Button({FALSE}, {})]

(***************************************************************************)
(* ForgotPassword.tsx and ResetPassword.tsx: one form, gone on success.    *)
(***************************************************************************)
ForgotCalls == [forgot |-> Closing(Unread(Call("forgot", "keep")), {"forgot"})]
ForgotForm == [forgot |-> Form("forgot", "none", {}, {"forgot"})]

ResetCalls == [reset |-> Closing(Unread(Call("reset", "keep")), {"reset"})]
ResetForm == [reset |-> Form("reset", "none", {}, {"reset"})]

(***************************************************************************)
(* Onboarding.tsx: plain calls; module Console has its steps.              *)
(***************************************************************************)
OnboardingCalls ==
    [org      |-> Unread(Call("org", "keep")),
     tunnel   |-> Unread(Call("tunnel", "add")),
     complete |-> Unread(Call("complete", "keep"))]
=============================================================================
