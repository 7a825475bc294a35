----------------------------- MODULE AdminPages -----------------------------
(***************************************************************************)
(* The pages of the admin console (admin/src/pages) that change something, *)
(* as tables of module PageTables.  Their forms are part of the page (no   *)
(* dialog covers it) and window.confirm stops everything else, so it is    *)
(* part of pressing the button.                                            *)
(***************************************************************************)
EXTENDS PageTables

(***************************************************************************)
(* Announcements.tsx and DiscountCodes.tsx: one form to create and to      *)
(* edit.  A discount is on while it is active, and the switch of a row is  *)
(* the mutation that also saves the form, so it closes the form too.       *)
(***************************************************************************)
AnnouncementsCalls ==
    [create |-> Closing(Call("create", "add"), {"form"}),
     update |-> Closing(Call("update", "keep"), {"form"}),
     delete |-> Call("delete", "remove")]

AnnouncementsForm == [form |-> Form("create", "update", AnyRow, {"create", "update"})]

AnnouncementsRows == [delete |-> Button(AnyRow, {})]

DiscountsCalls ==
    [create  |-> Closing(Call("create", "add"), {"form"}),
     update  |-> Closing(Call("update", "keep"), {"form"}),
     enable  |-> Closing(Call("update", "on"), {"form"}),
     disable |-> Closing(Call("update", "off"), {"form"}),
     delete  |-> Call("delete", "remove")]

DiscountsForm == [form |-> Form("create", "update", AnyRow, {"create", "update"})]

DiscountsRows ==
    [enable |-> Button({FALSE}, {}), disable |-> Button({TRUE}, {}), delete |-> Button(AnyRow, {})]

(***************************************************************************)
(* IPWhitelist.tsx, once an organisation has been entered.                 *)
(***************************************************************************)
WhitelistCalls == [add |-> Call("add", "add"), delete |-> Call("delete", "remove")]

WhitelistButtons ==
    [add |-> Button({}, {"add"}), delete |-> Button(AnyRow, {"delete"})]

(***************************************************************************)
(* DataRetention.tsx: the rows are the kinds of data, on when kept long;   *)
(* a row is saved only if the period chosen for it is another one.         *)
(***************************************************************************)
RetentionCalls ==
    [lengthen |-> Call("update", "on"), shorten |-> Call("update", "off"),
     cleanup  |-> Call("cleanup", "keep")]

RetentionButtons ==
    [lengthen |-> Button({FALSE}, {"update"}), shorten |-> Button({TRUE}, {"update"}),
     cleanup  |-> Button({}, {"cleanup"})]

(***************************************************************************)
(* PricingConfig.tsx: saving one plan sends all plans.                     *)
(***************************************************************************)
PricingCalls == [save |-> Closing(Call("save", "put"), {"edit"})]

PricingForm == [edit |-> Form("none", "save", AnyRow, {"save"})]

(***************************************************************************)
(* AuditReports.tsx: a report is made from one of the templates that come  *)
(* with the list.                                                          *)
(***************************************************************************)
ReportsCalls == [generate |-> Call("generate", "add")]

ReportsButtons == [generate |-> When(Button({}, {"generate"}), "loaded")]

(***************************************************************************)
(* Roles.tsx reads its list with calls of its own (fetch), see Console.  A *)
(* row is on while users have the role, and is then not deleted.           *)
(***************************************************************************)
RolesCalls ==
    [fetch  |-> Call("fetch", "keep"),
     create |-> Closing(Call("save", "add"), {"form"}),
     update |-> Closing(Call("save", "keep"), {"form"}),
     delete |-> Call("delete", "remove")]

RolesForm == [form |-> Form("create", "update", AnyRow, {"save"})]

RolesRows == [delete |-> Button({FALSE}, {})]

(***************************************************************************)
(* Certificates.tsx (a row is on while valid) and Invoices.tsx (on once    *)
(* paid or void; the details of an invoice are in InvoiceDetails).         *)
(***************************************************************************)
CertificatesCalls == [renew |-> Call("renew", "on"), revoke |-> Call("revoke", "off")]

CertificatesRows == [renew |-> Button(AnyRow, {"renew"}), revoke |-> Button(AnyRow, {"revoke"})]

InvoicesCalls == [markPaid |-> Call("markPaid", "on"), void |-> Call("void", "on")]

InvoicesRows == [markPaid |-> Button({FALSE}, {}), void |-> Button({FALSE}, {})]
=============================================================================
