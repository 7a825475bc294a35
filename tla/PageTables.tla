----------------------------- MODULE PageTables -----------------------------
(***************************************************************************)
(* The table of a page.  A call belongs to a mutation (by), changes rows   *)
(* on the server (does), and on success invalidates the list (reads) and   *)
(* closes and opens forms.  A form submits one call when it was opened by  *)
(* the page (new) and one when a row in a condition of on opened it (old); *)
(* a button is on the page (on = {}) or on the rows in those conditions,   *)
(* and on the page always, once the list was read (when = "loaded"), or    *)
(* while nothing is listed ("empty").  Both are disabled while a mutation  *)
(* of waits is under way.                                                  *)
(*                                                                         *)
(* Most pages load a list (lists), hide it when that failed (hides) behind *)
(* a retry button (retries), and are covered by a dialog that is open      *)
(* (covers); some start with a form that cannot be closed (starts).        *)
(***************************************************************************)
NoForms == [f \in {} |-> f]
NoButtons == NoForms
Call(by, does) == [by |-> by, does |-> does, reads |-> TRUE, closes |-> {}, opens |-> {}]
Closing(call, forms) == [call EXCEPT !.closes = forms]
Opening(call, forms) == [call EXCEPT !.opens = forms]
Unread(call) == [call EXCEPT !.reads = FALSE]
Button(on, waits) == [on |-> on, waits |-> waits, when |-> "always"]
Form(new, old, on, waits) == [new |-> new, old |-> old, on |-> on, waits |-> waits]
Page(its, forms, buttons) ==
    [calls |-> its, forms |-> forms, buttons |-> buttons, lists |-> TRUE, hides |-> TRUE,
     retries |-> TRUE, covers |-> TRUE, starts |-> {}]
When(button, when) == [button EXCEPT !.when = when]

AnyRow == BOOLEAN
=============================================================================
