---------------------------- MODULE MCRelayProxy -----------------------------
(* Agents a1 and a2 serve t1, agent b serves t2, and agent c declares t1   *)
(* with a token for t2.  Requests r1 and r2 go to t1, q to t2; an answer   *)
(* takes two frames.                                                       *)
EXTENDS RelayProxy, TLC

CONSTANTS t1, t2, a1, a2, b, c, r1, r2, q

MCDeclared == [a \in Agent |-> IF a = b THEN t2 ELSE t1]
MCTokenFor == [a \in Agent |-> IF a \in {b, c} THEN t2 ELSE t1]
MCHostOf == [r \in Request |-> IF r = q THEN t2 ELSE t1]
MCPartsOf == [r \in Request |-> 2]

-----------------------------------------------------------------------------
(* To bound the states, a behaviour is either about one tunnel, with two   *)
(* agents and two requests, or about two, with one of each (and c).        *)
Connected == {a \in Agent : handler[a] # "new"}
Asked == {r \in Request : rpc[r] # "new"}
OneTunnel == Connected \subseteq {a1, a2} /\ q \notin Asked
TwoTunnels == ~({a1, a2} \subseteq Connected) /\ ~({r1, r2} \subseteq Asked)
MCSpec == Init /\ [][Next /\ (OneTunnel \/ TwoTunnels)']_vars

\* a1 and a2 serve the same tunnel, r1 and r2 go to the same tunnel.
MCSymmetry == Permutations({a1, a2}) \cup Permutations({r1, r2})
=============================================================================
