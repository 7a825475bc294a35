--------------------------- MODULE RelayDispatcher ---------------------------
(***************************************************************************)
(* The relay's Dispatcher: a primary map from tunnel ids to contexts and   *)
(* three index maps (domain, port, slug) to tunnel ids.  The four sync.Map *)
(* objects are independent, so Register, Unregister and the lookups are    *)
(* sequences of atomic loads, stores and deletes that interleave.  The     *)
(* three indexes never share keys and are modelled as one map.  The code   *)
(* visits domain, port and slug in this order; the model allows every      *)
(* order, which only adds behaviours.                                      *)
(***************************************************************************)
EXTENDS Naturals, Sequences

CONSTANTS Tunnel,     \* tunnel ids
          Key,        \* domains, wildcard domains, ports and slugs
          Ctx,        \* *TunnelContext objects
          Host,       \* hosts, ports and slugs that are looked up
          Proc,       \* goroutines
          None,
          TunnelOf,   \* TunnelContext.TunnelID
          KeysOf,     \* TunnelContext.Domain, Port and Slug, those that are set
          Candidates, \* the keys a lookup of a host tries, in order
          Owner       \* the tunnel the control plane gave a key to

ASSUME DispatcherAssumption ==
    /\ None \notin Tunnel /\ None \notin Ctx
    /\ TunnelOf \in [Ctx -> Tunnel]
    /\ KeysOf \in [Ctx -> SUBSET Key]
    /\ Candidates \in [Host -> Seq(Key)]
    /\ Owner \in [Key -> Tunnel]
    /\ \A x \in Ctx : \A k \in KeysOf[x] : Owner[k] = TunnelOf[x]

VARIABLES
    tunnels,   \* Dispatcher.tunnels
    index,     \* Dispatcher.byDomain, byPort and bySlug
    op,        \* the operation a goroutine is in
    cur,       \* the context it registers or unregisters
    todo,      \* the index entries it has still to store or delete
    host,      \* the host it looks up
    keys,      \* the keys it has still to try
    target,    \* the tunnel id it read from an index
    found      \* the context its last lookup returned

vars == <<tunnels, index, op, cur, todo, host, keys, target, found>>
lookupVars == <<host, keys, target, found>>

TypeOK ==
    /\ tunnels \in [Tunnel -> Ctx \cup {None}]
    /\ index \in [Key -> Tunnel \cup {None}]
    /\ op \in [Proc -> {"idle", "register", "unregister", "lookup", "load"}]
    /\ cur \in [Proc -> Ctx \cup {None}]
    /\ todo \in [Proc -> SUBSET Key]
    /\ host \in [Proc -> Host \cup {None}]
    /\ keys \in [Proc -> Seq(Key)]
    /\ target \in [Proc -> Tunnel \cup {None}]
    /\ found \in [Proc -> Ctx \cup {None}]

Init ==
    /\ tunnels = [t \in Tunnel |-> None]
    /\ index = [k \in Key |-> None]
    /\ op = [p \in Proc |-> "idle"]
    /\ cur = [p \in Proc |-> None]
    /\ todo = [p \in Proc |-> {}]
    /\ host = [p \in Proc |-> None]
    /\ keys = [p \in Proc |-> <<>>]
    /\ target = [p \in Proc |-> None]
    /\ found = [p \in Proc |-> None]

-----------------------------------------------------------------------------
(* Register: the primary map first, then the indexes.  OnConfigUpdate      *)
(* registers one new context per tunnel of the message in the same way.    *)
(* A context without a tunnel id is refused before anything is stored      *)
(* (ErrEmptyTunnelID); that leaves all as it is, and the contexts of the   *)
(* model have an id.                                                       *)

RegisterTunnel(p, x) ==
    /\ op[p] = "idle"
    /\ tunnels' = [tunnels EXCEPT ![TunnelOf[x]] = x]
    /\ op' = [op EXCEPT ![p] = "register"]
    /\ cur' = [cur EXCEPT ![p] = x]
    /\ todo' = [todo EXCEPT ![p] = KeysOf[x]]
    /\ UNCHANGED <<index, lookupVars>>

\* Variant of RegisterKey: the stored id is that of any tunnel of the same
\* config update, as with a shared loop variable.
RegisterKeyShared(p, k) ==
    /\ op[p] = "register"
    /\ k \in todo[p]
    /\ \E t \in Tunnel : index' = [index EXCEPT ![k] = t]
    /\ todo' = [todo EXCEPT ![p] = @ \ {k}]
    /\ UNCHANGED <<tunnels, op, cur, lookupVars>>

RegisterKey(p, k) ==
    /\ op[p] = "register"
    /\ k \in todo[p]
    /\ index' = [index EXCEPT ![k] = TunnelOf[cur[p]]]
    /\ todo' = [todo EXCEPT ![p] = @ \ {k}]
    /\ UNCHANGED <<tunnels, op, cur, lookupVars>>

RegisterDone(p) ==
    /\ op[p] = "register"
    /\ todo[p] = {}
    /\ op' = [op EXCEPT ![p] = "idle"]
    /\ cur' = [cur EXCEPT ![p] = None]
    /\ UNCHANGED <<tunnels, index, todo, lookupVars>>

-----------------------------------------------------------------------------
(* Unregister: the indexes of the context it loaded, then the primary map. *)

UnregisterLoad(p, t) ==
    /\ op[p] = "idle"
    /\ tunnels[t] # None
    /\ op' = [op EXCEPT ![p] = "unregister"]
    /\ cur' = [cur EXCEPT ![p] = tunnels[t]]
    /\ todo' = [todo EXCEPT ![p] = KeysOf[tunnels[t]]]
    /\ UNCHANGED <<tunnels, index, lookupVars>>

UnregisterKey(p, k) ==
    /\ op[p] = "unregister"
    /\ k \in todo[p]
    /\ index' = [index EXCEPT ![k] = None]
    /\ todo' = [todo EXCEPT ![p] = @ \ {k}]
    /\ UNCHANGED <<tunnels, op, cur, lookupVars>>

\* Variant of UnregisterTunnel: the entry of a newer context is left alone.
UnregisterTunnelIfSame(p) ==
    /\ op[p] = "unregister"
    /\ todo[p] = {}
    /\ tunnels' = [tunnels EXCEPT ![TunnelOf[cur[p]]] = IF @ = cur[p] THEN None ELSE @]
    /\ op' = [op EXCEPT ![p] = "idle"]
    /\ cur' = [cur EXCEPT ![p] = None]
    /\ UNCHANGED <<index, todo, lookupVars>>

UnregisterTunnel(p) ==
    /\ op[p] = "unregister"
    /\ todo[p] = {}
    /\ tunnels' = [tunnels EXCEPT ![TunnelOf[cur[p]]] = None]
    /\ op' = [op EXCEPT ![p] = "idle"]
    /\ cur' = [cur EXCEPT ![p] = None]
    /\ UNCHANGED <<index, todo, lookupVars>>

-----------------------------------------------------------------------------
(* Lookup, LookupByPort, LookupBySlug.                                     *)

LookupStart(p, h) ==
    /\ op[p] = "idle"
    /\ op' = [op EXCEPT ![p] = "lookup"]
    /\ host' = [host EXCEPT ![p] = h]
    /\ keys' = [keys EXCEPT ![p] = Candidates[h]]
    /\ found' = [found EXCEPT ![p] = None]
    /\ UNCHANGED <<tunnels, index, cur, todo, target>>

\* No index has a key that was tried: the lookup fails.
LookupFails(p) ==
    /\ op[p] = "lookup"
    /\ keys[p] = <<>>
    /\ op' = [op EXCEPT ![p] = "idle"]
    /\ UNCHANGED <<tunnels, index, cur, todo, lookupVars>>

\* The next key, exact domain before wildcards; the first that has an index
\* entry decides.
LookupKey(p) ==
    /\ op[p] = "lookup"
    /\ keys[p] # <<>>
    /\ LET t == index[Head(keys[p])]
       IN  IF t = None
           THEN /\ keys' = [keys EXCEPT ![p] = Tail(@)]
                /\ UNCHANGED <<op, target>>
           ELSE /\ target' = [target EXCEPT ![p] = t]
                /\ keys' = [keys EXCEPT ![p] = <<>>]
                /\ op' = [op EXCEPT ![p] = "load"]
    /\ UNCHANGED <<tunnels, index, cur, todo, host, found>>

\* lookupByID: the entry may be gone, or belong to a newer context.
LookupByID(p) ==
    /\ op[p] = "load"
    /\ found' = [found EXCEPT ![p] = tunnels[target[p]]]
    /\ target' = [target EXCEPT ![p] = None]
    /\ op' = [op EXCEPT ![p] = "idle"]
    /\ UNCHANGED <<tunnels, index, cur, todo, host, keys>>

-----------------------------------------------------------------------------
Step(p) == \/ \E x \in Ctx : RegisterTunnel(p, x)
           \/ \E k \in Key : RegisterKey(p, k) \/ UnregisterKey(p, k)
           \/ RegisterDone(p)
           \/ \E t \in Tunnel : UnregisterLoad(p, t)
           \/ UnregisterTunnel(p)
           \/ \E h \in Host : LookupStart(p, h)
           \/ LookupFails(p) \/ LookupKey(p) \/ LookupByID(p)

Next == \E p \in Proc : Step(p)

Spec == Init /\ [][Next]_vars

-----------------------------------------------------------------------------
(* Properties.                                                             *)

Writing(p) == op[p] \in {"register", "unregister"}

\* Whatever the interleaving of registrations and unregistrations, once they
\* have all returned a tunnel that is in the primary map is reached by every
\* key of its context: a registration is never half undone.  It rests on the
\* order of the stores and deletes.
RegisteredIsReachable ==
    (\A p \in Proc : ~Writing(p)) =>
       \A t \in Tunnel : tunnels[t] # None =>
          \A k \in KeysOf[tunnels[t]] : index[k] = t

\* A lookup, which loads from two maps that change in between, returns at most
\* a context of the tunnel that owns one of the keys tried for the host.
LookupStaysWithOwner ==
    \A p \in Proc : found[p] # None =>
       \E i \in 1 .. Len(Candidates[host[p]]) :
          Owner[Candidates[host[p]][i]] = TunnelOf[found[p]]

\* What makes the two properties inductive.
EntriesAreOwned == \A k \in Key : index[k] \in {None, Owner[k]}
TunnelsAreOwn == \A t \in Tunnel : tunnels[t] # None => TunnelOf[tunnels[t]] = t
Busy == \A p \in Proc : Writing(p) =>
           cur[p] # None /\ \A k \in todo[p] : Owner[k] = TunnelOf[cur[p]]
Tried(p, k) == \E i \in 1 .. Len(Candidates[host[p]]) : Candidates[host[p]][i] = k
Looking ==
    \A p \in Proc :
       /\ (op[p] \in {"lookup", "load"} \/ found[p] # None) => host[p] \in Host
       /\ op[p] = "lookup" => /\ found[p] = None
                              /\ \A i \in 1 .. Len(keys[p]) : Tried(p, keys[p][i])
       /\ op[p] = "load" => /\ found[p] = None
                            /\ target[p] # None
                            /\ \E k \in Key : Tried(p, k) /\ Owner[k] = target[p]
Reachable ==
    \A t \in Tunnel : tunnels[t] # None =>
       \A k \in KeysOf[tunnels[t]] :
          \/ index[k] = t
          \/ \E p \in Proc : /\ op[p] = "register" /\ k \in todo[p]
                             /\ TunnelOf[cur[p]] = t
          \/ \E p \in Proc : op[p] = "unregister" /\ TunnelOf[cur[p]] = t

IInv == /\ TypeOK /\ EntriesAreOwned /\ TunnelsAreOwn /\ Busy
        /\ Reachable /\ Looking /\ LookupStaysWithOwner
=============================================================================
