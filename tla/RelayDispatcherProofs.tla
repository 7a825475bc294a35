------------------------ MODULE RelayDispatcherProofs ------------------------
(***************************************************************************)
(* The dispatcher's invariants for any number of tunnels, keys, contexts   *)
(* and goroutines.  One lemma per action shows that it preserves IInv,     *)
(* with one step per conjunct.                                             *)
(***************************************************************************)
EXTENDS RelayDispatcher, SequenceTheorems, TLAPS

USE DispatcherAssumption DEF DispatcherAssumption

\* The Dispatcher of NewDispatcher is empty and satisfies the invariant.
LEMMA InitInv == Init => IInv
  <1> SUFFICES ASSUME Init PROVE IInv
    OBVIOUS
  <1>1. TypeOK
    BY DEF Init, TypeOK
  <1>2. EntriesAreOwned /\ TunnelsAreOwn /\ Busy /\ Reachable
    BY DEF Init, EntriesAreOwned, TunnelsAreOwn, Busy, Reachable, Writing
  <1>3. Looking /\ LookupStaysWithOwner
    BY DEF Init, Looking, LookupStaysWithOwner
  <1> QED BY <1>1, <1>2, <1>3 DEF IInv

\* Storing in the primary map keeps every key of the new context on the list
\* of its registration.
LEMMA RegisterTunnelInv ==
    ASSUME IInv, NEW p \in Proc, NEW x \in Ctx, RegisterTunnel(p, x)
    PROVE  IInv'
  <1>1. TypeOK'
    BY DEF IInv, TypeOK, RegisterTunnel, lookupVars
  <1>2. EntriesAreOwned' /\ TunnelsAreOwn'
    BY DEF IInv, TypeOK, EntriesAreOwned, TunnelsAreOwn, RegisterTunnel
  <1>3. Busy'
    BY DEF IInv, TypeOK, Busy, Writing, RegisterTunnel
  <1>4. Reachable'
    <2> SUFFICES ASSUME NEW t \in Tunnel, tunnels'[t] # None,
                        NEW k \in KeysOf[tunnels'[t]]
                 PROVE  \/ index'[k] = t
                        \/ \E q \in Proc : /\ op'[q] = "register" /\ k \in todo'[q]
                                           /\ TunnelOf[cur'[q]] = t
                        \/ \E q \in Proc : op'[q] = "unregister" /\ TunnelOf[cur'[q]] = t
      BY DEF Reachable
    <2>1. CASE t = TunnelOf[x]
      BY <2>1 DEF IInv, TypeOK, RegisterTunnel
    <2>2. CASE t # TunnelOf[x]
      <3>1. tunnels'[t] = tunnels[t] /\ index' = index
        BY <2>2 DEF IInv, TypeOK, RegisterTunnel
      <3>2. \A q \in Proc : op[q] # "idle" =>
               op'[q] = op[q] /\ todo'[q] = todo[q] /\ cur'[q] = cur[q]
        BY DEF IInv, TypeOK, RegisterTunnel
      <3> QED BY <3>1, <3>2 DEF IInv, Reachable
    <2> QED BY <2>1, <2>2
  <1>5. Looking' /\ LookupStaysWithOwner'
    BY DEF IInv, TypeOK, Looking, Tried, LookupStaysWithOwner, RegisterTunnel, lookupVars
  <1> QED BY <1>1, <1>2, <1>3, <1>4, <1>5 DEF IInv

\* Storing an index entry: the key leaves the list and reaches the tunnel.
LEMMA RegisterKeyInv ==
    ASSUME IInv, NEW p \in Proc, NEW k \in Key, RegisterKey(p, k)
    PROVE  IInv'
  <1>1. cur[p] \in Ctx /\ Owner[k] = TunnelOf[cur[p]] /\ TunnelOf[cur[p]] \in Tunnel
    BY DEF IInv, TypeOK, Busy, Writing, RegisterKey
  <1>2. TypeOK'
    BY <1>1 DEF IInv, TypeOK, RegisterKey, lookupVars
  <1>3. EntriesAreOwned' /\ TunnelsAreOwn'
    BY <1>1 DEF IInv, TypeOK, EntriesAreOwned, TunnelsAreOwn, RegisterKey
  <1>4. Busy'
    BY DEF IInv, TypeOK, Busy, Writing, RegisterKey
  <1>5. Reachable'
    <2> SUFFICES ASSUME NEW t \in Tunnel, tunnels'[t] # None,
                        NEW l \in KeysOf[tunnels'[t]]
                 PROVE  \/ index'[l] = t
                        \/ \E q \in Proc : /\ op'[q] = "register" /\ l \in todo'[q]
                                           /\ TunnelOf[cur'[q]] = t
                        \/ \E q \in Proc : op'[q] = "unregister" /\ TunnelOf[cur'[q]] = t
      BY DEF Reachable
    <2>1. tunnels' = tunnels /\ op' = op /\ cur' = cur
      BY DEF RegisterKey
    <2>2. l \in Key /\ Owner[l] = t
      BY <2>1 DEF IInv, TypeOK, TunnelsAreOwn
    <2>3. CASE l = k
      BY <2>2, <2>3, <1>1 DEF IInv, TypeOK, RegisterKey
    <2>4. CASE l # k
      <3>1. index'[l] = index[l]
        BY <2>2, <2>4 DEF IInv, TypeOK, RegisterKey
      <3>2. \A q \in Proc : l \in todo[q] => l \in todo'[q]
        BY <2>4 DEF IInv, TypeOK, RegisterKey
      <3> QED BY <2>1, <3>1, <3>2 DEF IInv, Reachable
    <2> QED BY <2>3, <2>4
  <1>6. Looking' /\ LookupStaysWithOwner'
    BY DEF IInv, TypeOK, Looking, Tried, LookupStaysWithOwner, RegisterKey, lookupVars
  <1> QED BY <1>2, <1>3, <1>4, <1>5, <1>6 DEF IInv

\* A registration returns when no key is left to store.
LEMMA RegisterDoneInv ==
    ASSUME IInv, NEW p \in Proc, RegisterDone(p)
    PROVE  IInv'
  <1>1. TypeOK'
    BY DEF IInv, TypeOK, RegisterDone, lookupVars
  <1>2. EntriesAreOwned' /\ TunnelsAreOwn'
    BY DEF IInv, EntriesAreOwned, TunnelsAreOwn, RegisterDone
  <1>3. Busy'
    BY DEF IInv, TypeOK, Busy, Writing, RegisterDone
  <1>4. Reachable'
    <2> SUFFICES ASSUME NEW t \in Tunnel, tunnels'[t] # None,
                        NEW l \in KeysOf[tunnels'[t]]
                 PROVE  \/ index'[l] = t
                        \/ \E q \in Proc : /\ op'[q] = "register" /\ l \in todo'[q]
                                           /\ TunnelOf[cur'[q]] = t
                        \/ \E q \in Proc : op'[q] = "unregister" /\ TunnelOf[cur'[q]] = t
      BY DEF Reachable
    <2>1. tunnels' = tunnels /\ index' = index /\ todo' = todo
      BY DEF RegisterDone
    <2>2. \A q \in Proc : q # p => op'[q] = op[q] /\ cur'[q] = cur[q]
      BY DEF IInv, TypeOK, RegisterDone
    <2>3. todo[p] = {} /\ op[p] = "register"
      BY DEF RegisterDone
    <2> QED BY <2>1, <2>2, <2>3 DEF IInv, Reachable
  <1>5. Looking' /\ LookupStaysWithOwner'
    BY DEF IInv, TypeOK, Looking, Tried, LookupStaysWithOwner, RegisterDone, lookupVars
  <1> QED BY <1>1, <1>2, <1>3, <1>4, <1>5 DEF IInv

\* Unregister loads the context and changes no map.
LEMMA UnregisterLoadInv ==
    ASSUME IInv, NEW p \in Proc, NEW t \in Tunnel, UnregisterLoad(p, t)
    PROVE  IInv'
  <1>1. tunnels[t] \in Ctx /\ TunnelOf[tunnels[t]] = t
    BY DEF IInv, TypeOK, TunnelsAreOwn, UnregisterLoad
  <1>2. TypeOK'
    BY <1>1 DEF IInv, TypeOK, UnregisterLoad, lookupVars
  <1>3. EntriesAreOwned' /\ TunnelsAreOwn'
    BY DEF IInv, EntriesAreOwned, TunnelsAreOwn, UnregisterLoad
  <1>4. Busy'
    BY <1>1 DEF IInv, TypeOK, Busy, Writing, UnregisterLoad
  <1>5. Reachable'
    <2> SUFFICES ASSUME NEW t1 \in Tunnel, tunnels'[t1] # None,
                        NEW l \in KeysOf[tunnels'[t1]]
                 PROVE  \/ index'[l] = t1
                        \/ \E q \in Proc : /\ op'[q] = "register" /\ l \in todo'[q]
                                           /\ TunnelOf[cur'[q]] = t1
                        \/ \E q \in Proc : op'[q] = "unregister" /\ TunnelOf[cur'[q]] = t1
      BY DEF Reachable
    <2>1. tunnels' = tunnels /\ index' = index
      BY DEF UnregisterLoad
    <2>2. \A q \in Proc : op[q] # "idle" =>
             op'[q] = op[q] /\ todo'[q] = todo[q] /\ cur'[q] = cur[q]
      BY DEF IInv, TypeOK, UnregisterLoad
    <2>3. \/ index[l] = t1
          \/ \E q \in Proc : op[q] = "register" /\ l \in todo[q] /\ TunnelOf[cur[q]] = t1
          \/ \E q \in Proc : op[q] = "unregister" /\ TunnelOf[cur[q]] = t1
      BY <2>1 DEF IInv, Reachable
    <2>4. CASE index[l] = t1
      BY <2>1, <2>4
    <2>5. CASE \E q \in Proc : op[q] = "register" /\ l \in todo[q] /\ TunnelOf[cur[q]] = t1
      BY <2>2, <2>5
    <2>6. CASE \E q \in Proc : op[q] = "unregister" /\ TunnelOf[cur[q]] = t1
      BY <2>2, <2>6
    <2> QED BY <2>3, <2>4, <2>5, <2>6
  <1>6. Looking' /\ LookupStaysWithOwner'
    BY DEF IInv, TypeOK, Looking, Tried, LookupStaysWithOwner, UnregisterLoad, lookupVars
  <1> QED BY <1>2, <1>3, <1>4, <1>5, <1>6 DEF IInv

\* Deleting an index entry: the tunnel it belonged to is being unregistered.
LEMMA UnregisterKeyInv ==
    ASSUME IInv, NEW p \in Proc, NEW k \in Key, UnregisterKey(p, k)
    PROVE  IInv'
  <1>1. op[p] = "unregister" /\ cur[p] \in Ctx /\ Owner[k] = TunnelOf[cur[p]]
    BY DEF IInv, TypeOK, Busy, Writing, UnregisterKey
  <1>2. TypeOK'
    BY DEF IInv, TypeOK, UnregisterKey, lookupVars
  <1>3. EntriesAreOwned' /\ TunnelsAreOwn'
    BY DEF IInv, TypeOK, EntriesAreOwned, TunnelsAreOwn, UnregisterKey
  <1>4. Busy'
    BY DEF IInv, TypeOK, Busy, Writing, UnregisterKey
  <1>5. Reachable'
    <2> SUFFICES ASSUME NEW t \in Tunnel, tunnels'[t] # None,
                        NEW l \in KeysOf[tunnels'[t]]
                 PROVE  \/ index'[l] = t
                        \/ \E q \in Proc : /\ op'[q] = "register" /\ l \in todo'[q]
                                           /\ TunnelOf[cur'[q]] = t
                        \/ \E q \in Proc : op'[q] = "unregister" /\ TunnelOf[cur'[q]] = t
      BY DEF Reachable
    <2>1. tunnels' = tunnels /\ op' = op /\ cur' = cur
      BY DEF UnregisterKey
    <2>2. l \in Key /\ Owner[l] = t
      BY <2>1 DEF IInv, TypeOK, TunnelsAreOwn
    <2>3. CASE l = k
      BY <2>1, <2>2, <2>3, <1>1
    <2>4. CASE l # k
      <3>1. index'[l] = index[l]
        BY <2>2, <2>4 DEF IInv, TypeOK, UnregisterKey
      <3>2. \A q \in Proc : l \in todo[q] => l \in todo'[q]
        BY <2>4 DEF IInv, TypeOK, UnregisterKey
      <3> QED BY <2>1, <3>1, <3>2 DEF IInv, Reachable
    <2> QED BY <2>3, <2>4
  <1>6. Looking' /\ LookupStaysWithOwner'
    BY DEF IInv, TypeOK, Looking, Tried, LookupStaysWithOwner, UnregisterKey, lookupVars
  <1> QED BY <1>2, <1>3, <1>4, <1>5, <1>6 DEF IInv

\* Unregister returns after it has deleted the primary entry, whichever
\* context that entry holds by then.
LEMMA UnregisterTunnelInv ==
    ASSUME IInv, NEW p \in Proc, UnregisterTunnel(p)
    PROVE  IInv'
  <1>1. op[p] = "unregister" /\ cur[p] \in Ctx /\ TunnelOf[cur[p]] \in Tunnel
    BY DEF IInv, TypeOK, Busy, Writing, UnregisterTunnel
  <1>2. TypeOK'
    BY DEF IInv, TypeOK, UnregisterTunnel, lookupVars
  <1>3. EntriesAreOwned' /\ TunnelsAreOwn'
    BY <1>1 DEF IInv, TypeOK, EntriesAreOwned, TunnelsAreOwn, UnregisterTunnel
  <1>4. Busy'
    BY DEF IInv, TypeOK, Busy, Writing, UnregisterTunnel
  <1>5. Reachable'
    <2> SUFFICES ASSUME NEW t \in Tunnel, tunnels'[t] # None,
                        NEW l \in KeysOf[tunnels'[t]]
                 PROVE  \/ index'[l] = t
                        \/ \E q \in Proc : /\ op'[q] = "register" /\ l \in todo'[q]
                                           /\ TunnelOf[cur'[q]] = t
                        \/ \E q \in Proc : op'[q] = "unregister" /\ TunnelOf[cur'[q]] = t
      BY DEF Reachable
    <2>1. t # TunnelOf[cur[p]] /\ tunnels'[t] = tunnels[t]
      BY <1>1 DEF IInv, TypeOK, UnregisterTunnel
    <2>2. index' = index /\ todo' = todo
      BY DEF UnregisterTunnel
    <2>3. \A q \in Proc : q # p => op'[q] = op[q] /\ cur'[q] = cur[q]
      BY DEF IInv, TypeOK, UnregisterTunnel
    <2> QED BY <1>1, <2>1, <2>2, <2>3 DEF IInv, Reachable
  <1>6. Looking' /\ LookupStaysWithOwner'
    BY DEF IInv, TypeOK, Looking, Tried, LookupStaysWithOwner, UnregisterTunnel, lookupVars
  <1> QED BY <1>2, <1>3, <1>4, <1>5, <1>6 DEF IInv

-----------------------------------------------------------------------------
\* A lookup changes neither map, nor the state of a registration.
LEMMA LookupFrame ==
    ASSUME IInv, NEW p \in Proc, op[p] \in {"idle", "lookup", "load"},
           NEW o \in {"idle", "lookup", "load"},
           op' = [op EXCEPT ![p] = o], UNCHANGED <<tunnels, index, cur, todo>>
    PROVE  EntriesAreOwned' /\ TunnelsAreOwn' /\ Busy' /\ Reachable'
  <1>1. EntriesAreOwned' /\ TunnelsAreOwn'
    BY DEF IInv, EntriesAreOwned, TunnelsAreOwn
  <1>2. \A q \in Proc : \/ op'[q] = op[q]
                        \/ op[q] \notin {"register", "unregister"} /\ op'[q] \notin {"register", "unregister"}
    BY DEF IInv, TypeOK
  <1>3. Busy'
    BY <1>2 DEF IInv, Busy, Writing
  <1>4. Reachable'
    BY <1>2 DEF IInv, Reachable
  <1> QED BY <1>1, <1>3, <1>4

\* A lookup starts with all the keys of the host.
LEMMA LookupStartInv ==
    ASSUME IInv, NEW p \in Proc, NEW h \in Host, LookupStart(p, h)
    PROVE  IInv'
  <1>1. TypeOK'
    BY DEF IInv, TypeOK, LookupStart
  <1>2. EntriesAreOwned' /\ TunnelsAreOwn' /\ Busy' /\ Reachable'
    BY LookupFrame DEF LookupStart
  <1>3. Looking'
    BY DEF IInv, TypeOK, Looking, Tried, LookupStart
  <1>4. LookupStaysWithOwner'
    BY DEF IInv, TypeOK, LookupStaysWithOwner, LookupStart
  <1> QED BY <1>1, <1>2, <1>3, <1>4 DEF IInv

\* A lookup that has no key left returns nothing.
LEMMA LookupFailsInv ==
    ASSUME IInv, NEW p \in Proc, LookupFails(p)
    PROVE  IInv'
  <1>1. TypeOK'
    BY DEF IInv, TypeOK, LookupFails, lookupVars
  <1>2. EntriesAreOwned' /\ TunnelsAreOwn' /\ Busy' /\ Reachable'
    BY LookupFrame DEF LookupFails
  <1>3. Looking'
    BY DEF IInv, TypeOK, Looking, Tried, LookupFails, lookupVars
  <1>4. LookupStaysWithOwner'
    BY DEF IInv, LookupStaysWithOwner, LookupFails, lookupVars
  <1> QED BY <1>1, <1>2, <1>3, <1>4 DEF IInv

\* The tunnel read from an index owns the key that was tried.
LEMMA LookupKeyInv ==
    ASSUME IInv, NEW p \in Proc, LookupKey(p)
    PROVE  IInv'
  <1> DEFINE k == Head(keys[p])
  <1>0. keys[p] \in Seq(Key) /\ keys[p] # <<>> /\ op[p] = "lookup"
    BY DEF IInv, TypeOK, LookupKey
  <1>1. /\ k \in Key /\ k = keys[p][1] /\ 1 \in 1 .. Len(keys[p])
        /\ Tail(keys[p]) \in Seq(Key)
        /\ \A i \in 1 .. Len(Tail(keys[p])) :
              i + 1 \in 1 .. Len(keys[p]) /\ Tail(keys[p])[i] = keys[p][i + 1]
    BY <1>0, HeadTailProperties
  <1>2. /\ host[p] \in Host /\ found[p] = None
        /\ \A i \in 1 .. Len(keys[p]) : Tried(p, keys[p][i])
    BY <1>0 DEF IInv, Looking
  <1>3. LookupStaysWithOwner'
    BY DEF IInv, LookupStaysWithOwner, LookupKey
  <1>4. CASE index[k] = None
    <2>1. /\ keys' = [keys EXCEPT ![p] = Tail(@)]
          /\ UNCHANGED <<op, target, tunnels, index, cur, todo, host, found>>
      BY <1>4 DEF LookupKey
    <2>2. TypeOK'
      BY <1>1, <2>1 DEF IInv, TypeOK
    <2>3. op' = [op EXCEPT ![p] = "lookup"]
      BY <1>0, <2>1 DEF IInv, TypeOK
    <2>4. EntriesAreOwned' /\ TunnelsAreOwn' /\ Busy' /\ Reachable'
      BY <1>0, <2>1, <2>3, LookupFrame
    <2>5. Looking'
      <3>1. \A i \in 1 .. Len(keys'[p]) : Tried(p, keys'[p][i])
        BY <1>1, <1>2, <2>1 DEF IInv, TypeOK
      <3>2. \A q \in Proc : q # p => keys'[q] = keys[q]
        BY <2>1 DEF IInv, TypeOK
      <3> QED BY <2>1, <3>1, <3>2 DEF IInv, Looking, Tried
    <2> QED BY <1>3, <2>2, <2>4, <2>5 DEF IInv
  <1>5. CASE index[k] # None
    <2>1. /\ target' = [target EXCEPT ![p] = index[k]]
          /\ keys' = [keys EXCEPT ![p] = <<>>]
          /\ op' = [op EXCEPT ![p] = "load"]
          /\ UNCHANGED <<tunnels, index, cur, todo, host, found>>
      BY <1>5 DEF LookupKey
    <2>2. index[k] = Owner[k] /\ index[k] \in Tunnel
      BY <1>1, <1>5 DEF IInv, TypeOK, EntriesAreOwned
    <2>3. TypeOK'
      BY <2>1, <2>2 DEF IInv, TypeOK
    <2>4. EntriesAreOwned' /\ TunnelsAreOwn' /\ Busy' /\ Reachable'
      BY <1>0, <2>1, LookupFrame
    <2>5. Looking'
      <3>1. Tried(p, k)
        BY <1>1, <1>2
      <3>2. op'[p] = "load" /\ target'[p] = Owner[k] /\ target'[p] # None
        BY <1>5, <2>1, <2>2 DEF IInv, TypeOK
      <3>3. \A q \in Proc : q # p =>
               keys'[q] = keys[q] /\ op'[q] = op[q] /\ target'[q] = target[q]
        BY <2>1 DEF IInv, TypeOK
      <3>4. host' = host /\ found' = found
        BY <2>1
      <3> HIDE DEF k
      <3>5. \A q \in Proc, l \in Key : Tried(q, l)' <=> Tried(q, l)
        BY <3>4 DEF Tried
      <3>6. \E l \in Key : Tried(p, l)' /\ Owner[l] = target'[p]
        BY <1>1, <3>1, <3>2, <3>5
      <3>7. ASSUME NEW q \in Proc, q # p, op[q] = "lookup"
            PROVE  \A i \in 1 .. Len(keys[q]) : Tried(q, keys[q][i])'
        BY <3>3, <3>4, <3>7 DEF IInv, Looking, Tried
      <3> QED BY <1>2, <3>2, <3>3, <3>4, <3>5, <3>6, <3>7 DEF IInv, Looking
    <2> QED BY <1>3, <2>3, <2>4, <2>5 DEF IInv
  <1> QED BY <1>4, <1>5

\* The context loaded is one of the tunnel whose id was read.
LEMMA LookupByIDInv ==
    ASSUME IInv, NEW p \in Proc, LookupByID(p)
    PROVE  IInv'
  <1>1. op[p] = "load" /\ host[p] \in Host /\ target[p] \in Tunnel
    BY DEF IInv, TypeOK, Looking, LookupByID
  <1>2. PICK k \in Key : Tried(p, k) /\ Owner[k] = target[p]
    BY <1>1 DEF IInv, Looking
  <1>3. TypeOK'
    BY <1>1 DEF IInv, TypeOK, LookupByID
  <1>4. EntriesAreOwned' /\ TunnelsAreOwn' /\ Busy' /\ Reachable'
    BY <1>1, LookupFrame DEF LookupByID
  <1>5. Looking'
    BY <1>1 DEF IInv, TypeOK, Looking, Tried, LookupByID
  <1>6. LookupStaysWithOwner'
    <2>1. tunnels[target[p]] # None => TunnelOf[tunnels[target[p]]] = target[p]
      BY <1>1 DEF IInv, TunnelsAreOwn
    <2>2. PICK i \in 1 .. Len(Candidates[host[p]]) : Candidates[host[p]][i] = k
      BY <1>2 DEF Tried
    <2>3. host' = host /\ found'[p] = tunnels[target[p]]
             /\ \A q \in Proc : q # p => found'[q] = found[q]
      BY DEF IInv, TypeOK, LookupByID
    <2> QED BY <1>2, <2>1, <2>2, <2>3 DEF IInv, LookupStaysWithOwner
  <1> QED BY <1>3, <1>4, <1>5, <1>6 DEF IInv

-----------------------------------------------------------------------------
\* Every step of the dispatcher preserves the invariant.
LEMMA NextInv == IInv /\ [Next]_vars => IInv'
  <1> SUFFICES ASSUME IInv, [Next]_vars PROVE IInv'
    OBVIOUS
  <1>1. CASE Next
    <2>1. PICK p \in Proc : Step(p)
      BY <1>1 DEF Next
    <2> QED BY <2>1, RegisterTunnelInv, RegisterKeyInv, RegisterDoneInv,
               UnregisterLoadInv, UnregisterKeyInv, UnregisterTunnelInv,
               LookupStartInv, LookupFailsInv, LookupKeyInv, LookupByIDInv DEF Step
  <1>2. CASE UNCHANGED vars
    BY <1>2 DEF vars, IInv, TypeOK, EntriesAreOwned, TunnelsAreOwn, Busy, Writing,
                Reachable, Looking, Tried, LookupStaysWithOwner
  <1> QED BY <1>1, <1>2

\* The inductive invariant holds in every reachable state of the dispatcher.
THEOREM DispatcherInvariance == Spec => []IInv
  BY InitInv, NextInv, PTL DEF Spec

\* However Register, Unregister and OnConfigUpdate interleave, a registration
\* is never half undone.
THEOREM RegisteredAlwaysReachable == Spec => []RegisteredIsReachable
  <1>1. IInv => RegisteredIsReachable
    BY DEF IInv, RegisteredIsReachable, Reachable, Writing
  <1> QED BY <1>1, DispatcherInvariance, PTL

\* A request is never dispatched to a tunnel that owns none of the keys of its
\* host, although Lookup reads two maps that change in between.
THEOREM LookupsStayWithOwner == Spec => []LookupStaysWithOwner
  <1>1. IInv => LookupStaysWithOwner
    BY DEF IInv
  <1> QED BY <1>1, DispatcherInvariance, PTL
=============================================================================
