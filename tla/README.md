# OmniTun: TLA+ models, model checking and proofs

OmniTun exposes services behind NAT through relays. Agents keep a control
connection to a gateway, connect tunnels to a relay, and the relay forwards
requests from the Internet over those tunnels. Users manage tunnels, domains,
networks and keys in a dashboard, administrators in a console of their own.
This directory models the concurrent core of the Go code
(`src/internal/gateway`, `src/internal/relay`, `src/internal/protocol`,
`src/internal/control`) and the behaviour of the two TypeScript front ends
(`src/web/src`, `src/admin/src`), checks them with TLC on small instances and
proves the main safety properties with TLAPS for every value of the parameters.

`PROJECT.json` lists components, runs, mutants (a deliberately wrong variant of
a definition per property that must make the property fail), the map from
definitions to source lines, findings, hazards and theorems.

## 1. Inventory

| Component | State | Operations | Interaction | Hard behaviour |
|---|---|---|---|---|
| Agent gateway (`gateway/hub.go`, `handler.go`) | `agents`, `byOrg`, channels `register` and `unregister`, per connection: context, send queue, `LastPing` | handshake, `Register`, `Unregister`, `add`, `remove`, `writePump`, `messageLoop`, `checkHeartbeats`, `SendToAgent`, `BroadcastToOrg`, `Shutdown` | goroutine per connection, pump, hub loop, sweep and senders share maps and channels | late unregistrations, replacement of connections, full queues, shutdown while others send |
| Relay dispatcher (`relay/dispatcher.go`) | four independent `sync.Map`s | `Register`, `Unregister`, `OnConfigUpdate`, `Lookup`, `LookupByPort`, `LookupBySlug` | called by the QUIC handler, config updates and every request | no operation is atomic |
| Relay data path (`relay/server.go`, `stream.go`, `proxy.go`, `protocol/frame.go`) | streams, tunnel contexts, bytes in flight | connect an agent, forward a request, receive an answer | one stream per agent shared by all requests of the tunnel | interleaved writes, answers out of step, stream id set after publication |
| Relay WebSocket proxy (`relay/proxy.go`) | pipe, error channel | two copying goroutines and the handler | the client, the multiplexer | each goroutine blocks on the other and on the client |
| Agent control connection (`control/agent_client.go`) | `wsConn`, `connected`, `reconnectCh`, `quit`, `done`, lock | `Connect`, `Disconnect`, `dial`, three loops | loops signal each other through a channel of capacity one | lost or duplicate signals, a lock held across a wait |
| Agent data channel and failover (`control/tunnel_conn.go`, `agent.go`) | transports, tunnel table, `failoverCount` | `Establish`, `ForwardLoop`, `Close`, `OnRelayFailed` | relay and local service | failover racing with stop commands |
| Tunnel service (`internal/tunnel`), control plane (`cmd/server/main.go`) | database rows | CRUD, start and stop, quotas, sessions, billing, webhooks | HTTP and gRPC handlers over one database | count then insert, read then write |
| Mesh network (`internal/network`) | peers, topology, TURN allocations | plan, punch, allocate | agents, STUN and TURN servers | check-then-act |
| Auth, billing, ACME, feature flags, abuse, roles, SCIM, audit | database rows, caches | see sources | called by the control plane | mostly single statements |
| API client and session of the dashboard (`web/src/lib/api.ts`, `lib/auth.ts`, `store/auth.ts`, `App.tsx`, sign-in pages) | token in memory, two tokens in storage, the shared `refreshPromise`, user, `isLoggedIn`, `isLoading`, route | `apiRequest`, `refreshToken`, `login`, `register`, `fetchUser`, `logout`, reload | every page calls it; the server grants, refuses and (were it routed) exchanges tokens | many calls refused at once, an answer that is lost, a sign-out or reload during a refresh |
| Live socket (`lib/websocket.ts`, `hooks/useWebSocket.ts`) | socket, timer, attempts, state, `destroyed` | `connect`, `scheduleReconnect`, `close`, events of the socket, effect and cleanup | browser events and timers | a retry beside a connection, no retry at all, a timer that outlives its component |
| Dashboard pages (`web/src/pages`, `hooks/useTunnels.ts`, `hooks/useNetworks.ts`) and admin pages (`admin/src/pages`) | rows of the query cache, open dialogs, calls under way, selection, wizard step, new API key | create, change, delete, start, stop, batch operations, retry, mount, leave | TanStack Query's cache and mutations; the server | fetches and changes that overtake each other, answers that arrive after the page was left, double submission |
| Command palette and paging (`components/CommandPalette.tsx`, `pages/Tunnels.tsx`) | query, `selectedIndex`, `page`, filter | keys, typing, turning pages, filtering | both read the cached rows, which change at any time | an index or page beyond the rows |
| Audit log and invoice details of the admin console (`admin/src/pages/AuditLogs.tsx`, `Invoices.tsx`) | filters, page, a cached total per filter and page; `expandedId`, `detailData`, `detailLoading` | filtering, turning pages; expanding, collapsing, settling | the query cache; plain calls of `loadDetail` | pages turned by old totals, answers for another invoice |
| Pages that only read, SDKs, generated code, migrations, command line | - | - | - | not modelled |

What makes each part correct: the gateway must be able to reach every agent it
serves, deliver a message only where it is addressed and end what it cancelled;
the dispatcher must not lose half a registration or route to a stranger; the
data path must keep tunnels apart and give each client its own answer; the
WebSocket proxy must not leave goroutines behind; the agent must reconnect
whenever it is disconnected, and stay quiet after it was told to disconnect.
The API client must refresh once for all calls that need it, keep the two tokens
of a grant together, keep only tokens it was granted, and end every call; the live socket must keep trying, once
at a time, and stop with its component; a page must show what the server has
once everything is answered, create nothing twice and leave no button disabled.

## 2. Modules and how they correspond to the code

**GatewayHub** (`MCGatewayHub`, `GatewayHubProofs`). `agents`, `byOrg`, `register`,
`unregister`, `send` are the fields of the same names; `phase` is the position
of `HandleAgentConnect`/`messageLoop` of a connection, `pumping` its write pump,
`cancelled` its context, `sock` its socket. `orgKeys` are the keys of the outer
map of `byOrg`: `add` empties an inner map without deleting its key, `remove`
deletes it. Channel sends block while the channel is full and give up once the
hub's context is done. `age` counts ticker periods since `LastPing`; `LastPing`
is read by the sweep and written by the handler without a lock, and is modelled
as an atomic value. `sweep` and `sweepCur` are the sweep's copied list and the
connection between its `Unregister` and its `Close`. Writers take their snapshot
under the lock and write afterwards, one connection per step. The two
registrations of every handler (`handler.go:40` and `:54`) are both there.

**RelayDispatcher** (`MCRelay`, `RelayDispatcherProofs`). Every load, store
and delete of a `sync.Map` is a step of a goroutine. The three index maps never
share keys and are one function; the model lets an operation visit its index
entries in any order, which includes the order of the code. `Candidates` gives
the keys a lookup tries in turn (the host, then its wildcards). `Owner` states
the one assumption about callers: the control plane gives a domain, port or
slug to one tunnel. `Register` refuses a context without a tunnel id before it stores
anything; the contexts of the model have one.

**RelayProxy** (`MCRelayProxy`, `RelayProxyProofs`). Agents run
`handleQUICConnection`: token check, registration, `NewStream`, `StreamID`,
acknowledgement, each a step. `EncodeFrame` makes two writes and `DecodeFrame`
two reads, so a stream is a sequence of header and payload chunks that name the
request they belong to. `ServeHTTP` and `handleHTTP` are a request's steps. The
agent's `waitConnectAck`, `forwardRemoteToLocal` and `forwardLocalToRemote` are
the other end; the local service answers in order on its one connection, in as
many frames as `PartsOf` says. An agent may be lost at any time, and the relay
keeps its stream and context, as the code does. A config update publishes a
context without a stream id. Contents, compression and serialisation are
abstract: such a step succeeds or fails. The model takes the byte stream that
both ends are written for (`dialQUIC` opens a UDP socket; the listener is QUIC).

**RelayWebSocket**. `handleWebSocket` with its two goroutines. `pipe` is what a
blocked write of the `io.Pipe` offers; a read completes the write. Deferred calls
run in reverse order.

**AgentClient** (`MCReconnecting`, `AgentClientProofs`). The three loops, `Connect`,
`Disconnect` and `dial`. `a.mu` is held across a blocking operation only by
`Disconnect`, so other critical sections are single steps guarded by `MuFree`.
A connection may die, or get "stuck": writes fail and reads block. `Disconnect`
has its early return: when `connected` is false it returns without closing `quit`, also
while the reconnect loop is dialling. The back-off
and its jitter are a step without a duration. `failCount` is capped at the
threshold it is compared with.

**RefreshLatch**, **WebSession** (`MCDashboard`, `WebSessionProofs`). `RefreshLatch`
is the abstract specification: a holder, the waiting, and three steps, acquire,
join and release. `WebSession` is one browser tab: `mem` is `ApiClient.token`,
`access` and `refresh` the storage, `promise` the request whose exchange
`refreshPromise` stands for, `req[r]` one call of `apiRequest` from `request` to
the code of its caller that runs after the await. Steps end at awaits, since
JavaScript runs to the next one undisturbed. A pair of tokens is named by its
grant, and `Undefined` is the string "undefined" that `localStorage` makes of a missing
field. The server's part follows `handleLogin`, `handleRegister`, `handleMe` and
`auth.Service`: a login grants a pair and a user, a registration answers with neither
(`Keep` is what the tab then stores), other calls are refused without a live token.
`ServerExchanges` is `Service.RefreshToken`, which deletes the old token first and may
fail afterwards. `cmd/server` routes no `/v1/auth/refresh`, so `RefreshRouted` says
whether it is reached: FALSE is the server as it is, where every exchange is refused,
TRUE one that serves the function. An exchange may be refused with TRUE as well, so a
run with TRUE has all behaviours of one with FALSE, and the theorems hold for
both. Reloading the page loses memory and calls and keeps
the storage. The refinement maps `holder` to `promise` and `waiters` to the
calls in phase "waiting". The client of the admin console
(`admin/src/lib/api.ts`, `lib/auth.ts`, `store/auth.ts`) is the same code with
other storage keys, so the module stands for it too.

**WebSocketClient** (`MCReconnecting`, `WebSocketClientProofs`). `OmniTunWS` and the effect of
`useWebSocket`. `connecting`, `opened` and `timers` count sockets and timers, so
that two of them are possible and can be ruled out. The delay of the effect and
the back-off are steps without a duration; `destroyed` is set by `close`.

**PageTables**, **WebPages**, **AdminPages**, **ListPage**, **Console** (`ConsoleProofs`). The pages share one shape: rows
that the server has, a query that caches them, mutations whose success
invalidates the query, dialogs and buttons. `ListPage` has the actions, with
TanStack Query modelled from how the pages use it (`Refetch`: a second fetch
cancels the first, except the very first, which is joined; `Invalidated`,
`Pending`); `WebPages` and `AdminPages` are tables (in the words of `PageTables`) that say, page by page,
which calls there are, what each does to the rows, what its `onSuccess` closes,
opens and reads, and which mutation disables which button. `Console` composes
them and adds what pages keep besides: selection and `batchProcessing` of
`Tunnels.tsx`, the new key of the API keys tab, the wizard of `Onboarding.tsx`, and
the two pages that read without the cache (`Roles.tsx`, and `fetchUser` behind the
security tab). A row exists or not and is in one of two conditions (active,
verified, revoked, ...). A call is sent, carried out by the server and
answered, or fails, in which case the server may have carried it out. A handler may
change fewer rows than it was asked to and report success (the batch handlers skip
what they cannot change, `handleStartTunnel` changes nothing). A call
outlives its page: `live` says whether the page it was made from is still
mounted. `missed` is a history variable: the page has no way of knowing of the
last change, because an answer was lost or overtaken.

**CommandPalette**, **Browsing** (`BrowsingProofs`). The palette draws rows of the cache when its own state
changes, so `drawn` may lag behind `rows`; three queries stand for everything
that may be typed (`"nothing"` is the empty one). `Browsing` composes it with the paged
and filtered list.

**AuditLogs**, **InvoiceDetails**. The two screens of the admin console whose own state is
fed by answers that may be late. The audit log is a query per filter and page;
`totals` is what the cache knows of each, `asked` the queries under way, `counted` what
`handleAdminAuditLogs` has counted for them, which entries written before the answer
arrives make old. Entries are only added: nothing in the server deletes any
(`handleAdminTriggerCleanup` only reports). `loads` counts the calls of
`loadDetail` under way, and the history variable `overlapping` says that another
invoice was being read when the present one was expanded. Both are part of
`Browsing`, where each behaviour is about one screen (`screen`).

## 3. Runs

| Run | Checks | Instance and why it is enough |
|---|---|---|
| `gateway_safety` | `TypeOK`, `ServingIsReachable`, `MessageIsolation`, `IndexesAgree` | two connections of one agent, two organisations, one sender, hub channels of 2 and send queue of 1: replacement, late unregistration, change of organisation and a full send queue all happen. The ticker is off here (the sweep is in `gateway_live` and in the proof). 1.1 million states |
| `gateway_live` | `FinishedLeavesHub`, `CancelledEnds` | one connection, ticker, shutdown, failing network; channels hold its two registrations, so unregistration can overtake them |
| `gateway_reason` | `CancelledForAReason` is violated | one connection: see finding 1 |
| `relay` | `RegisteredIsReachable`, `LookupStaysWithOwner`, `AllEnd` | the dispatcher: two goroutines (the theorems cover any number), two tunnels, one of them registered by two config updates with keys and by its agent without, a wildcard of the other tunnel that covers its domain. A WebSocket request: three messages, error channel of 2. 896 000 states |
| `reconnecting` | `NoLostReconnect`, `QuitIsFinal`, `Reconnects`, `BrokenLinkReplaced`; `SocketTypeOK`, `OneConnection`, `NotStranded`, `StateIsTrue`, `NothingLeftBehind`, `SocketReconnects` | the agent: three connections (one in use, one being read although replaced, one being dialled), the code's threshold of 3. The live socket: two clients, `MaxAttempts` 3 instead of 10 (the code only compares and counts; the theorems cover any limit) |
| `agent_disconnect` | `DisconnectReturns` is violated | the same agent: finding 2 |
| `agent_quiet` | `QuietAfterDisconnect` is violated | the same agent: finding 3 |
| `proxy` | `TunnelIsolation`, `NothingTwice` | two tunnels with an agent and a request each, and an agent whose token is not for the tunnel it declares; or two requests to one tunnel at a time, which two agents serve (one may replace the other while the first is lost or still there). Answers of two frames, agents lost at any step, config updates. The two are told apart by `OneTunnel` and `TwoTunnels` of `MCRelayProxy`, to bound the states: streams and tables are shared in both, which is what could make tunnels or requests cross, and the theorems cover any number of all. Symmetric in the agents and in the requests of the one tunnel. 957 000 states |
| `proxy_answers` | `AnswerMatchesRequest` is violated | two requests, one agent: finding 4 |
| `dashboard` | `SessionTypeOK`, `OneExchange`, `StoredTogether`, `MemoryIsStorage`, `EveryRequestEnds`, `LatchSafe`; `BrowsingTypeOK`, `SelectionStays`, `PageStays`, `LogPageExists`, `DetailIsOfExpanded` | the session: two calls (one exchanges while the other waits, is refused or signs in; the theorems cover any number), one user, two grants (`MaxGrants`: the pair of an earlier visit and one that replaces it), `RefreshRouted` TRUE, which includes all behaviours of FALSE. The browsing screens: three rows, two of them tagged and matched, `PAGE_SIZE` 1 and two fixed entries: several pages, a filter that shortens the list, results that vanish; at most two entries (`MaxLogs`) on pages of one, so that one setting of the filters has fewer pages; two invoices with two calls each (`MaxLoads`), enough for an answer to be overtaken. At most two queries of the audit log are under way (`MaxAsked`), one for the page on the screen and one for another. 461 000 states |
| `session_register` | `StoredIsGranted` is violated | the same session with `RefreshRouted` FALSE: finding 5 |
| `console` | `ConsoleTypeOK`, `ListedIsReal`, `OneCreation`, `WizardOrder`, `BusyIsReal`, `KeyIsShown` | 23 pages, one row, two calls under way (`MaxCalls`, enough for one to overtake the other), any of them still under way when the page is left. Pages do not share state beyond the cache of their own list, so a behaviour is about one page. 890 000 states |

`relay`, `reconnecting` and `dashboard` check two components each that share nothing: a
variable `part`, chosen at the start, says which one a behaviour is about, and the other
stays where it started. Within the bounds above, every behaviour of either component alone is a behaviour of the
run, so a property of one component means what it would mean in a run of its own.

`CHECK_DEADLOCK FALSE` is set where the system may stop: no new connections
arrive, the agent has disconnected, all requests are answered, the component
of the live socket is unmounted.

Fairness. Goroutines that can run are scheduled (weak fairness per loop or per
step), Go's `select` does not starve a ready case, tickers fire. For the agent,
strong fairness of a successful dial says that a server that is dialled again
and again is reached in the end. Nothing obliges the network to fail, peers to
send, users to disconnect or the server to shut down. For the front ends, a call
of `fetch` ends with an answer or a failure and what awaits it runs
(`SessionFairness`); timers fire and the browser ends every attempt to connect,
one way or the other (`SocketFairness`). Nothing obliges users to act. While the hub is shutting
down, its loop and the sweep are not assumed to take anything.

## 4. What the runs found

1. A connecting agent is registered twice and the second registration closes
   the connection as if it were an older one (`gateway/handler.go:54`,
   `hub.go:128`).
2. `Disconnect` waits for the message loop while it holds the lock the loop
   needs, and closes the connection the loop reads only afterwards
   (`control/agent_client.go:90`).
3. `Disconnect` returns at once when the agent is not connected, also while it is
   dialling, and the dial then installs a connection that nothing closes
   (`control/agent_client.go:85`). `QuitIsFinal` says that this is the only way: a
   `Disconnect` that closed `quit` is final. The command line ends its process next.
4. Concurrent requests to a tunnel can get each other's answers, and the rest of
   an answer longer than one frame is taken for the answer to the next request
   (`relay/proxy.go:150`, `control/tunnel_conn.go:230`), since frames name no request.
   What does hold of them is `NothingTwice` and, between tunnels, `TunnelIsolation`.
5. A registration signs the tab in without tokens: the server answers with an id and
   a message, and the store keeps two strings "undefined" as tokens and no user
   (`web/src/store/auth.ts:68`, `cmd/server/main.go:685`). The next call is refused, its
   refresh presents "undefined", and `/v1/auth/refresh` is not routed anyway
   (`main.go:165-182`), although `docs/07-api-design.md:57` has it.

What the models show beside these, without a run of their own:

* Two reconnect signals for one failure: the second closes the new connection
  (`agent_client.go:215`).
* A WebSocket client is connected to itself (`proxy.go:300-308`).
* A refresh that is in flight during a sign-out stores its new tokens
  afterwards (`web/src/lib/api.ts:65`); a refresh that is refused clears the access
  token but leaves `isLoggedIn` set, so the pages stay open and every call fails
  until the user signs in again.
* The page of one tunnel keeps its old status after start and stop, which
  invalidate the list only (`hooks/useTunnels.ts:67`). `ListedIsReal` leaves that page
  out.
* An invalidation during the very first fetch of a list joins that fetch, whose
  rows may be older than the change; answers of `fetchRoles` and `fetchUser` may
  overtake each other. `ListedIsReal` excuses both (`missed`).
* After rows have gone, the list may be on an empty page without the bar that
  leads back (`Tunnels.tsx:526`), and the palette may have nothing selected after an
  arrow key on an empty result (`CommandPalette.tsx:253`). `PageStays` and
  `SelectionStays` say that nothing else leads there. The audit log has no such state (`LogPageExists`), as long as nothing deletes its
  entries: a clean-up that does what the settings of `DataRetention.tsx` promise would
  bring it about.
* Details of invoices may arrive out of order, and those of another invoice then
  stay below the one that is expanded (`Invoices.tsx:94`). `DetailIsOfExpanded` says
  that this takes two reads that overlap (`overlapping`).

Met while reading and not in the models: the tags of a new tunnel go to the
first tunnel of the old list (`Tunnels.tsx:181`); the edit dialog of a tunnel starts
with a fixed authentication mode and connection limit and saves them
(`TunnelDetail.tsx:100`); a form that was opened again is closed by the answer to its
earlier call; signing out does not clear the query cache; saving one plan sends
all plans as they were last read (`PricingConfig.tsx:76`).

## 5. Proofs

All proofs are checked by TLAPS; constants are arbitrary sets and functions
that satisfy the named assumptions, which TLC evaluates in the runs.

* **GatewayHubProofs** (from `ConstantsAssumption`). `ServingIsReachable` is not
  inductive: `IInv` adds that a connection object is unknown to everybody before
  its handshake (`Named`), that the hub files a connection under its own id
  (`HubNamed`) and that whoever sends an unregistration is about to close that
  connection (`UnregisterCloses`); the last is why a late unregistration cannot
  remove a live connection. Theorems: `TypeCorrect`, `IndexesAlwaysAgree`,
  `ServingAlwaysReachable`, `MessagesStayIsolated`.
* **RelayDispatcherProofs** (from `DispatcherAssumption`). `RegisteredIsReachable`
  speaks of quiet moments only. `Reachable` says what holds in between: a key of
  a registered context is indexed, or a registration has it still to store, or
  an unregistration of the same tunnel has still to delete the primary entry.
  `Busy`, `Looking`, `EntriesAreOwned` and `TunnelsAreOwn` support it and
  `LookupStaysWithOwner`.
* **AgentClientProofs** (from `ClientAssumption`). `Redialling` (no connection
  while the reconnect loop dials) and `NoDialAfterQuit` give
  `QuitIsFinal`, which is about a `Disconnect` that found a connection and closed `quit`
  (`QuietAfterDisconnect`, which is about every `Disconnect`, is false: finding 3); `NoLostReconnect`
  needs `LoopsStartTogether`.
* **RelayProxyProofs** (from `ProxyAssumption`). `TunnelIsolation` follows from
  `Published` (a published or looked-up context belongs to an agent whose token
  is for that tunnel), `Streams` (a context's stream id is that of its own
  agent's stream), `Flow` (what each stream and local connection may carry),
  `Waiting` and `Answers`. It covers concurrent requests and answers of any length.
  `NothingTwice` needs `OnceInv`, an account of where everything is: no stream and no
  local connection has a chunk twice (`NoRepeats`), nothing is on a stream before the step
  that writes it (`NotYet`), nothing answers a request that was not forwarded (`Fresh`),
  a request's chunks and the chunks of its answer stay with the agent it was forwarded
  to (`Own`), and a part of an answer is either still to be sent, on its way, or held by one client
  (`Once`). The lemmas `RanTail`, `RanAppend` and `RanConcat` say what the operations on
  sequences do to the set of their elements; `Shrinks` covers every step that only
  takes chunks away. `AnswerMatchesRequest` is false (finding 4), and nothing weaker is
  claimed about which answer a client gets.
* **WebSocketClientProofs** (from `MaxAttemptsAssumption`). `OneConnection` speaks of a
  sum of three counters; `ClientInv` says for each position of the effect which of
  them may be set and what `state`, `attempts` and `destroyed` are then, and all
  properties follow from it.
* **WebSessionProofs** (from `NoReqAssumption`, `NoTokenAssumption`, `MaxGrantsAssumption`, `RoutedAssumption`). The types are not
  inductive alone: `GoodReq` says what a call carries in each phase (the pair it
  exchanges or was granted, the token whose user it fetches). `SessionInv` adds
  `OneExchange` and `MemoryIsStorage`. The refinement `SessionRefinesLatch` follows
  from `OneExchange`: a refused call finds no holder and acquires, or finds one and
  joins; the end of the exchange and a reload release; every other step leaves
  holder and waiting calls alone (`Aside`). `StoredTogether` is part of
  the invariant: every write of the storage writes both tokens (`Keep`, the end of an
  exchange, signing out) or clears the access token.
* **BrowsingProofs** (from `PaletteAssumption`, `PageAssumption`, `LogAssumption` and
  `InvoiceAssumption`). `LogPageExists` rests on the fact that a cached total is at most
  what the server has, and so is one that is counted and not yet answered (`LogInv`), which
  survives every delay because entries are only added, and on a bound for the rounded quotient (`NextPageExists`). `DetailIsOfExpanded`
  needs that all answers to come are about the expanded invoice unless reads
  overlap (`InvoiceInv`). `PageStays` and `SelectionStays` are proved per step from the
  types; the lemmas `CountGrows` and `ResultsGrow` say that more rows give more
  results. `BrowsingTypeOK` bounds the page and the selection by all of the rows
  (`RangeInv`, with `DrawnBound` and `NextPageBound`).
* **ConsoleProofs** (from `BoundAssumption`: any rows, any number of calls). The
  tables of all pages are read once, page by page, into the facts the rest uses:
  forms and buttons submit calls the page has (`CallsFit`), what creates rows is
  submitted only after waiting for its own mutation (`CreationsWait`), and what
  changes rows reads them again (`ChangesRead`). `CallsMove` says what a step may
  do to the calls under way. On it rest the invariants: `TypeInv` (a call is one
  of its page's table, slots fill from the front, a page that is not mounted has
  no call that would change it); `SoleInv` for `OneCreation` (a creating call is
  the one that disables its button: `isPending` is about the latest call of a
  mutation, so this is not obvious); `BusyInv` for `BusyIsReal` (at most one batch
  call, and exactly while the flag is set); `WizardInv` for `WizardOrder` (an answer
  to the creation of a tunnel is awaited only once the organisation is saved, and
  one to the organisation only at the first steps or when all is done); `KeyInv`
  for `KeyIsShown`. `ListedIsReal` has two parts. On pages with a query, `QueryInv`
  says that fresh rows and the rows an answer brings are the server's, unless the
  call that changed them is still to be answered (`Unlearnt`): its answer will have
  them read again. On the two pages without a query, `ReadsInv` says the same of
  the answers to come, of which the last one counts; `StillInv` has what the pages
  that use no query leave alone.

Only model-checked: the liveness properties (`FinishedLeavesHub`,
`CancelledEnds`, `Reconnects`, `SocketReconnects`, `BrokenLinkReplaced`, `AllEnd`,
`EveryRequestEnds`), since liveness under fairness is outside what the prover
does. Every other property of the passing runs is stated by a theorem.

## 6. Not modelled, and the plan

Left out of the modules above: the dispatch of agent messages (it only logs),
TLS and the start of servers, traffic logging, the end of file of the local
service, `TunnelConnection.Close`, the WebSocket fallback of agents, and
`tunnelConns` of `AgentClient`. `internal/relay.Server` is used by the tests;
`cmd/relay` does not start it, and nobody calls `ControlClient.SetSubscriber`. Of
the front ends: pages that only read or show fixed data, pages without a route
(`Webhooks.tsx`, `TunnelInspect.tsx`, `FeatureFlags.tsx`, `Blacklist.tsx`,
`AbuseReports.tsx`), validation of forms, search on the admin pages, charts,
translations, clipboard, toasts, and two tabs that share one storage.

Next, in this order:

1. **AgentFailover**: `Agent.OnRelayFailed`, `HandleTunnelStartAck`,
   `HandleTunnelStopCmd` and `TunnelConnection` (`Establish`, `Close`, the two
   forwarding loops), to be composed with `AgentClient`'s tunnel table. Hazards:
   `failoverCount` is never reset, the new token is empty, a stopped tunnel is
   established again.
2. **TunnelService** with an abstract life cycle (`ValidTransitions`) it should
   implement, quota count-then-insert in the service and in `handleCreateTunnel`,
   and relay selection.
3. **MeshTopology**: planner, address allocation, TURN allocations.
4. **AuthSession**: login, MFA, refresh, sessions, API keys, invitations.
5. Usage reporting and billing, ACME certificates, feature flags, abuse rules,
   webhooks, the audit and traffic buffers.

Abstract specifications worth stating: an atomic tunnel table that
`RelayDispatcher` implements at quiet moments; a life cycle that `TunnelService`
implements. Theorems planned: type and safety
invariants of 1 to 3, and the step simulation for the life cycle.
