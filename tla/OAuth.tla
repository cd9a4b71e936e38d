------------------------------- MODULE OAuth -------------------------------
(***************************************************************************)
(* The OAuth service: an app of its own that other apps ask for the access *)
(* tokens of the owner's accounts (apps/oauth_provider), called through    *)
(* the router, which passes it the caller's grants and stores the ones it  *)
(* makes (web/routes/services_v2.py, web/routes/api/permissions_v2.py).    *)
(*                                                                         *)
(* Its handlers are coroutines of one event loop: a step runs from one     *)
(* await to the next.  A key is a provider with a set of scopes.           *)
(***************************************************************************)
EXTENDS Naturals, FiniteSets

CONSTANTS
  Apps, NoApp,      \* the apps that call; nobody in particular
  Keys, DeviceKeys, \* the keys, and those whose provider has the device flow
  Accounts,         \* the owner's accounts at the providers
  Default, New,     \* the account when none is named; when one more is asked for
  Nobody,           \* no account
  Tasks, Idle,
  MaxFlows,         \* how many flows are ever begun
  MaxRows,          \* how many rows are ever stored
  MaxEvents         \* how many faults, withdrawals and deletions there are

ASSUME OAuthAssumption ==
  /\ DeviceKeys \subseteq Keys
  /\ NoApp \notin Apps /\ Nobody \notin Accounts /\ Idle \notin Apps
  /\ {Default, New} \cap Accounts = {} /\ Default # New
  /\ MaxFlows \in Nat /\ MaxRows \in Nat /\ MaxEvents \in Nat

VARIABLES
  installed,  \* the apps whose row the router has
  grants,     \* the app-scoped rows of permissions_v2: <<app, key, account>>
  tokens,     \* the rows of oauth_tokens
  nextId,     \* its AUTOINCREMENT
  flow,       \* pending_auth_flows and active_device_flows, in order of insertion
  made,       \* how many there have been
  consent,    \* at the provider: the account that the owner chose in a flow
  revoked,    \* at the provider: the flows whose tokens are no longer good
  task,
  stored,     \* stored[n]: how many rows flow n has come to (history)
  unnamed,    \* the flows of whose token the provider did not say whose it is (history)
  events

routerVars   == <<installed, grants>>
tableVars    == <<tokens, nextId, stored, unnamed>>
upstreamVars == <<consent, revoked>>
vars == <<routerVars, tableVars, flow, made, upstreamVars, task, events>>

FlowIds == 1..MaxFlows

-----------------------------------------------------------------------------
(* Types *)

\* What names an account in a request: the account, or a word for one.
Named == Accounts \cup {Default, New}

Flow == [kind : {"none", "code", "device", "gone"}, key : Keys \cup {Nobody},
         account : Named \cup {Nobody}, app : Apps \cup {NoApp}, asked : Apps \cup {NoApp},
         status : {"none", "pending", "completed", "error"}]

Token == [id : Nat, key : Keys, account : Named, from : FlowIds, access : FlowIds, fresh : BOOLEAN]

Handler == [pc : {"authorize", "refresh", "exchange", "grant", "identify", "grant_pop", "pop",
                  "revoke", "delete"},
            key : Keys, app : Apps \cup {NoApp}, id : Nat, n : Nat, account : Named \cup {Nobody}]

\* Tables, flows and handlers are well formed.
OAuthTypeOK ==
  /\ installed \subseteq Apps /\ grants \subseteq Apps \X Keys \X Named
  /\ tokens \subseteq Token /\ nextId \in Nat
  /\ flow \in [FlowIds -> Flow] /\ made \in Nat
  /\ consent \in [FlowIds -> Accounts \cup {Nobody}]
  /\ task \in [Tasks -> Handler \cup {Idle}]
  /\ stored \in [FlowIds -> Nat] /\ unnamed \subseteq FlowIds

-----------------------------------------------------------------------------
(* Helpers *)

NoFlow ==
  [kind |-> "none", key |-> Nobody, account |-> Nobody, app |-> NoApp, asked |-> NoApp, status |-> "none"]

\* build_auth_url: the app is put into it afterwards.  asked is the app that the
\* request or the link was for (history); neither /grant, which redirects to the
\* provider at once, nor device.html says so to the owner.
NewFlow(k, account, c) == [NoFlow EXCEPT !.kind = "code", !.key = k, !.account = account, !.asked = c]

NewDeviceFlow(k, account, c) ==
  [NewFlow(k, account, c) EXCEPT !.kind = "device", !.app = c, !.status = "pending"]

Pending(n) == flow[n].kind = "code"
Active(n)  == flow[n].kind = "device"

\* Mutant: dict.get.
Got(n) == flow

\* dict.pop; what is popped is still known to those who have read it.
Popped(n) == [flow EXCEPT ![n].kind = "gone"]

At(t, pc) == task[t] # Idle /\ task[t].pc = pc
Work(pc, k) == [pc |-> pc, key |-> k, app |-> NoApp, id |-> 0, n |-> 0, account |-> Nobody]

Enter(t, w) == task' = [task EXCEPT ![t] = w]
Leave(t)    == task' = [task EXCEPT ![t] = Idle]

Event       == events < MaxEvents /\ events' = events + 1

\* select_tokens
LabelledRows(k, account) == {r \in tokens : r.key = k /\ r.account = account}
Rows(k, account) == IF account = Default THEN {r \in tokens : r.key = k} ELSE LabelledRows(k, account)

\* The row that get_valid_token and find_and_remove_token take, of several.
FirstOf(R) == CHOOSE r \in R : \A q \in R : r.id <= q.id

\* The grants that the router passes with a call, as it has them then.
Passed(c) == {g \in grants : g[1] = c}

\* check_oauth_v2_permission.  A key covers its own scopes and no others.
Permitted(c, k, account) == \E g \in Passed(c) : g[2] = k /\ g[3] = account

\* A call of the service reaches a handler: it is an app's whose row is there.
Called(t, c) == task[t] = Idle /\ c \in installed

-----------------------------------------------------------------------------
(* Asking for a token.  A token that is there and fresh is handed out, and   *)
(* who has no grant is sent to the page of Begin; nothing changes.           *)

\* No row: the owner is sent to authorize, for nobody in particular.
AskNone(t, c, k, account) ==
  /\ Called(t, c) /\ Permitted(c, k, account)
  /\ k \notin DeviceKeys /\ Rows(k, account) = {}
  /\ Enter(t, [Work("authorize", k) EXCEPT !.account = account])
  /\ UNCHANGED <<routerVars, tableVars, flow, made, upstreamVars, events>>

\* The first row is past its time: its refresh token is tried.
AskStale(t, c, k, account) ==
  /\ Called(t, c) /\ Permitted(c, k, account)
  /\ Rows(k, account) # {} /\ ~FirstOf(Rows(k, account)).fresh
  /\ LET r == FirstOf(Rows(k, account)) IN
       Enter(t, [Work("refresh", k) EXCEPT !.id = r.id, !.n = r.from, !.account = account])
  /\ UNCHANGED <<routerVars, tableVars, flow, made, upstreamVars, events>>

\* Mutant: the rows of this provider and these scopes.
OfKey(t, r) == r.key = task[t].key

\* update_token_after_refresh: the row of that id, if it is still there.
OfId(t, r) == r.id = task[t].id

Refresh(t) ==
  /\ At(t, "refresh") /\ task[t].n \notin revoked
  /\ tokens' = {IF OfId(t, r) THEN [r EXCEPT !.fresh = TRUE, !.access = task[t].n] ELSE r : r \in tokens}
  /\ Leave(t)
  /\ UNCHANGED <<routerVars, nextId, stored, unnamed, flow, made, upstreamVars, events>>

\* The provider refuses, or cannot be had: as if there were no row.
RefreshFails(t) ==
  /\ At(t, "refresh")
  /\ Enter(t, [Work("authorize", task[t].key) EXCEPT !.account = task[t].account])
  /\ UNCHANGED <<routerVars, tableVars, flow, made, upstreamVars, events>>

-----------------------------------------------------------------------------
(* The flow with a code *)

\* An app's request for one more account: no grant is looked for.
AskNew(t, c, k) ==
  /\ Called(t, c) /\ k \notin DeviceKeys
  /\ Enter(t, [Work("authorize", k) EXCEPT !.app = c, !.account = New])
  /\ UNCHANGED <<routerVars, tableVars, flow, made, upstreamVars, events>>

\* The link that a 403 sends the owner to, with the app among its parameters.
Begin(t, c, k) ==
  /\ task[t] = Idle /\ k \notin DeviceKeys
  /\ Enter(t, [Work("authorize", k) EXCEPT !.app = c, !.account = Default])
  /\ UNCHANGED <<routerVars, tableVars, flow, made, upstreamVars, events>>

\* Mutant: the first flow there is.
Earliest(f) == CHOOSE n \in {m \in FlowIds : f[m].kind = "code"} :
                 \A m \in FlowIds : f[m].kind = "code" => n <= m

\* list(pending_auth_flows.keys())[-1]
Latest(f) == CHOOSE n \in {m \in FlowIds : f[m].kind = "code"} :
               \A m \in FlowIds : f[m].kind = "code" => m <= n

\* With the credentials: build_auth_url, and the app put into the flow it made.
Authorize(t) ==
  LET w == task[t]
      f == [flow EXCEPT ![made + 1] = NewFlow(w.key, w.account, w.app)] IN
  /\ At(t, "authorize") /\ made < MaxFlows
  /\ made' = made + 1
  /\ flow' = IF w.app = NoApp THEN f ELSE [f EXCEPT ![Latest(f)].app = w.app]
  /\ Leave(t)
  /\ UNCHANGED <<routerVars, tableVars, upstreamVars, events>>

\* The owner consents in the browser, to what flow n asks for.
Consent(n, x) ==
  /\ flow[n].kind # "none" /\ consent[n] = Nobody
  /\ flow[n].kind = "device" => flow[n].status = "pending"
  /\ consent' = [consent EXCEPT ![n] = x]
  /\ UNCHANGED <<routerVars, tableVars, flow, made, revoked, task, events>>

\* The redirect back, once or, when the page is loaded again, more than once.
Callback(t, n) ==
  /\ task[t] = Idle /\ Pending(n) /\ consent[n] # Nobody
  /\ flow' = Popped(n)
  /\ Enter(t, [Work("exchange", flow[n].key) EXCEPT !.n = n, !.app = flow[n].app])
  /\ UNCHANGED <<routerVars, tableVars, made, upstreamVars, events>>

\* Some of the scopes were not given: the flow is over.
CallbackIncomplete(n) ==
  /\ Event
  /\ Pending(n) /\ consent[n] # Nobody
  /\ flow' = Popped(n)
  /\ UNCHANGED <<routerVars, tableVars, made, upstreamVars, task>>

\* store_token
Store(n, k, account) ==
  /\ nextId <= MaxRows
  /\ tokens' = tokens \cup {[id |-> nextId, key |-> k, account |-> account, from |-> n, access |-> n, fresh |-> TRUE]}
  /\ nextId' = nextId + 1
  /\ stored' = [stored EXCEPT ![n] = @ + 1]

\* fetch_account_identity: the account that consented; or nothing, and then the
\* row will bear the name that the request asked for, whoever consented.
Identified(n, x) ==
  \/ x = consent[n] /\ UNCHANGED unnamed
  \/ x = flow[n].account /\ unnamed' = unnamed \cup {n}

\* The code is exchanged, the account asked for, the row stored; then the
\* router is asked to grant.
Exchange(t) ==
  LET n == task[t].n IN
  /\ At(t, "exchange")
  /\ \E x \in Named :
       /\ Identified(n, x)
       /\ Store(n, task[t].key, x)
       /\ IF task[t].app = NoApp THEN Leave(t)
          ELSE task' = [task EXCEPT ![t].pc = "grant", ![t].account = x]
  /\ UNCHANGED <<routerVars, flow, made, upstreamVars, events>>

\* grant_app_scoped, for an app that the router still has.
Granted(t) ==
  IF task[t].app \in installed THEN grants \cup {<<task[t].app, task[t].key, task[t].account>>} ELSE grants

GrantCall(t) ==
  /\ At(t, "grant")
  /\ grants' = Granted(t)
  /\ Leave(t)
  /\ UNCHANGED <<installed, tableVars, flow, made, upstreamVars, events>>

-----------------------------------------------------------------------------
(* The device flow *)

\* The page with the code to type in; a coroutine polls the provider.
\* For an app, or as the answer to a request that found no row.
DevicePage(c, k, account) ==
  /\ k \in DeviceKeys /\ made < MaxFlows
  /\ IF c = NoApp THEN \E b \in installed : Permitted(b, k, account) ELSE account \in {Default, New}
  /\ made' = made + 1
  /\ flow' = [flow EXCEPT ![made + 1] = NewDeviceFlow(k, account, c)]
  /\ UNCHANGED <<routerVars, tableVars, upstreamVars, task, events>>

\* _poll_device_flow, the last turn of its loop: the provider has a token, or an
\* error, or the deadline has come.
PollDone(n) ==
  /\ Active(n) /\ flow[n].status = "pending" /\ consent[n] # Nobody
  /\ flow' = [flow EXCEPT ![n].status = "completed"]
  /\ UNCHANGED <<routerVars, tableVars, made, upstreamVars, task, events>>

PollError(n) ==
  /\ Event
  /\ Active(n) /\ flow[n].status = "pending"
  /\ flow' = [flow EXCEPT ![n].status = "error"]
  /\ UNCHANGED <<routerVars, tableVars, made, upstreamVars, task>>

\* The page asks for the status of its flow, again when an answer was lost.
DevicePoll(t, n) ==
  /\ task[t] = Idle /\ Active(n) /\ flow[n].status = "completed"
  /\ Enter(t, [Work("identify", flow[n].key) EXCEPT !.n = n, !.app = flow[n].app])
  /\ UNCHANGED <<routerVars, tableVars, flow, made, upstreamVars, events>>

DevicePollError(n) ==
  /\ Active(n) /\ flow[n].status = "error"
  /\ flow' = Popped(n)
  /\ UNCHANGED <<routerVars, tableVars, made, upstreamVars, task, events>>

\* fetch_account_identity, store_token; for nobody in particular, that is all.
Identify(t) ==
  LET n == task[t].n IN
  /\ At(t, "identify")
  /\ \E x \in Named :
       /\ Identified(n, x)
       /\ Store(n, task[t].key, x)
       /\ \/ task[t].app = NoApp /\ flow' = Popped(n) /\ Leave(t)
          \/ /\ task[t].app # NoApp
             /\ task' = [task EXCEPT ![t].pc = "grant_pop", ![t].account = x]
             /\ UNCHANGED flow
  /\ UNCHANGED <<routerVars, made, upstreamVars, events>>

DeviceGrant(t) ==
  /\ At(t, "grant_pop")
  /\ grants' = Granted(t)
  /\ task' = [task EXCEPT ![t].pc = "pop"]
  /\ UNCHANGED <<installed, tableVars, flow, made, upstreamVars, events>>

DeviceOver(t) ==
  /\ At(t, "pop")
  /\ flow' = Popped(task[t].n)
  /\ Leave(t)
  /\ UNCHANGED <<routerVars, tableVars, made, upstreamVars, events>>

-----------------------------------------------------------------------------
(* Revoking *)

\* svc_revoke: one row is deleted, whatever comes of the provider's answer.
RevokeToken(t, c, k, account) ==
  /\ Event
  /\ Called(t, c) /\ Permitted(c, k, account)
  /\ LabelledRows(k, account) # {}
  /\ LET r == FirstOf(LabelledRows(k, account)) IN
       /\ tokens' = tokens \ {r}
       /\ Enter(t, [Work("revoke", k) EXCEPT !.n = r.from])
  /\ UNCHANGED <<routerVars, nextId, stored, unnamed, flow, made, upstreamVars>>

\* The dashboard's: the row is read, the credentials are awaited, and then the
\* row of that id is deleted.
DeleteToken(t, r) ==
  /\ Event
  /\ task[t] = Idle /\ r \in tokens
  /\ Enter(t, [Work("delete", r.key) EXCEPT !.id = r.id, !.n = r.from])
  /\ UNCHANGED <<routerVars, tableVars, flow, made, upstreamVars>>

Delete(t) ==
  /\ At(t, "delete")
  /\ tokens' = {r \in tokens : r.id # task[t].id}
  /\ task' = [task EXCEPT ![t].pc = "revoke"]
  /\ UNCHANGED <<routerVars, nextId, stored, unnamed, flow, made, upstreamVars, events>>

RevokeUpstream(t) ==
  /\ At(t, "revoke")
  /\ revoked' = revoked \cup {task[t].n}
  /\ Leave(t)
  /\ UNCHANGED <<routerVars, tableVars, flow, made, consent, events>>

-----------------------------------------------------------------------------
(* What fails, and what others do                                          *)

\* The credentials cannot be had (get_provider_creds).
NoCredentials(t) ==
  /\ Event
  /\ task[t] # Idle /\ task[t].pc \in {"refresh", "authorize", "exchange", "delete", "revoke"}
  /\ Leave(t)
  /\ UNCHANGED <<routerVars, tableVars, flow, made, upstreamVars>>

\* The provider refuses the code: the flow has been popped.
ExchangeFails(t) ==
  /\ Event
  /\ At(t, "exchange")
  /\ Leave(t)
  /\ UNCHANGED <<routerVars, tableVars, flow, made, upstreamVars>>

\* The router cannot be reached: the row is stored, the device flow not popped.
GrantFails(t) ==
  /\ Event
  /\ task[t] # Idle /\ task[t].pc \in {"grant", "grant_pop"}
  /\ Leave(t)
  /\ UNCHANGED <<routerVars, tableVars, flow, made, upstreamVars>>

\* The service's process starts again: what it had in memory is gone.
Restart ==
  /\ Event
  /\ flow' = [n \in FlowIds |-> IF Pending(n) \/ Active(n) THEN [flow[n] EXCEPT !.kind = "gone"] ELSE flow[n]]
  /\ task' = [t \in Tasks |-> Idle]
  /\ UNCHANGED <<routerVars, tableVars, made, upstreamVars>>

Expire(r) ==
  /\ r \in tokens /\ r.fresh /\ r.key \notin DeviceKeys
  /\ tokens' = (tokens \ {r}) \cup {[r EXCEPT !.fresh = FALSE]}
  /\ UNCHANGED <<routerVars, nextId, stored, unnamed, flow, made, upstreamVars, task, events>>

\* The owner takes an account's consent back at the provider.
Withdraw(n) ==
  /\ Event
  /\ consent[n] # Nobody /\ n \notin revoked
  /\ revoked' = revoked \cup {n}
  /\ UNCHANGED <<routerVars, tableVars, flow, made, consent, task>>

RevokeGrant(g) ==
  /\ Event
  /\ g \in grants
  /\ grants' = grants \ {g}
  /\ UNCHANGED <<installed, tableVars, flow, made, upstreamVars, task>>

RemoveApp(c) ==
  /\ Event
  /\ c \in installed
  /\ installed' = installed \ {c}
  /\ grants' = {g \in grants : g[1] # c}
  /\ UNCHANGED <<tableVars, flow, made, upstreamVars, task>>

-----------------------------------------------------------------------------

Init ==
  /\ installed = Apps /\ grants = {}
  /\ tokens = {} /\ nextId = 1
  /\ flow = [n \in FlowIds |-> NoFlow] /\ made = 0
  /\ consent = [n \in FlowIds |-> Nobody] /\ revoked = {}
  /\ task = [t \in Tasks |-> Idle]
  /\ stored = [n \in FlowIds |-> 0] /\ unnamed = {}
  /\ events = 0

Requests(t) ==
  \/ \E c \in Apps, k \in Keys :
       \/ AskNew(t, c, k) \/ Begin(t, c, k)
       \/ \E x \in Accounts \cup {Default} : AskNone(t, c, k, x) \/ AskStale(t, c, k, x)
       \/ \E x \in Accounts \cup {Default, New} : RevokeToken(t, c, k, x)
  \/ \E n \in FlowIds : Callback(t, n) \/ DevicePoll(t, n)
  \/ \E r \in tokens : DeleteToken(t, r)

Handlers(t) ==
  \/ Refresh(t) \/ RefreshFails(t) \/ Authorize(t)
  \/ Exchange(t) \/ GrantCall(t) \/ Identify(t) \/ DeviceGrant(t) \/ DeviceOver(t)
  \/ Delete(t) \/ RevokeUpstream(t) \/ NoCredentials(t) \/ ExchangeFails(t) \/ GrantFails(t)

Others ==
  \/ \E c \in Apps \cup {NoApp}, k \in Keys, x \in Accounts \cup {Default, New} : DevicePage(c, k, x)
  \/ \E n \in FlowIds :
       \/ PollDone(n) \/ PollError(n) \/ DevicePollError(n) \/ CallbackIncomplete(n) \/ Withdraw(n)
       \/ \E x \in Accounts : Consent(n, x)
  \/ \E r \in tokens : Expire(r)
  \/ \E g \in grants : RevokeGrant(g)
  \/ \E c \in Apps : RemoveApp(c)
  \/ Restart

Next == (\E t \in Tasks : Requests(t) \/ Handlers(t)) \/ Others

Spec == Init /\ [][Next]_vars

-----------------------------------------------------------------------------
(* What should be true.                                                    *)

\* What a row or a grant that flow n came to may be named after.
Labels(n) == {consent[n]} \cup IF n \in unnamed THEN {flow[n].account} ELSE {}

\* A grant comes of one flow: one begun for that app and no other, for that key,
\* to which the owner consented at the provider, and whose token was stored; it is
\* of the account that consented, but when the provider did not say which that was
\* (unnamed); and the app is still there, although it may be removed while the
\* handler awaits the provider (oauth_callback, device_poll, grant_app_scoped).
\* That the owner knew for which app it was, as the comment of grant_app_scoped
\* has it, is not so and not said here: no page of the service names one.
GrantsAreConsented ==
  \A g \in grants :
    /\ g[1] \in installed
    /\ \E n \in FlowIds : /\ flow[n].asked = g[1] /\ flow[n].key = g[2]
                          /\ g[3] \in Labels(n) /\ consent[n] # Nobody /\ stored[n] > 0

\* The owner's one consent is stored as one row, however often the browser
\* comes back with its code (oauth_callback: "Invalid or expired authorization
\* flow").  Device flows are not like this.
CodeStoredOnce == \A n \in FlowIds : flow[n].key \notin DeviceKeys => stored[n] <= 1

\* A row's access token is for the key that the row says and of the account that
\* the row says, whichever refresh wrote it last.  The exception is a token of
\* which the provider did not say whose it is (unnamed): its row says the account
\* that the request asked for, and the token may be another's.
RowsKeepTheirAccount ==
  \A r \in tokens :
    /\ r.key = flow[r.access].key
    /\ r.account = consent[r.access] \/ (r.access \in unnamed /\ r.account = flow[r.access].account)

=============================================================================
