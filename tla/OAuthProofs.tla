---------------------------- MODULE OAuthProofs ----------------------------
(* Theorems about OAuth, for any apps, keys and accounts, any number of      *)
(* handlers, flows and rows, and any faults.                                 *)
EXTENDS OAuth, WellFoundedInduction, TLAPS

-----------------------------------------------------------------------------
(* The inductive invariant.                                                  *)

Begun(n) == flow[n].kind # "none"

\* The owner has consented in flow n; its account is settled from then on.
Consented(n) == n \in FlowIds /\ consent[n] # Nobody

\* A flow with a code, and its one row: none before the flow is popped.
FlowsOk ==
  \A n \in FlowIds :
    /\ Begun(n) <=> n <= made
    /\ consent[n] # Nobody \/ stored[n] > 0 => Begun(n)
    /\ Begun(n) => flow[n].key \in Keys /\ flow[n].account \in Named
    /\ flow[n].app = flow[n].asked
    /\ Pending(n) => flow[n].key \notin DeviceKeys /\ stored[n] = 0
    /\ Active(n) => flow[n].key \in DeviceKeys
    /\ Active(n) /\ flow[n].status = "completed" => consent[n] # Nobody
    /\ flow[n].key \notin DeviceKeys => stored[n] <= 1

\* Row r is for the key of flow n, and named after who consented in it, if that is known.
Of(r, n) == Consented(n) /\ r.key = flow[n].key /\ r.account \in Labels(n)

\* An id is one row's.  Tokens of device flows have no time.
RowsOk ==
  /\ \A r \in tokens : /\ r.id < nextId
                       /\ Of(r, r.from) /\ Of(r, r.access)
                       /\ r.key \in DeviceKeys => r.fresh
  /\ \A r, q \in tokens : r.id = q.id => r = q

\* What a handler carries over its awaits is still so: its flow, the app that it was
\* begun for, and of the row it read the flow it came from, if the row is there.
WorkOk(w) ==
  /\ w.pc \in {"authorize", "refresh"} => w.key \notin DeviceKeys /\ w.account \in Named
  /\ w.pc = "refresh" => /\ Consented(w.n) /\ w.key = flow[w.n].key /\ w.id < nextId
                         /\ \A r \in tokens : r.id = w.id => r.from = w.n
  /\ w.pc \in {"exchange", "identify", "grant", "grant_pop", "pop"} =>
       Consented(w.n) /\ w.key = flow[w.n].key /\ w.app = flow[w.n].asked
  /\ w.pc = "exchange" => flow[w.n].kind = "gone" /\ w.key \notin DeviceKeys /\ stored[w.n] = 0
  /\ w.pc = "identify" => w.key \in DeviceKeys
  /\ w.pc \in {"grant", "grant_pop"} => w.app \in Apps /\ w.account \in Labels(w.n) /\ stored[w.n] > 0

\* A code is exchanged by one handler.
WorksOk ==
  /\ \A t \in Tasks : task[t] # Idle => WorkOk(task[t])
  /\ \A t, u \in Tasks : At(t, "exchange") /\ At(u, "exchange") /\ task[t].n = task[u].n => t = u

OAuthInv == OAuthTypeOK /\ FlowsOk /\ RowsOk /\ WorksOk /\ GrantsAreConsented

-----------------------------------------------------------------------------
(* What the helpers do.                                                      *)

LEMMA FirstIn ==
  ASSUME NEW R, R # {}, \A r \in R : r.id \in Nat
  PROVE  FirstOf(R) \in R
<1> DEFINE Ids == {r.id : r \in R}
           Less == {ss \in Nat \X Nat : ss[1] < ss[2]}
<1>1. Ids \subseteq Nat /\ Ids # {}
  OBVIOUS
<1>2. IsWellFoundedOn(Less, Nat)
  BY NatLessThanWellFounded DEF OpToRel
<1>3. PICK i \in Ids : \A j \in Ids : ~(<<j, i>> \in Less)
  <2> HIDE DEF Less, Ids
  <2> QED  BY <1>1, <1>2, WFMin
<1>4. PICK r \in R : r.id = i
  BY <1>3
<1>5. ASSUME NEW q \in R PROVE r.id <= q.id
  <2>1. q.id \in Ids /\ ~(<<q.id, i>> \in Less)
    BY <1>3
  <2>2. q.id \in Nat /\ i \in Nat
    BY <1>4
  <2> QED  BY <1>4, <2>1, <2>2
<1> QED  BY <1>5 DEF FirstOf

\* The newest flow is the last one begun.
LEMMA LatestIs ==
  ASSUME NEW f, NEW m \in FlowIds, f[m].kind = "code", \A n \in FlowIds : n > m => f[n].kind = "none"
  PROVE  Latest(f) = m
<1>1. \A n \in {k \in FlowIds : f[k].kind = "code"} :
        (\A k \in FlowIds : f[k].kind = "code" => k <= n) <=> n = m
  BY OAuthAssumption DEF FlowIds
<1> QED  BY <1>1 DEF Latest

\* Flows keep what they are for, consent is given once, and row ids are new.
Grows ==
  /\ \A n \in FlowIds :
       /\ Begun(n) => /\ flow'[n].key = flow[n].key /\ flow'[n].account = flow[n].account
                      /\ flow'[n].asked = flow[n].asked /\ flow'[n].kind # "none"
       /\ flow[n].kind = "gone" => flow'[n].kind = "gone"
       /\ consent[n] # Nobody => consent'[n] = consent[n]
       /\ stored[n] <= stored'[n]
  /\ nextId <= nextId' /\ unnamed \subseteq unnamed'
  /\ \A r \in tokens' : r.id < nextId => \E q \in tokens : q.id = r.id /\ q.from = r.from

\* Of a flow, all that others rely on stays.
LEMMA FlowKept ==
  ASSUME FlowsOk, Grows, NEW n, Consented(n)
  PROVE  /\ Consented(n)' /\ flow'[n].key = flow[n].key /\ flow'[n].asked = flow[n].asked
         /\ Labels(n) \subseteq Labels(n)'
<1>1. Begun(n)
  BY DEF FlowsOk, Consented
<1> QED  BY <1>1 DEF Grows, Consented, Labels, FlowsOk

LEMMA OfKept ==
  ASSUME FlowsOk, Grows, NEW r, NEW n, Of(r, n)
  PROVE  Of(r, n)'
<1>1. Consented(n)
  BY DEF Of
<1> QED  BY <1>1, FlowKept DEF Of

LEMMA WorkKept ==
  ASSUME OAuthTypeOK, OAuthTypeOK', FlowsOk, Grows, NEW w \in Handler, WorkOk(w),
         w.pc = "exchange" => stored'[w.n] = stored[w.n]
  PROVE  WorkOk(w)'
<1>1. Consented(w.n) => /\ Consented(w.n)' /\ flow'[w.n].key = flow[w.n].key /\ flow'[w.n].asked = flow[w.n].asked
                        /\ Labels(w.n) \subseteq Labels(w.n)' /\ w.n \in FlowIds
  BY FlowKept DEF Consented
<1>2. w.pc = "refresh" => w.id < nextId' /\ \A r \in tokens' : r.id = w.id => r.from = w.n
  <2> SUFFICES ASSUME w.pc = "refresh"
               PROVE  w.id < nextId' /\ \A r \in tokens' : r.id = w.id => r.from = w.n
    OBVIOUS
  <2>1. w.id < nextId /\ w.id \in Nat /\ nextId \in Nat /\ nextId' \in Nat
    BY DEF WorkOk, OAuthTypeOK, Handler
  <2>2. w.id < nextId'
    BY <2>1 DEF Grows
  <2>3. ASSUME NEW r \in tokens', r.id = w.id PROVE r.from = w.n
    <3>1. PICK q \in tokens : q.id = r.id /\ q.from = r.from
      BY <2>1, <2>3 DEF Grows
    <3> QED  BY <2>3, <3>1 DEF WorkOk
  <2> QED  BY <2>2, <2>3
<1>3. w.pc \in {"grant", "grant_pop"} => stored'[w.n] > 0
  <2>1. w.n \in FlowIds => stored[w.n] \in Nat /\ stored'[w.n] \in Nat /\ stored[w.n] <= stored'[w.n]
    BY DEF OAuthTypeOK, Grows
  <2> QED  BY <1>1, <2>1 DEF WorkOk
<1>4. w.pc = "exchange" => flow'[w.n].kind = "gone" /\ stored'[w.n] = 0
  BY <1>1 DEF WorkOk, Grows
<1> QED  BY <1>1, <1>2, <1>3, <1>4 DEF WorkOk

\* A step of handler t keeps what the others carry.
LEMMA WorksKept ==
  ASSUME OAuthTypeOK, OAuthTypeOK', FlowsOk, WorksOk, Grows, NEW t \in Tasks,
         \A u \in Tasks \ {t} : /\ task'[u] = task[u]
                                /\ At(u, "exchange") => stored'[task[u].n] = stored[task[u].n],
         task'[t] # Idle => WorkOk(task[t])',
         At(t, "exchange")' => \A u \in Tasks \ {t} : At(u, "exchange") => task[u].n # task'[t].n
  PROVE  WorksOk'
<1>1. ASSUME NEW u \in Tasks, task'[u] # Idle, u # t PROVE WorkOk(task[u])'
  <2>1. PICK w \in Handler : w = task[u] /\ w = task'[u]
    BY <1>1 DEF OAuthTypeOK
  <2>2. WorkOk(w)
    BY <1>1, <2>1 DEF WorksOk
  <2>3. w.pc = "exchange" => stored'[w.n] = stored[w.n]
    BY <1>1, <2>1 DEF At
  <2>4. WorkOk(w)'
    BY <2>2, <2>3, WorkKept
  <2> QED  BY <2>1, <2>4 DEF WorkOk, Consented, Labels
<1>2. ASSUME NEW u \in Tasks, NEW v \in Tasks, At(u, "exchange")', At(v, "exchange")', task'[u].n = task'[v].n
      PROVE  u = v
  <2>1. CASE u # t /\ v # t
    BY <1>2, <2>1 DEF WorksOk, At
  <2>2. CASE u = t \/ v = t
    BY <1>2, <2>2 DEF At
  <2> QED  BY <2>1, <2>2
<1> QED  BY <1>1, <1>2 DEF WorksOk

\* Nobody's step.
LEMMA WorksStay ==
  ASSUME OAuthTypeOK, OAuthTypeOK', FlowsOk, WorksOk, Grows, UNCHANGED <<task, stored>>
  PROVE  WorksOk'
<1>1. ASSUME NEW u \in Tasks, task'[u] # Idle PROVE WorkOk(task[u])'
  <2>1. PICK w \in Handler : w = task[u] /\ w = task'[u]
    BY <1>1 DEF OAuthTypeOK
  <2>2. WorkOk(w)
    BY <1>1, <2>1 DEF WorksOk
  <2>3. WorkOk(w)'
    BY <2>2, WorkKept
  <2> QED  BY <2>1, <2>3 DEF WorkOk, Consented, Labels
<1> QED  BY <1>1 DEF WorksOk, At

\* Rows are deleted.
LEMMA RowsKept ==
  ASSUME FlowsOk, RowsOk, Grows, tokens' \subseteq tokens, nextId' = nextId
  PROVE  RowsOk'
<1>1. ASSUME NEW r \in tokens' PROVE Of(r, r.from)' /\ Of(r, r.access)'
  <2>1. PICK m, n : m = r.from /\ n = r.access
    OBVIOUS
  <2>2. Of(r, m) /\ Of(r, n)
    BY <1>1, <2>1 DEF RowsOk
  <2>3. Of(r, m)' /\ Of(r, n)'
    BY <2>2, OfKept
  <2> QED  BY <2>1, <2>3
<1> QED  BY <1>1 DEF RowsOk

LEMMA GrantsKept ==
  ASSUME OAuthTypeOK, OAuthTypeOK', FlowsOk, GrantsAreConsented, Grows,
         grants' \subseteq grants, \A g \in grants' : g[1] \in installed'
  PROVE  GrantsAreConsented'
<1> SUFFICES ASSUME NEW g \in grants'
             PROVE  /\ g[1] \in installed'
                    /\ \E n \in FlowIds : /\ flow'[n].asked = g[1] /\ flow'[n].key = g[2]
                                          /\ g[3] \in Labels(n)' /\ consent'[n] # Nobody /\ stored'[n] > 0
  BY DEF GrantsAreConsented
<1>1. PICK n \in FlowIds : /\ flow[n].asked = g[1] /\ flow[n].key = g[2]
                           /\ g[3] \in Labels(n) /\ consent[n] # Nobody /\ stored[n] > 0
  BY DEF GrantsAreConsented
<1>2. Consented(n)
  BY <1>1 DEF Consented
<1>3. stored[n] \in Nat /\ stored'[n] \in Nat /\ stored[n] <= stored'[n]
  BY DEF OAuthTypeOK, Grows
<1>4. stored'[n] > 0
  BY <1>1, <1>3
<1> QED  BY <1>1, <1>2, <1>4, FlowKept DEF Consented

-----------------------------------------------------------------------------
(* Steps of handlers that change nothing else.                               *)

LEMMA NothingMoves ==
  ASSUME OAuthTypeOK, FlowsOk, UNCHANGED <<flow, made, consent, stored, unnamed>>
  PROVE  /\ FlowsOk'
         /\ tokens' \subseteq tokens /\ nextId' = nextId => Grows
<1>1. FlowsOk'
  BY DEF FlowsOk, Begun, Pending, Active
<1>2. \A n \in FlowIds : stored[n] <= stored'[n]
  BY DEF OAuthTypeOK
<1>3. nextId <= nextId
  BY DEF OAuthTypeOK
<1> QED  BY <1>1, <1>2, <1>3 DEF Grows, Begun

\* Handler t goes on with w, or is through.
LEMMA GoesOn ==
  ASSUME OAuthInv, NEW t \in Tasks, NEW w \in Handler \cup {Idle}, Enter(t, w),
         w # Idle => w \in Handler /\ WorkOk(w) /\ w.pc # "exchange",
         UNCHANGED <<routerVars, tableVars, flow, made, consent>>
  PROVE  OAuthInv'
<1> USE DEF OAuthInv, routerVars, tableVars
<1>1. OAuthTypeOK'
  BY DEF OAuthTypeOK, Enter
<1>2. FlowsOk' /\ Grows
  BY NothingMoves
<1>3. RowsOk'
  BY <1>2, RowsKept
<1>4. w # Idle => WorkOk(w)'
  BY <1>1, <1>2, WorkKept
<1>5. task'[t] = w /\ \A u \in Tasks \ {t} : task'[u] = task[u]
  BY DEF Enter, OAuthTypeOK
<1>6. task'[t] # Idle => WorkOk(task[t])'
  BY <1>4, <1>5 DEF WorkOk, Consented, Labels
<1>7. WorksOk'
  BY <1>1, <1>2, <1>5, <1>6, WorksKept DEF At
<1>8. GrantsAreConsented'
  BY <1>1, <1>2, GrantsKept DEF GrantsAreConsented
<1> QED  BY <1>1, <1>2, <1>3, <1>7, <1>8

LEMMA WorkTyped ==
  ASSUME NEW pc \in {"authorize", "refresh", "exchange", "identify", "revoke", "delete"}, NEW k \in Keys
  PROVE  Work(pc, k) \in Handler /\ Work(pc, k).pc = pc /\ Work(pc, k).key = k
BY DEF Work, Handler

\* The row that is taken is one of those there are.
LEMMA TakenRow ==
  ASSUME OAuthTypeOK, NEW k, NEW x,
         NEW r, \/ Rows(k, x) # {} /\ r = FirstOf(Rows(k, x))
                \/ LabelledRows(k, x) # {} /\ r = FirstOf(LabelledRows(k, x))
  PROVE  r \in tokens /\ r.key = k /\ r \in Token
<1>1. \A q \in tokens : q.id \in Nat
  BY DEF OAuthTypeOK, Token
<1>2. CASE Rows(k, x) # {} /\ r = FirstOf(Rows(k, x))
  <2>1. r \in Rows(k, x)
    BY <1>1, <1>2, FirstIn DEF Rows, LabelledRows
  <2> QED  BY <2>1 DEF Rows, LabelledRows, OAuthTypeOK
<1>3. CASE LabelledRows(k, x) # {} /\ r = FirstOf(LabelledRows(k, x))
  <2>1. r \in LabelledRows(k, x)
    BY <1>1, <1>3, FirstIn DEF LabelledRows
  <2> QED  BY <2>1 DEF LabelledRows, OAuthTypeOK
<1> QED  BY <1>2, <1>3

LEMMA AsksKeep ==
  ASSUME OAuthInv, NEW t \in Tasks, NEW c \in Apps, NEW k \in Keys, NEW x \in Accounts \cup {Default},
         AskNone(t, c, k, x) \/ AskStale(t, c, k, x) \/ AskNew(t, c, k) \/ Begin(t, c, k)
  PROVE  OAuthInv'
<1>1. CASE AskNone(t, c, k, x)
  <2>1. PICK w \in Handler : w = [Work("authorize", k) EXCEPT !.account = x]
    BY DEF Work, Handler, Named
  <2>2. w.pc = "authorize" /\ w.key = k /\ w.account = x
    BY <2>1 DEF Work
  <2>3. WorkOk(w)
    BY <1>1, <2>2 DEF WorkOk, AskNone, Named
  <2> QED  BY <1>1, <2>1, <2>2, <2>3, GoesOn DEF AskNone, upstreamVars
<1>2. CASE AskStale(t, c, k, x)
  <2>1. PICK r : r = FirstOf(Rows(k, x))
    OBVIOUS
  <2>2. r \in tokens /\ r.key = k /\ r \in Token
    BY <1>2, <2>1, TakenRow DEF AskStale, OAuthInv
  <2>3. PICK w : w = [Work("refresh", k) EXCEPT !.id = r.id, !.n = r.from, !.account = x]
    OBVIOUS
  <2>4. w \in Handler
    <3>1. r.id \in Nat /\ r.from \in Nat
      BY <2>2, OAuthAssumption DEF Token, FlowIds
    <3>2. Work("refresh", k) \in Handler
      BY WorkTyped
    <3> QED  BY <2>3, <3>1, <3>2 DEF Handler, Named
  <2>5. w.pc = "refresh" /\ w.key = k /\ w.account = x /\ w.id = r.id /\ w.n = r.from
    BY <2>3 DEF Work
  <2>6. WorkOk(w)
    <3>1. Consented(r.from) /\ k = flow[r.from].key /\ r.id < nextId /\ k \notin DeviceKeys
      BY <1>2, <2>1, <2>2 DEF AskStale, OAuthInv, RowsOk, Of
    <3>2. \A q \in tokens : q.id = r.id => q.from = r.from
      BY <2>2 DEF OAuthInv, RowsOk
    <3> QED  BY <2>5, <3>1, <3>2 DEF WorkOk, Named
  <2> QED  BY <1>2, <2>1, <2>3, <2>4, <2>5, <2>6, GoesOn DEF AskStale, upstreamVars
<1>3. CASE AskNew(t, c, k)
  <2>1. PICK w : w = [Work("authorize", k) EXCEPT !.app = c, !.account = New]
    OBVIOUS
  <2>2. w \in Handler /\ w.pc = "authorize" /\ w.key = k /\ w.account = New
    BY <2>1 DEF Work, Handler, Named
  <2>3. WorkOk(w)
    BY <1>3, <2>2 DEF WorkOk, AskNew, Named
  <2> QED  BY <1>3, <2>1, <2>2, <2>3, GoesOn DEF AskNew, upstreamVars
<1>4. CASE Begin(t, c, k)
  <2>1. PICK w : w = [Work("authorize", k) EXCEPT !.app = c, !.account = Default]
    OBVIOUS
  <2>2. w \in Handler /\ w.pc = "authorize" /\ w.key = k /\ w.account = Default
    BY <2>1 DEF Work, Handler, Named
  <2>3. WorkOk(w)
    BY <1>4, <2>2 DEF WorkOk, Begin, Named
  <2> QED  BY <1>4, <2>1, <2>2, <2>3, GoesOn DEF Begin, upstreamVars
<1> QED  BY <1>1, <1>2, <1>3, <1>4

LEMMA AtWork ==
  ASSUME OAuthInv, NEW t \in Tasks, task[t] # Idle
  PROVE  task[t] \in Handler /\ WorkOk(task[t])
BY DEF OAuthInv, OAuthTypeOK, WorksOk

\* Handlers that fail, or only go on.
LEMMA HandlersKeep ==
  ASSUME OAuthInv, NEW t \in Tasks,
         \/ RefreshFails(t) \/ NoCredentials(t) \/ ExchangeFails(t) \/ GrantFails(t) \/ RevokeUpstream(t)
         \/ \E n \in FlowIds : DevicePoll(t, n)
         \/ \E r \in tokens : DeleteToken(t, r)
  PROVE  OAuthInv'
<1>1. CASE NoCredentials(t) \/ ExchangeFails(t) \/ GrantFails(t) \/ RevokeUpstream(t)
  <2>1. Enter(t, Idle) /\ UNCHANGED <<routerVars, tableVars, flow, made, consent>>
    BY <1>1 DEF NoCredentials, ExchangeFails, GrantFails, RevokeUpstream, Leave, Enter, upstreamVars
  <2> QED  BY <2>1, GoesOn
<1>2. CASE RefreshFails(t)
  <2>1. task[t] \in Handler /\ WorkOk(task[t]) /\ task[t].pc = "refresh"
    BY <1>2, AtWork DEF RefreshFails, At
  <2>2. task[t].key \in Keys \ DeviceKeys /\ task[t].account \in Named
    BY <2>1 DEF WorkOk, Handler
  <2>3. PICK w : w = [Work("authorize", task[t].key) EXCEPT !.account = task[t].account]
    OBVIOUS
  <2>4. w \in Handler /\ w.pc = "authorize" /\ w.key = task[t].key /\ w.account = task[t].account
    BY <2>2, <2>3 DEF Work, Handler
  <2>5. WorkOk(w)
    BY <2>2, <2>4 DEF WorkOk
  <2> QED  BY <1>2, <2>3, <2>4, <2>5, GoesOn DEF RefreshFails, upstreamVars
<1>3. CASE \E n \in FlowIds : DevicePoll(t, n)
  <2>1. PICK n \in FlowIds : DevicePoll(t, n)
    BY <1>3
  <2>2. /\ flow[n].key \in Keys \cap DeviceKeys /\ flow[n].app \in Apps \cup {NoApp}
        /\ consent[n] # Nobody /\ flow[n].app = flow[n].asked /\ n \in Nat
    <3>1. n \in Nat /\ flow[n].app \in Apps \cup {NoApp}
      BY OAuthAssumption DEF OAuthInv, OAuthTypeOK, Flow, FlowIds
    <3>2. Active(n) /\ flow[n].status = "completed" /\ Begun(n)
      BY <2>1 DEF DevicePoll, Active, Begun
    <3> QED  BY <3>1, <3>2 DEF OAuthInv, FlowsOk
  <2>3. PICK w : w = [Work("identify", flow[n].key) EXCEPT !.n = n, !.app = flow[n].app]
    OBVIOUS
  <2>4. w \in Handler /\ w.pc = "identify" /\ w.key = flow[n].key /\ w.n = n /\ w.app = flow[n].app
    BY <2>2, <2>3 DEF Work, Handler
  <2>5. WorkOk(w)
    BY <2>2, <2>4 DEF WorkOk, Consented
  <2> QED  BY <2>1, <2>3, <2>4, <2>5, GoesOn DEF DevicePoll, upstreamVars
<1>4. CASE \E r \in tokens : DeleteToken(t, r)
  <2>1. PICK r \in tokens : DeleteToken(t, r)
    BY <1>4
  <2>2. r.key \in Keys /\ r.id \in Nat /\ r.from \in Nat
    BY OAuthAssumption DEF OAuthInv, OAuthTypeOK, Token, FlowIds
  <2>3. PICK w : w = [Work("delete", r.key) EXCEPT !.id = r.id, !.n = r.from]
    OBVIOUS
  <2>4. w \in Handler /\ w.pc = "delete"
    BY <2>2, <2>3 DEF Work, Handler
  <2>5. WorkOk(w)
    BY <2>4 DEF WorkOk
  <2> QED  BY <2>1, <2>3, <2>4, <2>5, GoesOn DEF DeleteToken, upstreamVars
<1> QED  BY <1>1, <1>2, <1>3, <1>4

-----------------------------------------------------------------------------
(* Steps that change rows: they are refreshed, go out of date, are deleted.  *)

\* Handler t goes on with w, which has nothing to do with a flow any more.
Ends(t, w) ==
  /\ task' = [task EXCEPT ![t] = w]
  /\ w # Idle => w \in Handler /\ w.pc \in {"revoke", "delete"}

LEMMA RowsChange ==
  ASSUME OAuthInv, UNCHANGED task \/ \E t \in Tasks, w \in Handler \cup {Idle} : Ends(t, w),
         tokens' \subseteq Token,
         \A r \in tokens' : /\ \E q \in tokens : q.id = r.id /\ q.from = r.from
                            /\ Of(r, r.from) /\ Of(r, r.access)
                            /\ r.key \in DeviceKeys => r.fresh,
         \A r, q \in tokens' : r.id = q.id => r = q,
         UNCHANGED <<routerVars, nextId, stored, unnamed, flow, made, consent>>
  PROVE  OAuthInv'
<1> USE DEF OAuthInv, routerVars
<1>1. OAuthTypeOK'
  BY DEF OAuthTypeOK, Ends
<1>2. FlowsOk'
  BY NothingMoves
<1>3. Grows
  <2>1. \A n \in FlowIds : stored[n] <= stored'[n]
    BY DEF OAuthTypeOK
  <2>2. nextId <= nextId'
    BY DEF OAuthTypeOK
  <2> QED  BY <2>1, <2>2 DEF Grows, Begun
<1>4. RowsOk'
  <2>1. ASSUME NEW r \in tokens' PROVE r.id < nextId'
    BY <2>1 DEF RowsOk
  <2>2. ASSUME NEW r \in tokens' PROVE Of(r, r.from)' /\ Of(r, r.access)'
    <3>1. PICK m, n : m = r.from /\ n = r.access
      OBVIOUS
    <3>2. Of(r, m)' /\ Of(r, n)'
      BY <1>3, <2>2, <3>1, OfKept
    <3> QED  BY <3>1, <3>2
  <2> QED  BY <2>1, <2>2 DEF RowsOk
<1>7. WorksOk'
  <2>1. CASE UNCHANGED task
    BY <1>1, <1>3, <2>1, WorksStay
  <2>2. ASSUME NEW t \in Tasks, NEW w \in Handler \cup {Idle}, Ends(t, w) PROVE WorksOk'
    <3>1. task'[t] = w /\ \A u \in Tasks \ {t} : task'[u] = task[u]
      BY <2>2 DEF OAuthTypeOK, Ends
    <3>2. task'[t] # Idle => WorkOk(task[t])'
      BY <2>2, <3>1 DEF WorkOk, Ends
    <3>3. ~At(t, "exchange")'
      BY <2>2, <3>1 DEF At, Ends
    <3> QED  BY <1>1, <1>3, <3>1, <3>2, <3>3, WorksKept
  <2> QED  BY <2>1, <2>2
<1>8. GrantsAreConsented'
  BY <1>1, <1>3, GrantsKept DEF GrantsAreConsented
<1> QED  BY <1>1, <1>2, <1>4, <1>7, <1>8

LEMMA RowStepsKeep ==
  ASSUME OAuthInv,
         \/ \E t \in Tasks : Refresh(t) \/ Delete(t)
         \/ \E t \in Tasks, c \in Apps, k \in Keys, x \in Accounts \cup {Default, New} : RevokeToken(t, c, k, x)
         \/ \E r \in tokens : Expire(r)
  PROVE  OAuthInv'
<1>1. ASSUME NEW t \in Tasks, Refresh(t) PROVE OAuthInv'
  <2>1. PICK w : w = task[t] /\ w \in Handler /\ WorkOk(w) /\ w.pc = "refresh"
    BY <1>1, AtWork DEF Refresh, At
  <2>2. /\ Consented(w.n) /\ w.n \in FlowIds /\ w.key = flow[w.n].key
        /\ \A r \in tokens : r.id = w.id => r.from = w.n
    BY <2>1 DEF WorkOk, Consented
  <2>3. tokens' = {IF r.id = w.id THEN [r EXCEPT !.fresh = TRUE, !.access = w.n] ELSE r : r \in tokens}
    BY <1>1, <2>1 DEF Refresh, OfId
  <2>4. ASSUME NEW q \in tokens'
        PROVE  /\ q \in Token
               /\ \E r \in tokens : /\ r.id = q.id /\ r.from = q.from
                                    /\ q \in {r, [r EXCEPT !.fresh = TRUE, !.access = w.n]}
                                    /\ q = IF r.id = w.id THEN [r EXCEPT !.fresh = TRUE, !.access = w.n] ELSE r
               /\ Of(q, q.from) /\ Of(q, q.access)
               /\ q.key \in DeviceKeys => q.fresh
    <3>1. PICK r \in tokens : q = IF r.id = w.id THEN [r EXCEPT !.fresh = TRUE, !.access = w.n] ELSE r
      BY <2>3
    <3>2. /\ r \in Token /\ Of(r, r.from) /\ Of(r, r.access)
          /\ r.key \in DeviceKeys => r.fresh
      BY DEF OAuthInv, OAuthTypeOK, RowsOk
    <3>3. CASE r.id = w.id
      <4>1. q = [r EXCEPT !.fresh = TRUE, !.access = w.n] /\ r.from = w.n
        BY <2>2, <3>1, <3>3
      <4>2. q \in Token
        BY <2>2, <3>2, <4>1 DEF Token
      <4>3. /\ q.fresh = TRUE /\ q.access = w.n /\ q.from = w.n
            /\ q.key = r.key /\ q.account = r.account /\ q.id = r.id
        BY <3>2, <4>1 DEF Token
      <4>4. Of(q, w.n)
        BY <3>2, <4>1, <4>3 DEF Of
      <4> QED  BY <3>1, <4>1, <4>2, <4>3, <4>4
    <3>4. CASE r.id # w.id
      BY <3>1, <3>2, <3>4
    <3> QED  BY <3>3, <3>4
  <2>5. \A r, q \in tokens' : r.id = q.id => r = q
    <3> SUFFICES ASSUME NEW r \in tokens', NEW q \in tokens', r.id = q.id PROVE r = q
      OBVIOUS
    <3>1. PICK x \in tokens : x.id = r.id /\ r = IF x.id = w.id THEN [x EXCEPT !.fresh = TRUE, !.access = w.n] ELSE x
      BY <2>4
    <3>2. PICK y \in tokens : y.id = q.id /\ q = IF y.id = w.id THEN [y EXCEPT !.fresh = TRUE, !.access = w.n] ELSE y
      BY <2>4
    <3>3. x = y
      BY <3>1, <3>2 DEF OAuthInv, RowsOk
    <3> QED  BY <3>1, <3>2, <3>3
  <2>6. Ends(t, Idle)
    BY <1>1 DEF Refresh, Leave, Ends
  <2>7. UNCHANGED <<routerVars, nextId, stored, unnamed, flow, made, consent>>
    BY <1>1 DEF Refresh, upstreamVars
  <2> QED  BY <2>4, <2>5, <2>6, <2>7, RowsChange
<1>2. ASSUME tokens' \subseteq tokens, UNCHANGED <<routerVars, nextId, stored, unnamed, flow, made, consent>>,
             NEW t \in Tasks, NEW w \in Handler, Ends(t, w)
      PROVE  OAuthInv'
  <2>1. \A r \in tokens' : /\ r \in Token /\ Of(r, r.from) /\ Of(r, r.access)
                           /\ r.key \in DeviceKeys => r.fresh
    BY <1>2 DEF OAuthInv, OAuthTypeOK, RowsOk
  <2>2. \A r, q \in tokens' : r.id = q.id => r = q
    BY <1>2 DEF OAuthInv, RowsOk
  <2> QED  BY <1>2, <2>1, <2>2, RowsChange
<1>3. ASSUME NEW t \in Tasks, Delete(t) PROVE OAuthInv'
  <2>1. PICK w : w = [task[t] EXCEPT !.pc = "revoke"]
    OBVIOUS
  <2>2. w \in Handler /\ w.pc = "revoke"
    BY <1>3, <2>1, AtWork DEF Delete, At, Handler
  <2>3. Ends(t, w)
    BY <1>3, <2>1, <2>2 DEF Delete, Ends, OAuthInv, OAuthTypeOK
  <2> QED  BY <1>2, <1>3, <2>2, <2>3 DEF Delete, upstreamVars
<1>4. ASSUME NEW t \in Tasks, NEW c \in Apps, NEW k \in Keys, NEW x \in Accounts \cup {Default, New},
             RevokeToken(t, c, k, x)
      PROVE  OAuthInv'
  <2>1. PICK r : r = FirstOf(LabelledRows(k, x))
    OBVIOUS
  <2>2. r \in Token
    BY <1>4, <2>1, TakenRow DEF RevokeToken, OAuthInv
  <2>3. PICK w : w = [Work("revoke", k) EXCEPT !.n = r.from]
    OBVIOUS
  <2>4. w \in Handler /\ w.pc = "revoke"
    <3>1. r.from \in Nat
      BY <2>2, OAuthAssumption DEF Token, FlowIds
    <3> QED  BY <2>3, <3>1 DEF Work, Handler
  <2>5. Ends(t, w) /\ tokens' \subseteq tokens
    BY <1>4, <2>1, <2>3, <2>4 DEF RevokeToken, Ends, Enter
  <2> QED  BY <1>2, <1>4, <2>4, <2>5 DEF RevokeToken, upstreamVars
<1>5. ASSUME NEW r \in tokens, Expire(r) PROVE OAuthInv'
  <2>1. PICK o : o = [r EXCEPT !.fresh = FALSE]
    OBVIOUS
  <2>2. /\ r \in Token /\ Of(r, r.from) /\ Of(r, r.access) /\ r.key \notin DeviceKeys
        /\ tokens' = (tokens \ {r}) \cup {o}
    BY <1>5, <2>1 DEF OAuthInv, OAuthTypeOK, RowsOk, Expire
  <2>3. /\ o \in Token /\ o.id = r.id /\ o.from = r.from /\ o.access = r.access
        /\ o.key = r.key /\ o.account = r.account
    BY <2>1, <2>2 DEF Token
  <2>4. Of(o, o.from) /\ Of(o, o.access)
    BY <2>2, <2>3 DEF Of
  <2>5. ASSUME NEW q \in tokens'
        PROVE  /\ q \in Token /\ \E p \in tokens : p.id = q.id /\ p.from = q.from
               /\ Of(q, q.from) /\ Of(q, q.access)
               /\ q.key \in DeviceKeys => q.fresh
    <3>1. CASE q = o
      BY <2>2, <2>3, <2>4, <3>1
    <3>2. CASE q \in tokens
      BY <3>2 DEF OAuthInv, OAuthTypeOK, RowsOk
    <3> QED  BY <2>2, <2>5, <3>1, <3>2
  <2>6. \A p, q \in tokens' : p.id = q.id => p = q
    <3>1. \A q \in tokens \ {r} : q.id # r.id
      BY DEF OAuthInv, RowsOk
    <3> QED  BY <2>2, <2>3, <3>1 DEF OAuthInv, RowsOk
  <2>7. UNCHANGED <<routerVars, nextId, stored, unnamed, flow, made, consent, task>>
    BY <1>5 DEF Expire, upstreamVars
  <2> QED  BY <2>5, <2>6, <2>7, RowsChange
<1> QED  BY <1>1, <1>3, <1>4, <1>5

-----------------------------------------------------------------------------
(* Steps that change flows: they begin, are consented to, and are popped.    *)

LEMMA FlowsChange ==
  ASSUME OAuthInv, OAuthTypeOK', FlowsOk', Grows, WorksOk', UNCHANGED <<routerVars, tableVars>>
  PROVE  OAuthInv'
<1>1. RowsOk'
  BY RowsKept DEF OAuthInv, tableVars
<1>2. GrantsAreConsented'
  BY GrantsKept DEF OAuthInv, routerVars, GrantsAreConsented
<1> QED  BY <1>1, <1>2 DEF OAuthInv

\* Flows end or are answered, and are still known by what they were for.
Answered ==
  \A n \in FlowIds :
    /\ flow'[n].key = flow[n].key /\ flow'[n].account = flow[n].account
    /\ flow'[n].app = flow[n].app /\ flow'[n].asked = flow[n].asked
    /\ flow'[n].kind = flow[n].kind \/ (Begun(n) /\ flow'[n].kind = "gone")
    /\ flow'[n].status = flow[n].status \/ flow'[n].status = "error"
         \/ (flow'[n].status = "completed" /\ consent[n] # Nobody)

LEMMA AnswersKeep ==
  ASSUME OAuthInv, Answered, UNCHANGED <<tableVars, made, consent>>
  PROVE  FlowsOk' /\ Grows
<1> USE DEF OAuthInv, tableVars
<1>1. ASSUME NEW n \in FlowIds
      PROVE  /\ Begun(n)' <=> Begun(n)
             /\ Pending(n)' => Pending(n)
             /\ Active(n)' => Active(n)
             /\ Active(n)' /\ flow'[n].status = "completed" => consent[n] # Nobody
             /\ flow[n].kind = "gone" => flow'[n].kind = "gone"
  BY <1>1 DEF Answered, Begun, Pending, Active, FlowsOk
<1>2. FlowsOk'
  <2> SUFFICES ASSUME NEW n \in FlowIds
               PROVE  /\ Begun(n)' <=> n <= made'
                      /\ consent'[n] # Nobody \/ stored'[n] > 0 => Begun(n)'
                      /\ Begun(n)' => flow'[n].key \in Keys /\ flow'[n].account \in Named
                      /\ flow'[n].app = flow'[n].asked
                      /\ Pending(n)' => flow'[n].key \notin DeviceKeys /\ stored'[n] = 0
                      /\ Active(n)' => flow'[n].key \in DeviceKeys
                      /\ Active(n)' /\ flow'[n].status = "completed" => consent'[n] # Nobody
                      /\ flow'[n].key \notin DeviceKeys => stored'[n] <= 1
    BY DEF FlowsOk
  <2>1. /\ flow'[n].key = flow[n].key /\ flow'[n].account = flow[n].account
        /\ flow'[n].app = flow[n].app /\ flow'[n].asked = flow[n].asked
    BY DEF Answered
  <2> QED  BY <1>1, <2>1 DEF FlowsOk
<1>3. \A n \in FlowIds : stored[n] <= stored'[n]
  BY DEF OAuthTypeOK
<1>4. nextId <= nextId'
  BY DEF OAuthTypeOK
<1> QED  BY <1>1, <1>2, <1>3, <1>4 DEF Grows, Answered, Begun

\* One flow is popped, or answered.
LEMMA OneAnswered ==
  ASSUME OAuthInv, NEW n \in FlowIds, Begun(n),
         \/ flow' = Popped(n)
         \/ flow' = [flow EXCEPT ![n].status = "completed"] /\ consent[n] # Nobody
         \/ flow' = [flow EXCEPT ![n].status = "error"]
  PROVE  Answered /\ flow' \in [FlowIds -> Flow]
<1>1. flow \in [FlowIds -> Flow]
  BY DEF OAuthInv, OAuthTypeOK
<1>2. CASE flow' = Popped(n)
  BY <1>1, <1>2 DEF Popped, Answered, Flow
<1>3. CASE flow' = [flow EXCEPT ![n].status = "completed"] /\ consent[n] # Nobody
  BY <1>1, <1>3 DEF Answered, Flow
<1>4. CASE flow' = [flow EXCEPT ![n].status = "error"]
  BY <1>1, <1>4 DEF Answered, Flow
<1> QED  BY <1>2, <1>3, <1>4

LEMMA AnswerStepsKeep ==
  ASSUME OAuthInv,
         \/ \E n \in FlowIds : PollDone(n) \/ PollError(n) \/ DevicePollError(n) \/ CallbackIncomplete(n)
         \/ \E t \in Tasks : DeviceOver(t)
         \/ \E t \in Tasks, n \in FlowIds : Callback(t, n)
         \/ Restart
  PROVE  OAuthInv'
<1> USE DEF OAuthInv
<1>1. ASSUME NEW n \in FlowIds, PollDone(n) \/ PollError(n) \/ DevicePollError(n) \/ CallbackIncomplete(n)
      PROVE  OAuthInv'
  <2>1. Begun(n)
    BY <1>1 DEF PollDone, PollError, DevicePollError, CallbackIncomplete, Active, Pending, Begun
  <2>2. Answered /\ flow' \in [FlowIds -> Flow]
    BY <1>1, <2>1, OneAnswered DEF PollDone, PollError, DevicePollError, CallbackIncomplete
  <2>3. UNCHANGED <<routerVars, tableVars, made, consent, task>>
    BY <1>1 DEF PollDone, PollError, DevicePollError, CallbackIncomplete, upstreamVars
  <2>4. OAuthTypeOK'
    BY <2>2, <2>3 DEF OAuthTypeOK, routerVars, tableVars
  <2>5. FlowsOk' /\ Grows
    BY <2>2, <2>3, AnswersKeep
  <2>6. WorksOk'
    BY <2>3, <2>4, <2>5, WorksStay DEF tableVars
  <2> QED  BY <2>3, <2>4, <2>5, <2>6, FlowsChange
<1>2. ASSUME NEW t \in Tasks, DeviceOver(t) PROVE OAuthInv'
  <2>1. PICK n : n = task[t].n /\ Consented(n) /\ n \in FlowIds
    BY <1>2, AtWork DEF DeviceOver, At, WorkOk, Consented
  <2>2. Begun(n)
    BY <2>1 DEF Consented, FlowsOk
  <2>3. Answered /\ flow' \in [FlowIds -> Flow]
    BY <1>2, <2>1, <2>2, OneAnswered DEF DeviceOver
  <2>4. UNCHANGED <<routerVars, tableVars, made, consent>> /\ task' = [task EXCEPT ![t] = Idle]
    BY <1>2 DEF DeviceOver, upstreamVars, Leave
  <2>5. OAuthTypeOK'
    BY <2>3, <2>4 DEF OAuthTypeOK, routerVars, tableVars
  <2>6. FlowsOk' /\ Grows
    BY <2>3, <2>4, AnswersKeep
  <2>7. task'[t] = Idle /\ \A u \in Tasks \ {t} : task'[u] = task[u]
    BY <2>4 DEF OAuthTypeOK
  <2>8. WorksOk'
    BY <2>4, <2>5, <2>6, <2>7, WorksKept DEF At, tableVars
  <2> QED  BY <2>4, <2>5, <2>6, <2>8, FlowsChange
<1>3. ASSUME NEW t \in Tasks, NEW n \in FlowIds, Callback(t, n) PROVE OAuthInv'
  <2>1. Begun(n) /\ Consented(n) /\ flow' = Popped(n) /\ Pending(n)
    BY <1>3 DEF Callback, Pending, Begun, Consented
  <2>2. Answered /\ flow' \in [FlowIds -> Flow]
    BY <2>1, OneAnswered
  <2>3. /\ flow[n].key \in Keys /\ flow[n].key \notin DeviceKeys /\ stored[n] = 0
        /\ flow[n].app \in Apps \cup {NoApp} /\ flow[n].app = flow[n].asked /\ n \in Nat
    <3>1. n \in Nat /\ flow[n].app \in Apps \cup {NoApp}
      BY OAuthAssumption DEF OAuthTypeOK, Flow, FlowIds
    <3> QED  BY <2>1, <3>1 DEF FlowsOk
  <2>4. PICK w : w = [Work("exchange", flow[n].key) EXCEPT !.n = n, !.app = flow[n].app]
    OBVIOUS
  <2>5. w \in Handler /\ w.pc = "exchange" /\ w.key = flow[n].key /\ w.n = n /\ w.app = flow[n].app
    BY <2>3, <2>4 DEF Work, Handler
  <2>6. UNCHANGED <<routerVars, tableVars, made, consent>> /\ task' = [task EXCEPT ![t] = w]
    BY <1>3, <2>4 DEF Callback, upstreamVars, Enter
  <2>7. OAuthTypeOK'
    BY <2>2, <2>5, <2>6 DEF OAuthTypeOK, routerVars, tableVars
  <2>8. FlowsOk' /\ Grows
    BY <2>2, <2>6, AnswersKeep
  <2>9. task'[t] = w /\ \A u \in Tasks \ {t} : task'[u] = task[u]
    BY <2>6 DEF OAuthTypeOK
  <2>10. WorkOk(task[t])'
    <3>1. flow'[n].kind = "gone" /\ flow'[n].key = flow[n].key /\ flow'[n].asked = flow[n].asked
      BY <2>1, <2>2 DEF Popped, OAuthTypeOK, Answered
    <3>2. Consented(n)' /\ stored'[n] = 0
      BY <2>1, <2>3, <2>6 DEF Consented, tableVars
    <3> QED  BY <2>3, <2>5, <2>9, <3>1, <3>2 DEF WorkOk, Consented
  <2>11. ASSUME NEW u \in Tasks \ {t}, At(u, "exchange") PROVE task[u].n # n
    <3>1. flow[task[u].n].kind = "gone"
      BY <2>11 DEF WorksOk, WorkOk, At
    <3> QED  BY <2>1, <3>1 DEF Pending
  <2>12. WorksOk'
    BY <2>5, <2>6, <2>7, <2>8, <2>9, <2>10, <2>11, WorksKept DEF tableVars
  <2> QED  BY <2>6, <2>7, <2>8, <2>12, FlowsChange
<1>4. CASE Restart
  <2>1. /\ flow' = [n \in FlowIds |-> IF Pending(n) \/ Active(n) THEN [flow[n] EXCEPT !.kind = "gone"] ELSE flow[n]]
        /\ task' = [t \in Tasks |-> Idle]
        /\ UNCHANGED <<routerVars, tableVars, made, consent>>
    BY <1>4 DEF Restart, upstreamVars
  <2>2. ASSUME NEW n \in FlowIds
        PROVE  /\ flow'[n] \in Flow /\ flow'[n].status = flow[n].status
               /\ flow'[n].key = flow[n].key /\ flow'[n].account = flow[n].account
               /\ flow'[n].app = flow[n].app /\ flow'[n].asked = flow[n].asked
               /\ flow'[n].kind = flow[n].kind \/ (Begun(n) /\ flow'[n].kind = "gone")
    <3>1. flow[n] \in Flow
      BY DEF OAuthTypeOK
    <3>2. CASE Pending(n) \/ Active(n)
      <4>1. flow'[n] = [flow[n] EXCEPT !.kind = "gone"] /\ Begun(n)
        BY <2>1, <3>2 DEF Pending, Active, Begun
      <4> QED  BY <3>1, <4>1 DEF Flow
    <3>3. CASE ~(Pending(n) \/ Active(n))
      BY <2>1, <3>1, <3>3
    <3> QED  BY <3>2, <3>3
  <2>3. Answered
    BY <2>2 DEF Answered
  <2>4. flow' \in [FlowIds -> Flow]
    BY <2>1, <2>2
  <2>5. OAuthTypeOK'
    BY <2>1, <2>4 DEF OAuthTypeOK, routerVars, tableVars
  <2>6. FlowsOk' /\ Grows
    BY <2>1, <2>3, AnswersKeep
  <2>7. WorksOk'
    BY <2>1 DEF WorksOk, At
  <2> QED  BY <2>1, <2>5, <2>6, <2>7, FlowsChange
<1> QED  BY <1>1, <1>2, <1>3, <1>4

\* A flow begins, after all the others.
LEMMA BeginKeeps ==
  ASSUME OAuthInv, NEW F \in Flow, made < MaxFlows,
         flow' = [flow EXCEPT ![made + 1] = F], made' = made + 1,
         F.key \in Keys, F.account \in Named, F.app = F.asked, F.kind \in {"code", "device"},
         F.kind = "code" => F.key \notin DeviceKeys,
         F.kind = "device" => F.key \in DeviceKeys /\ F.status = "pending",
         UNCHANGED <<tableVars, consent>>
  PROVE  FlowsOk' /\ Grows /\ flow' \in [FlowIds -> Flow] /\ made' \in Nat
<1> USE DEF OAuthInv, tableVars
<1>1. PICK m : m = made + 1
  OBVIOUS
<1>2. m \in FlowIds /\ made \in Nat /\ ~(m <= made) /\ flow \in [FlowIds -> Flow]
  BY <1>1, OAuthAssumption DEF OAuthTypeOK, FlowIds
<1>3. flow'[m] = F /\ \A n \in FlowIds \ {m} : flow'[n] = flow[n]
  BY <1>1, <1>2
<1>4. ~Begun(m) /\ consent[m] = Nobody /\ stored[m] = 0
  BY <1>2 DEF FlowsOk, OAuthTypeOK
<1>5. ASSUME NEW n \in FlowIds
      PROVE  /\ Begun(n)' <=> n <= made'
             /\ consent'[n] # Nobody \/ stored'[n] > 0 => Begun(n)'
             /\ Begun(n)' => flow'[n].key \in Keys /\ flow'[n].account \in Named
             /\ flow'[n].app = flow'[n].asked
             /\ Pending(n)' => flow'[n].key \notin DeviceKeys /\ stored'[n] = 0
             /\ Active(n)' => flow'[n].key \in DeviceKeys
             /\ Active(n)' /\ flow'[n].status = "completed" => consent'[n] # Nobody
             /\ flow'[n].key \notin DeviceKeys => stored'[n] <= 1
  <2>1. CASE n = m
    <3>1. n <= made' /\ Begun(n)'
      BY <1>1, <1>2, <1>3, <2>1 DEF Begun
    <3> QED  BY <1>3, <1>4, <2>1, <3>1 DEF Pending, Active
  <2>2. CASE n # m
    <3>1. n <= made' <=> n <= made
      BY <1>1, <1>2, <2>2 DEF FlowIds
    <3> QED  BY <1>3, <2>2, <3>1 DEF FlowsOk, Begun, Pending, Active
  <2> QED  BY <2>1, <2>2
<1>6. FlowsOk'
  BY <1>5 DEF FlowsOk
<1>7. Grows
  <2>1. \A n \in FlowIds : stored[n] <= stored'[n]
    BY DEF OAuthTypeOK
  <2>2. nextId <= nextId'
    BY DEF OAuthTypeOK
  <2> QED  BY <1>3, <1>4, <2>1, <2>2 DEF Grows, Begun
<1>8. flow' \in [FlowIds -> Flow] /\ made' \in Nat
  <2>1. flow' = [flow EXCEPT ![m] = F]
    BY <1>1
  <2>2. flow' \in [FlowIds -> Flow]
    BY <1>2, <2>1
  <2>3. made + 1 \in Nat
    BY <1>2
  <2> QED  BY <2>2, <2>3
<1> QED  BY <1>6, <1>7, <1>8

LEMMA AuthorizeKeeps ==
  ASSUME OAuthInv, NEW t \in Tasks, Authorize(t)
  PROVE  OAuthInv'
<1> USE DEF OAuthInv
<1>1. PICK w : w = task[t] /\ w \in Handler /\ WorkOk(w) /\ w.pc = "authorize"
  BY AtWork DEF Authorize, At
<1>2. w.key \in Keys \ DeviceKeys /\ w.account \in Named /\ w.app \in Apps \cup {NoApp}
  BY <1>1 DEF WorkOk, Handler
<1>3. PICK m, F, f : /\ m = made + 1 /\ F = NewFlow(w.key, w.account, w.app)
                     /\ f = [flow EXCEPT ![m] = F]
  OBVIOUS
<1>4. /\ F \in Flow /\ F.kind = "code" /\ F.key = w.key /\ F.account = w.account
      /\ F.asked = w.app /\ F.app = NoApp
  BY <1>2, <1>3 DEF NewFlow, NoFlow, Flow
<1>5. made < MaxFlows /\ made \in Nat /\ m \in FlowIds /\ flow \in [FlowIds -> Flow]
  BY <1>3, OAuthAssumption DEF Authorize, OAuthTypeOK, FlowIds
<1>6. f[m] = F /\ \A n \in FlowIds \ {m} : f[n] = flow[n]
  BY <1>3, <1>5
<1>7. Latest(f) = m
  <2>1. ASSUME NEW n \in FlowIds, n > m PROVE f[n].kind = "none"
    <3>1. ~(n <= made) /\ n # m
      BY <1>3, <1>5, <2>1 DEF FlowIds
    <3> QED  BY <1>6, <3>1 DEF FlowsOk, Begun
  <2> QED  BY <1>4, <1>5, <1>6, <2>1, LatestIs
<1>8. flow' = IF w.app = NoApp THEN f ELSE [f EXCEPT ![m].app = w.app]
  BY <1>1, <1>3, <1>7 DEF Authorize
<1>9. PICK G : G = [F EXCEPT !.app = w.app]
  OBVIOUS
<1>10. /\ G \in Flow /\ G.kind = "code" /\ G.key = w.key /\ G.account = w.account
       /\ G.asked = w.app /\ G.app = w.app /\ (w.app = NoApp => G = F)
  BY <1>2, <1>4, <1>9 DEF Flow
<1>11. flow' = [flow EXCEPT ![m] = G]
  <2>1. CASE w.app = NoApp
    BY <1>3, <1>8, <1>10, <2>1
  <2>2. CASE w.app # NoApp
    BY <1>3, <1>5, <1>6, <1>8, <1>9, <2>2
  <2> QED  BY <2>1, <2>2
<1>12. made' = made + 1 /\ UNCHANGED <<routerVars, tableVars, consent>> /\ task' = [task EXCEPT ![t] = Idle]
  BY DEF Authorize, upstreamVars, Leave
<1>13. FlowsOk' /\ Grows /\ flow' \in [FlowIds -> Flow] /\ made' \in Nat
  BY <1>2, <1>3, <1>5, <1>10, <1>11, <1>12, BeginKeeps
<1>14. OAuthTypeOK'
  BY <1>12, <1>13 DEF OAuthTypeOK, routerVars, tableVars
<1>15. task'[t] = Idle /\ \A u \in Tasks \ {t} : task'[u] = task[u]
  BY <1>12 DEF OAuthTypeOK
<1>16. WorksOk'
  BY <1>12, <1>13, <1>14, <1>15, WorksKept DEF At, tableVars
<1> QED  BY <1>12, <1>13, <1>14, <1>16, FlowsChange

LEMMA UpstreamStepsKeep ==
  ASSUME OAuthInv,
         \/ \E c \in Apps \cup {NoApp}, k \in Keys, x \in Named : DevicePage(c, k, x)
         \/ \E n \in FlowIds, x \in Accounts : Consent(n, x)
         \/ \E n \in FlowIds : Withdraw(n)
  PROVE  OAuthInv'
<1> USE DEF OAuthInv
<1>1. ASSUME NEW c \in Apps \cup {NoApp}, NEW k \in Keys, NEW x \in Named, DevicePage(c, k, x) PROVE OAuthInv'
  <2>1. PICK F : F = NewDeviceFlow(k, x, c)
    OBVIOUS
  <2>2. /\ F \in Flow /\ F.kind = "device" /\ F.key = k /\ F.account = x /\ F.asked = c /\ F.app = c
        /\ F.status = "pending"
    BY <2>1 DEF NewDeviceFlow, NewFlow, NoFlow, Flow
  <2>3. /\ k \in DeviceKeys /\ made < MaxFlows /\ made' = made + 1 /\ flow' = [flow EXCEPT ![made + 1] = F]
        /\ UNCHANGED <<routerVars, tableVars, consent, task>>
    BY <1>1, <2>1 DEF DevicePage, upstreamVars
  <2>4. FlowsOk' /\ Grows /\ flow' \in [FlowIds -> Flow] /\ made' \in Nat
    BY <2>2, <2>3, BeginKeeps
  <2>5. OAuthTypeOK'
    BY <2>3, <2>4 DEF OAuthTypeOK, routerVars, tableVars
  <2>6. WorksOk'
    BY <2>3, <2>4, <2>5, WorksStay DEF tableVars
  <2> QED  BY <2>3, <2>4, <2>5, <2>6, FlowsChange
<1>2. ASSUME NEW n \in FlowIds, NEW x \in Accounts, Consent(n, x) PROVE OAuthInv'
  <2>1. /\ Begun(n) /\ consent[n] = Nobody /\ consent' = [consent EXCEPT ![n] = x] /\ x # Nobody
        /\ UNCHANGED <<routerVars, tableVars, flow, made, task>>
    BY <1>2, OAuthAssumption DEF Consent, Begun
  <2>2. OAuthTypeOK'
    BY <2>1 DEF OAuthTypeOK, routerVars, tableVars
  <2>3. consent'[n] = x /\ \A m \in FlowIds \ {n} : consent'[m] = consent[m]
    BY <2>1 DEF OAuthTypeOK
  <2>4. FlowsOk'
    BY <2>1, <2>3 DEF FlowsOk, Begun, Pending, Active, tableVars
  <2>5. Grows
    <3>1. nextId <= nextId' /\ \A m \in FlowIds : stored[m] <= stored'[m]
      BY <2>1 DEF OAuthTypeOK, tableVars
    <3> QED  BY <2>1, <2>3, <3>1 DEF Grows, Begun, tableVars
  <2>6. WorksOk'
    BY <2>1, <2>2, <2>5, WorksStay DEF tableVars
  <2> QED  BY <2>1, <2>2, <2>4, <2>5, <2>6, FlowsChange
<1>3. ASSUME NEW n \in FlowIds, Withdraw(n) PROVE OAuthInv'
  <2>1. UNCHANGED <<routerVars, tableVars, flow, made, consent, task>>
    BY <1>3 DEF Withdraw
  <2>2. OAuthTypeOK'
    BY <2>1 DEF OAuthTypeOK, routerVars, tableVars
  <2>3. FlowsOk' /\ Grows
    BY <2>1, NothingMoves DEF tableVars
  <2>4. WorksOk'
    BY <2>1, <2>2, <2>3, WorksStay DEF tableVars
  <2> QED  BY <2>1, <2>2, <2>3, <2>4, FlowsChange
<1> QED  BY <1>1, <1>2, <1>3

-----------------------------------------------------------------------------
(* Steps that store a row, and that grant.                                   *)

\* The row of flow n is stored.
LEMMA StoreKeeps ==
  ASSUME OAuthInv, NEW n \in FlowIds, NEW k \in Keys, NEW x, Identified(n, x),
         Consented(n), k = flow[n].key, Store(n, k, x),
         k \notin DeviceKeys => flow[n].kind = "gone" /\ stored[n] = 0,
         Answered, flow' \in [FlowIds -> Flow], UNCHANGED <<routerVars, made, consent>>
  PROVE  /\ FlowsOk' /\ Grows /\ RowsOk' /\ GrantsAreConsented'
         /\ tokens' \subseteq Token /\ nextId' \in Nat /\ stored' \in [FlowIds -> Nat]
         /\ stored'[n] > 0 /\ \A m \in FlowIds \ {n} : stored'[m] = stored[m]
         /\ x \in Labels(n)' /\ x \in Named /\ unnamed' \subseteq FlowIds
<1> USE DEF OAuthInv, routerVars
<1>1. PICK r : r = [id |-> nextId, key |-> k, account |-> x, from |-> n, access |-> n, fresh |-> TRUE]
  OBVIOUS
<1>2. nextId \in Nat /\ tokens' = tokens \cup {r} /\ nextId' = nextId + 1 /\ stored' = [stored EXCEPT ![n] = @ + 1]
  BY <1>1 DEF Store, OAuthTypeOK
<1>3. Begun(n) /\ x \in Named
  <2>1. Begun(n)
    BY DEF FlowsOk, Consented
  <2>2. consent[n] \in Accounts /\ flow[n].account \in Named
    BY <2>1 DEF FlowsOk, Consented, OAuthTypeOK
  <2> QED  BY <2>1, <2>2 DEF Identified, Named
<1>12. /\ unnamed \subseteq unnamed' /\ unnamed' \subseteq FlowIds
       /\ x \in Labels(n)'
  BY DEF Identified, Labels, Answered, OAuthTypeOK
<1>4. r \in Token /\ r.id = nextId /\ r.from = n /\ r.access = n
  BY <1>1, <1>2, <1>3 DEF Token
<1>5. stored[n] \in Nat /\ stored'[n] = stored[n] + 1 /\ \A m \in FlowIds \ {n} : stored'[m] = stored[m]
  BY <1>2 DEF OAuthTypeOK
<1>6. stored' \in [FlowIds -> Nat] /\ \A m \in FlowIds : stored[m] <= stored'[m]
  <2>1. ASSUME NEW m \in FlowIds PROVE stored'[m] \in Nat /\ stored[m] <= stored'[m]
    <3>1. stored[m] \in Nat
      BY DEF OAuthTypeOK
    <3> QED  BY <1>5, <3>1
  <2>2. stored \in [FlowIds -> Nat] /\ stored[n] + 1 \in Nat
    BY <1>5 DEF OAuthTypeOK
  <2>3. stored' \in [FlowIds -> Nat]
    BY <1>2, <2>2
  <2> QED  BY <2>1, <2>3
<1>7. Grows
  <2>1. \A q \in tokens' : q.id < nextId => q \in tokens
    BY <1>2, <1>4
  <2>2. nextId <= nextId'
    BY <1>2
  <2> QED  BY <1>6, <1>12, <2>1, <2>2 DEF Grows, Answered, Begun
<1>8. FlowsOk'
  <2>1. ASSUME NEW m \in FlowIds
        PROVE  /\ Begun(m)' <=> Begun(m)
               /\ Pending(m)' => Pending(m)
               /\ Active(m)' => Active(m)
               /\ Active(m)' /\ flow'[m].status = "completed" => consent[m] # Nobody
    BY <2>1 DEF Answered, Begun, Pending, Active, FlowsOk
  <2>2. ASSUME NEW m \in FlowIds
        PROVE  /\ stored'[m] > 0 => Begun(m)'
               /\ Pending(m)' => stored'[m] = 0
               /\ flow'[m].key \notin DeviceKeys => stored'[m] <= 1
    <3>1. CASE m = n
      <4>1. flow'[n].key = k
        BY DEF Answered
      <4>2. ~Pending(n)
        <5>1. CASE k \in DeviceKeys
          BY <5>1 DEF FlowsOk
        <5>2. CASE k \notin DeviceKeys
          BY <5>2 DEF Pending
        <5> QED  BY <5>1, <5>2
      <4> QED  BY <1>3, <1>5, <2>1, <3>1, <4>1, <4>2
    <3>2. CASE m # n
      <4>1. stored'[m] = stored[m] /\ flow'[m].key = flow[m].key
        BY <1>5, <3>2 DEF Answered
      <4> QED  BY <2>1, <4>1 DEF FlowsOk
    <3> QED  BY <3>1, <3>2
  <2>3. ASSUME NEW m \in FlowIds
        PROVE  /\ Begun(m)' <=> m <= made'
               /\ consent'[m] # Nobody \/ stored'[m] > 0 => Begun(m)'
               /\ Begun(m)' => flow'[m].key \in Keys /\ flow'[m].account \in Named
               /\ flow'[m].app = flow'[m].asked
               /\ Pending(m)' => flow'[m].key \notin DeviceKeys /\ stored'[m] = 0
               /\ Active(m)' => flow'[m].key \in DeviceKeys
               /\ Active(m)' /\ flow'[m].status = "completed" => consent'[m] # Nobody
               /\ flow'[m].key \notin DeviceKeys => stored'[m] <= 1
    <3>1. /\ flow'[m].key = flow[m].key /\ flow'[m].account = flow[m].account
          /\ flow'[m].app = flow[m].app /\ flow'[m].asked = flow[m].asked
      BY DEF Answered
    <3> QED  BY <2>1, <2>2, <3>1 DEF FlowsOk
  <2> QED  BY <2>3 DEF FlowsOk
<1>9. RowsOk'
  <2>1. ASSUME NEW q \in tokens'
        PROVE  /\ q.id < nextId' /\ Of(q, q.from)' /\ Of(q, q.access)'
               /\ q.key \in DeviceKeys => q.fresh
    <3>1. CASE q \in tokens
      <4>1. q.id \in Nat /\ q.id < nextId /\ (q.key \in DeviceKeys => q.fresh)
        BY <3>1 DEF OAuthTypeOK, Token, RowsOk
      <4>2. q.id < nextId'
        BY <1>2, <4>1
      <4>3. PICK m, l : m = q.from /\ l = q.access /\ Of(q, m) /\ Of(q, l)
        BY <3>1 DEF RowsOk
      <4>4. Of(q, m)' /\ Of(q, l)'
        BY <1>7, <4>3, OfKept
      <4> QED  BY <4>1, <4>2, <4>3, <4>4
    <3>2. CASE q = r
      <4>1. Consented(n)' /\ flow'[n].key = k
        BY DEF Consented, Answered
      <4>2. Of(r, n)'
        BY <1>1, <1>12, <4>1 DEF Of
      <4>3. r.from = n /\ r.access = n /\ r.fresh = TRUE /\ r.id < nextId'
        BY <1>1, <1>2
      <4> QED  BY <3>2, <4>2, <4>3
    <3> QED  BY <1>2, <2>1, <3>1, <3>2
  <2>2. ASSUME NEW p \in tokens', NEW q \in tokens', p.id = q.id PROVE p = q
    <3>1. \A o \in tokens : o.id # nextId
      <4>1. \A o \in tokens : o.id \in Nat /\ o.id < nextId
        BY DEF RowsOk, OAuthTypeOK, Token
      <4> QED  BY <1>2, <4>1
    <3> QED  BY <1>2, <1>4, <2>2, <3>1 DEF RowsOk
  <2> QED  BY <2>1, <2>2 DEF RowsOk
<1>10. tokens' \subseteq Token /\ nextId' \in Nat
  BY <1>2, <1>4 DEF OAuthTypeOK
<1>11. GrantsAreConsented'
  <2> SUFFICES ASSUME NEW g \in grants
               PROVE  /\ g[1] \in installed
                      /\ \E m \in FlowIds : /\ flow'[m].asked = g[1] /\ flow'[m].key = g[2]
                                            /\ g[3] \in Labels(m)' /\ consent'[m] # Nobody /\ stored'[m] > 0
    BY DEF GrantsAreConsented
  <2>1. PICK m \in FlowIds : /\ flow[m].asked = g[1] /\ flow[m].key = g[2]
                             /\ g[3] \in Labels(m) /\ consent[m] # Nobody /\ stored[m] > 0
    BY DEF GrantsAreConsented
  <2>2. stored'[m] > 0
    <3>1. stored[m] \in Nat
      BY DEF OAuthTypeOK
    <3> QED  BY <1>5, <2>1, <3>1
  <2> QED  BY <1>7, <2>1, <2>2, FlowKept DEF Consented, GrantsAreConsented
<1> QED  BY <1>3, <1>5, <1>6, <1>7, <1>8, <1>9, <1>10, <1>11, <1>12

\* The handler that stores, and what it goes on with: nothing, or to grant.
LEMMA StoresKeep ==
  ASSUME OAuthInv, NEW t \in Tasks, Exchange(t) \/ Identify(t)
  PROVE  OAuthInv'
<1> USE DEF OAuthInv
<1>1. PICK w : w = task[t] /\ w # Idle /\ w \in Handler /\ WorkOk(w) /\ w.pc \in {"exchange", "identify"}
  BY AtWork DEF Exchange, Identify, At
<1>2. PICK n, k : n = w.n /\ k = w.key
  OBVIOUS
<1>3. /\ n \in FlowIds /\ Consented(n) /\ k = flow[n].key /\ k \in Keys /\ w.app = flow[n].asked
      /\ w.app \in Apps \cup {NoApp}
      /\ w.pc = "exchange" => flow[n].kind = "gone" /\ k \notin DeviceKeys /\ stored[n] = 0
      /\ w.pc = "identify" => k \in DeviceKeys
  BY <1>1, <1>2 DEF WorkOk, Consented, Handler
<1>4. PICK x \in Named :
        /\ Identified(n, x)
        /\ Store(n, k, x)
        /\ \/ w.app = NoApp /\ task' = [task EXCEPT ![t] = Idle]
           \/ w.app # NoApp /\ w.pc = "exchange" /\ task' = [task EXCEPT ![t].pc = "grant", ![t].account = x]
           \/ w.app # NoApp /\ w.pc = "identify" /\ task' = [task EXCEPT ![t].pc = "grant_pop", ![t].account = x]
  <2>1. CASE Exchange(t)
    BY <1>1, <1>2, <2>1 DEF Exchange, Leave, At
  <2>2. CASE Identify(t)
    BY <1>1, <1>2, <2>2 DEF Identify, Leave, At
  <2> QED  BY <2>1, <2>2
<1>5. (flow' = flow \/ flow' = Popped(n)) /\ UNCHANGED <<routerVars, made, consent>>
  BY <1>1, <1>2 DEF Exchange, Identify, upstreamVars
<1>6. Answered /\ flow' \in [FlowIds -> Flow]
  <2>1. CASE flow' = flow
    BY <2>1 DEF Answered, OAuthTypeOK
  <2>2. CASE flow' = Popped(n)
    <3>1. Begun(n)
      BY <1>3 DEF FlowsOk, Consented
    <3> QED  BY <1>3, <2>2, <3>1, OneAnswered
  <2> QED  BY <1>5, <2>1, <2>2
<1>7. k \notin DeviceKeys => flow[n].kind = "gone" /\ stored[n] = 0
  BY <1>1, <1>3
<1>8. /\ FlowsOk' /\ Grows /\ RowsOk' /\ GrantsAreConsented'
      /\ tokens' \subseteq Token /\ nextId' \in Nat /\ stored' \in [FlowIds -> Nat]
      /\ stored'[n] > 0 /\ \A m \in FlowIds \ {n} : stored'[m] = stored[m]
      /\ x \in Labels(n)' /\ x \in Named /\ unnamed' \subseteq FlowIds
  <2>1. Store(n, k, x) /\ Identified(n, x)
    BY <1>4
  <2> QED  BY <1>3, <1>5, <1>6, <1>7, <2>1, StoreKeeps
<1>9. PICK v : /\ task' = [task EXCEPT ![t] = v]
               /\ \/ v = Idle
                  \/ /\ v \in Handler /\ v.pc \in {"grant", "grant_pop"} /\ v.n = n /\ v.key = k
                     /\ v.app = w.app /\ v.app \in Apps /\ v.account = x
  <2>1. CASE task' = [task EXCEPT ![t] = Idle]
    BY <2>1
  <2>2. ASSUME NEW pc \in {"grant", "grant_pop"}, w.app # NoApp,
               task' = [task EXCEPT ![t].pc = pc, ![t].account = x]
        PROVE  \E v : /\ task' = [task EXCEPT ![t] = v]
                      /\ v \in Handler /\ v.pc \in {"grant", "grant_pop"} /\ v.n = n /\ v.key = k
                      /\ v.app = w.app /\ v.app \in Apps /\ v.account = x
    <3>1. PICK v : v = [w EXCEPT !.pc = pc, !.account = x]
      OBVIOUS
    <3>2. v \in Handler /\ v.pc = pc /\ v.n = n /\ v.key = k /\ v.app = w.app /\ v.account = x
      BY <1>1, <1>2, <1>8, <3>1 DEF Handler
    <3>3. task' = [task EXCEPT ![t] = v]
      BY <1>1, <2>2, <3>1 DEF OAuthTypeOK
    <3> QED  BY <1>3, <2>2, <3>2, <3>3
  <2>3. CASE w.app # NoApp /\ task' = [task EXCEPT ![t].pc = "grant", ![t].account = x]
    BY <2>2, <2>3
  <2>4. CASE w.app # NoApp /\ task' = [task EXCEPT ![t].pc = "grant_pop", ![t].account = x]
    BY <2>2, <2>4
  <2> QED  BY <1>4, <2>1, <2>3, <2>4
<1>10. task'[t] = v /\ \A u \in Tasks \ {t} : task'[u] = task[u]
  BY <1>9 DEF OAuthTypeOK
<1>11. OAuthTypeOK'
  BY <1>5, <1>6, <1>8, <1>9 DEF OAuthTypeOK, routerVars
<1>12. task'[t] # Idle => WorkOk(task[t])'
  <2> SUFFICES ASSUME v # Idle PROVE WorkOk(task[t])'
    BY <1>10
  <2>1. Consented(n)' /\ flow'[n].key = k /\ flow'[n].asked = w.app /\ Labels(n) \subseteq Labels(n)'
    BY <1>3, <1>8, FlowKept
  <2> QED  BY <1>8, <1>9, <1>10, <2>1 DEF WorkOk
<1>13. ASSUME NEW u \in Tasks \ {t}, At(u, "exchange") PROVE stored'[task[u].n] = stored[task[u].n]
  <2>1. WorkOk(task[u])
    BY <1>13 DEF WorksOk, At
  <2>2. /\ task[u].n \in FlowIds
        /\ task[u].key = flow[task[u].n].key /\ task[u].key \notin DeviceKeys
    BY <1>13, <2>1 DEF WorkOk, Consented, At
  <2>3. task[u].n # n
    <3>1. CASE w.pc = "exchange"
      BY <1>1, <1>2, <1>13, <3>1 DEF WorksOk, At
    <3>2. CASE w.pc = "identify"
      BY <1>3, <2>2, <3>2
    <3> QED  BY <1>1, <3>1, <3>2
  <2> QED  BY <1>8, <2>2, <2>3
<1>14. ~At(t, "exchange")'
  BY <1>9, <1>10 DEF At
<1>15. WorksOk'
  BY <1>8, <1>10, <1>11, <1>12, <1>13, <1>14, WorksKept
<1> QED  BY <1>8, <1>11, <1>15

\* A grant is made of what the handler carries.
LEMMA GrantsKeep ==
  ASSUME OAuthInv, NEW t \in Tasks, GrantCall(t) \/ DeviceGrant(t)
  PROVE  OAuthInv'
<1> USE DEF OAuthInv
<1>1. PICK w : w = task[t] /\ w # Idle /\ w \in Handler /\ WorkOk(w) /\ w.pc \in {"grant", "grant_pop"}
  BY AtWork DEF GrantCall, DeviceGrant, At
<1>2. PICK v : /\ task' = [task EXCEPT ![t] = v]
               /\ \/ v = Idle
                  \/ v = [w EXCEPT !.pc = "pop"]
  BY <1>1 DEF GrantCall, DeviceGrant, Leave, OAuthTypeOK
<1>3. v = Idle \/ (/\ v \in Handler /\ v.pc = "pop" /\ v.n = w.n /\ v.key = w.key /\ v.app = w.app)
  BY <1>1, <1>2 DEF Handler
<1>4. /\ Consented(w.n) /\ w.n \in FlowIds /\ w.key = flow[w.n].key /\ w.app = flow[w.n].asked
      /\ w.app \in Apps /\ w.account \in Labels(w.n) /\ stored[w.n] > 0 /\ w.key \in Keys
  BY <1>1 DEF WorkOk, Consented, Handler
<1>5. w.account \in Named
  <2>1. Begun(w.n) /\ consent[w.n] \in Accounts
    BY <1>4 DEF FlowsOk, Consented, OAuthTypeOK
  <2> QED  BY <1>4, <2>1 DEF Labels, Named, FlowsOk
<1>6. PICK g : g = <<w.app, w.key, w.account>>
  OBVIOUS
<1>7. grants' = grants \/ (w.app \in installed /\ grants' = grants \cup {g})
  BY <1>1, <1>6 DEF GrantCall, DeviceGrant, Granted
<1>8. UNCHANGED <<installed, tableVars, flow, made, consent>>
  BY DEF GrantCall, DeviceGrant, upstreamVars
<1>9. OAuthTypeOK'
  BY <1>2, <1>3, <1>4, <1>5, <1>6, <1>7, <1>8 DEF OAuthTypeOK, tableVars
<1>10. FlowsOk' /\ Grows
  BY <1>8, NothingMoves DEF tableVars
<1>11. RowsOk'
  BY <1>8, <1>10, RowsKept DEF tableVars
<1>12. task'[t] = v /\ \A u \in Tasks \ {t} : task'[u] = task[u]
  BY <1>2 DEF OAuthTypeOK
<1>13. task'[t] # Idle => WorkOk(task[t])'
  BY <1>3, <1>4, <1>8, <1>12 DEF WorkOk, Consented
<1>14. ~At(t, "exchange")'
  BY <1>3, <1>12 DEF At
<1>15. WorksOk'
  BY <1>8, <1>9, <1>10, <1>12, <1>13, <1>14, WorksKept DEF tableVars
<1>16. GrantsAreConsented'
  <2> SUFFICES ASSUME NEW q \in grants'
               PROVE  /\ q[1] \in installed'
                      /\ \E m \in FlowIds : /\ flow'[m].asked = q[1] /\ flow'[m].key = q[2]
                                            /\ q[3] \in Labels(m)' /\ consent'[m] # Nobody /\ stored'[m] > 0
    BY DEF GrantsAreConsented
  <2>1. CASE q \in grants
    BY <1>8, <2>1 DEF GrantsAreConsented, Labels, tableVars
  <2>2. CASE q = g /\ w.app \in installed
    BY <1>4, <1>6, <1>8, <2>2 DEF Labels, tableVars, Consented
  <2> QED  BY <1>7, <2>1, <2>2
<1> QED  BY <1>9, <1>10, <1>11, <1>15, <1>16

LEMMA GrantsEndKeep ==
  ASSUME OAuthInv, (\E g \in grants : RevokeGrant(g)) \/ (\E c \in Apps : RemoveApp(c))
  PROVE  OAuthInv'
<1> USE DEF OAuthInv
<1>1. /\ UNCHANGED <<tableVars, flow, made, consent, task>> /\ grants' \subseteq grants
      /\ installed' \subseteq installed /\ \A g \in grants' : g[1] \in installed'
  BY DEF RevokeGrant, RemoveApp, upstreamVars, GrantsAreConsented
<1>2. OAuthTypeOK'
  BY <1>1 DEF OAuthTypeOK, tableVars
<1>3. FlowsOk' /\ Grows
  BY <1>1, NothingMoves DEF tableVars
<1>4. RowsOk'
  BY <1>1, <1>3, RowsKept DEF tableVars
<1>5. WorksOk'
  BY <1>1, <1>2, <1>3, WorksStay DEF tableVars
<1>6. GrantsAreConsented'
  BY <1>1, <1>2, <1>3, GrantsKept
<1> QED  BY <1>2, <1>3, <1>4, <1>5, <1>6

-----------------------------------------------------------------------------
(* The theorems.                                                             *)

LEMMA OAuthInit == Init => OAuthInv
<1> SUFFICES ASSUME Init PROVE OAuthInv
  OBVIOUS
<1>1. OAuthTypeOK
  BY DEF Init, OAuthTypeOK, NoFlow, Flow
<1>2. FlowsOk
  BY OAuthAssumption DEF Init, FlowsOk, NoFlow, Begun, Pending, Active, FlowIds
<1>3. RowsOk /\ WorksOk /\ GrantsAreConsented
  BY DEF Init, RowsOk, WorksOk, At, GrantsAreConsented
<1> QED  BY <1>1, <1>2, <1>3 DEF OAuthInv

LEMMA RequestsKeep ==
  ASSUME OAuthInv, NEW t \in Tasks, Requests(t)
  PROVE  OAuthInv'
<1>1. \A c \in Apps, k \in Keys, x \in Accounts \cup {Default} :
        AskNone(t, c, k, x) \/ AskStale(t, c, k, x) \/ AskNew(t, c, k) \/ Begin(t, c, k) => OAuthInv'
  BY AsksKeep
<1>2. \A c \in Apps, k \in Keys : AskNew(t, c, k) \/ Begin(t, c, k) => OAuthInv'
  BY <1>1
<1>3. \A c \in Apps, k \in Keys, x \in Accounts \cup {Default, New} : RevokeToken(t, c, k, x) => OAuthInv'
  BY RowStepsKeep
<1>4. \A n \in FlowIds : Callback(t, n) => OAuthInv'
  BY AnswerStepsKeep
<1>5. \A n \in FlowIds : DevicePoll(t, n) => OAuthInv'
  BY HandlersKeep
<1>6. \A r \in tokens : DeleteToken(t, r) => OAuthInv'
  BY HandlersKeep
<1> QED  BY <1>1, <1>2, <1>3, <1>4, <1>5, <1>6 DEF Requests

LEMMA OAuthStep == OAuthInv /\ [Next]_vars => OAuthInv'
<1> SUFFICES ASSUME OAuthInv, [Next]_vars PROVE OAuthInv'
  OBVIOUS
<1>1. ASSUME NEW t \in Tasks, Handlers(t) PROVE OAuthInv'
  <2>1. CASE Refresh(t) \/ Delete(t)
    BY <2>1, RowStepsKeep
  <2>2. CASE \/ RefreshFails(t) \/ NoCredentials(t) \/ ExchangeFails(t) \/ GrantFails(t) \/ RevokeUpstream(t)
    BY <2>2, HandlersKeep
  <2>3. CASE Authorize(t)
    BY <2>3, AuthorizeKeeps
  <2>4. CASE Exchange(t) \/ Identify(t)
    BY <2>4, StoresKeep
  <2>5. CASE GrantCall(t) \/ DeviceGrant(t)
    BY <2>5, GrantsKeep
  <2>6. CASE DeviceOver(t)
    BY <2>6, AnswerStepsKeep
  <2> QED  BY <1>1, <2>1, <2>2, <2>3, <2>4, <2>5, <2>6 DEF Handlers
<1>2. CASE Others
  <2>1. \A c \in Apps \cup {NoApp}, k \in Keys, x \in Accounts \cup {Default, New} :
          DevicePage(c, k, x) => OAuthInv'
    BY UpstreamStepsKeep DEF Named
  <2>2. \A n \in FlowIds : /\ PollDone(n) \/ PollError(n) \/ DevicePollError(n) \/ CallbackIncomplete(n) => OAuthInv'
                           /\ Withdraw(n) => OAuthInv'
                           /\ \A x \in Accounts : Consent(n, x) => OAuthInv'
    BY AnswerStepsKeep, UpstreamStepsKeep
  <2>3. \A r \in tokens : Expire(r) => OAuthInv'
    BY RowStepsKeep
  <2>4. /\ \A g \in grants : RevokeGrant(g) => OAuthInv'
        /\ \A c \in Apps : RemoveApp(c) => OAuthInv'
    BY GrantsEndKeep
  <2>5. Restart => OAuthInv'
    BY AnswerStepsKeep
  <2> QED  BY <1>2, <2>1, <2>2, <2>3, <2>4, <2>5 DEF Others
<1>3. CASE UNCHANGED vars
  <2> USE DEF OAuthInv
  <2>1. UNCHANGED <<routerVars, tableVars, flow, made, consent, task>>
    BY <1>3 DEF vars, upstreamVars
  <2>2. OAuthTypeOK'
    BY <2>1 DEF OAuthTypeOK, routerVars, tableVars
  <2>3. FlowsOk' /\ Grows
    BY <2>1, NothingMoves DEF tableVars
  <2>4. WorksOk'
    BY <2>1, <2>2, <2>3, WorksStay DEF tableVars
  <2> QED  BY <2>1, <2>2, <2>3, <2>4, FlowsChange
<1> QED  BY <1>1, <1>2, <1>3, RequestsKeep DEF Next

LEMMA OAuthInvHolds == Spec => []OAuthInv
BY OAuthInit, OAuthStep, PTL DEF Spec

\* A grant comes of a flow begun for that app and for that key, to which the owner
\* consented, under the account that consented if the provider said which, for
\* any number of flows that overlap: what Authorize puts the app into is its own
\* flow, and a handler keeps what it read of it over its awaits (oauth_callback,
\* device_poll, grant_app_scoped).
THEOREM ConsentBeforeGrant == Spec => []GrantsAreConsented
<1>1. OAuthInv => GrantsAreConsented
  BY DEF OAuthInv
<1> QED  BY <1>1, OAuthInvHolds, PTL

\* However often the browser comes back with a code and however many handlers it
\* meets, one row is stored: the flow is popped before the code is exchanged
\* (oauth_callback).
THEOREM OneRowPerCode == Spec => []CodeStoredOnce
<1>1. OAuthInv => CodeStoredOnce
  BY DEF OAuthInv, FlowsOk, CodeStoredOnce
<1> QED  BY <1>1, OAuthInvHolds, PTL

\* A refresh writes the token of the row it was asked for, or of none: ids are
\* never used again (update_token_after_refresh).  So a row says whose its token
\* is, unless nobody could say so when the row was stored.
THEOREM TokensOfTheirAccount == Spec => []RowsKeepTheirAccount
<1>1. OAuthInv => RowsKeepTheirAccount
  BY DEF OAuthInv, RowsOk, Of, Labels, RowsKeepTheirAccount
<1> QED  BY <1>1, OAuthInvHolds, PTL

=============================================================================
