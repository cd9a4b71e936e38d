--------------------------- MODULE DomainsProofs ---------------------------
(* Theorems about Domains, for any names, requests and number of faults.    *)
EXTENDS Domains, SequenceTheorems, TLAPS

-----------------------------------------------------------------------------
(* The inductive invariants.                                                *)

\* A name whose row is marked mDNS, or was when a removal read it, has been marked
\* while the router ran.
MarksInv ==
  /\ \A n \in DOMAIN domains : domains[n].mdns => n \in proc.marked
  /\ \A t \in Requests : task[t].pc = "delete" /\ task[t].name \notin proc.marked => task[t].todo = {}

\* A process that is down holds nothing, one that drains serves no request.
ProcInv ==
  /\ proc.phase # "serving" => \A t \in Requests : task[t].pc = "idle"
  /\ proc.phase = "down" => task["renewal"].pc = "idle" /\ zoneQ = <<>> /\ issueQ = <<>>

\* Who waits for a certificate under way, and whose tokens are published.
IssueInv ==
  \A t \in Tasks : task[t].pc = "validate" => txt = t /\ Holds(issueQ, t)

Zoning(t) == task[t].pc \in {"add_zone", "remove_zone", "restart"}

\* The queue of the zone lock: who changes the zones, each once, the holder first.
ZoneQueueInv ==
  Serving =>
    /\ \A i \in DOMAIN zoneQ : /\ zoneQ[i] \in Requests /\ Zoning(zoneQ[i])
                               /\ task[zoneQ[i]].pc = "restart" => i = 1
    /\ \A i, j \in DOMAIN zoneQ : zoneQ[i] = zoneQ[j] => i = j
    /\ \A t \in Tasks : Zoning(t) => \E i \in DOMAIN zoneQ : zoneQ[i] = t

\* The i-th in the queue has still to add or to remove the zone of n.
Changes(i, n) == task[zoneQ[i]].pc \in {"add_zone", "remove_zone"} /\ task[zoneQ[i]].name = n

\* The names that have a zone, and those that may have one.
Wanted(n) == n \in DOMAIN domains /\ ~domains[n].mdns
Allowed(n) == n \in DOMAIN domains \/ n \in proc.marked

\* The last change queued for a name agrees with the table; without one, the
\* zones do.
ZonesInv ==
  Serving /\ ServesDns => \A n \in Names :
    /\ (\A i \in DOMAIN zoneQ : ~Changes(i, n)) => (Wanted(n) => n \in zones) /\ (n \in zones => Allowed(n))
    /\ \A i \in DOMAIN zoneQ :
         Changes(i, n) /\ (\A j \in DOMAIN zoneQ : j > i => ~Changes(j, n))
           => /\ Wanted(n) => task[zoneQ[i]].pc = "add_zone"
              /\ task[zoneQ[i]].pc = "add_zone" => Allowed(n)

\* Without an address to serve them on there are no zones.
NoZonesInv == Serving /\ ~ServesDns => zones = {} /\ \A t \in Tasks : ~Zoning(t)

\* CoreDNS serves what it last read, and it is stopped to read again.
CoreDnsInv == Serving /\ coredns.up => coredns.zones = zones

\* A task that will write the Caddyfile again.
WillReload(t) ==
  \/ Zoning(t) \/ task[t].pc = "reload"
  \/ t = "renewal" /\ task[t].renewed /\ task[t].pc \in {"list", "next", "order", "validate"}

\* Somebody will write the Caddyfile again, or it is that of the table and the
\* disk, and then somebody will make Caddy read it, or Caddy has.
SitesInv ==
  Serving =>
    \/ \E t \in Tasks : WillReload(t)
    \/ /\ caddyfile = Sites(domains, disk)
       /\ (\E t \in Tasks : task[t].pc = "caddy") \/ (caddy.up => caddy.sites = caddyfile)

\* The renewal task does what is its own, a request what is a request's.
RolesInv ==
  /\ task["renewal"].pc \notin {"delete", "add_zone", "remove_zone", "restart", "acquire", "await"}
  /\ \A t \in Requests : task[t].pc \notin {"list", "next"}
  /\ task["renewal"].then = "acquire" => ~task["renewal"].renewed /\ task["renewal"].pc \in {"order", "validate"}

-----------------------------------------------------------------------------
(* What the helpers do.                                                     *)

LEMMA PrimaryIs ==
    ASSUME OnePrimary
    PROVE  Primary \in DOMAIN domains /\ \A n \in DOMAIN domains : domains[n].primary <=> n = Primary
<1>1. PICK p \in DOMAIN domains : \A n \in DOMAIN domains : domains[n].primary <=> n = p
  BY DEF OnePrimary
<1>2. Primary \in DOMAIN domains /\ domains[Primary].primary
  BY <1>1 DEF Primary
<1> QED  BY <1>1, <1>2

LEMMA RestTyped == Rest \in Work
  BY DomainsAssumption DEF Rest, Work, Pcs

\* One task changes.
Only(t) == task' \in [Tasks -> Work] /\ \A u \in Tasks \ {t} : task'[u] = task[u]

LEMMA TaskSet ==
    ASSUME DomainsTypeOK, NEW t \in Tasks, NEW w \in Work, task' = [task EXCEPT ![t] = w]
    PROVE  Only(t) /\ task'[t] = w
  BY DEF DomainsTypeOK, Only

\* All but where it is.
SameWork(w, v) == /\ w.name = v.name /\ w.then = v.then /\ w.try = v.try /\ w.todo = v.todo
                  /\ w.renewed = v.renewed

LEMMA GotoSets ==
    ASSUME DomainsTypeOK, NEW t \in Tasks, NEW pc \in Pcs, Goto(t, pc)
    PROVE  Only(t) /\ task'[t].pc = pc /\ SameWork(task'[t], task[t])
<1> DEFINE w == [task[t] EXCEPT !.pc = pc]
<1>1. w \in Work /\ w.pc = pc /\ SameWork(w, task[t])
  BY DEF DomainsTypeOK, Work, SameWork
<1>2. task' = [task EXCEPT ![t] = w]
  BY DEF Goto, DomainsTypeOK
<1> HIDE DEF w
<1> QED  BY <1>1, <1>2, TaskSet

\* The rows keep their names and marks.
RowsKept(d) ==
  /\ d \in [DOMAIN domains -> Row]
  /\ \A n \in DOMAIN domains :
       d[n].tls = domains[n].tls /\ d[n].mdns = domains[n].mdns /\ d[n].primary = domains[n].primary

LEMMA RowsSame == ASSUME DomainsTypeOK PROVE RowsKept(domains)
  BY DEF DomainsTypeOK, RowsKept

LEMMA SetCertKeeps ==
    ASSUME DomainsTypeOK, NEW n, NEW s \in {"none", "acquiring", "active", "error"} PROVE RowsKept(SetCert(n, s))
<1>1. CASE n \notin DOMAIN domains
  BY <1>1, RowsSame DEF SetCert
<1>2. CASE n \in DOMAIN domains
  <2> DEFINE r == [domains[n] EXCEPT !.cert = s]
  <2>1. /\ r \in Row /\ r.tls = domains[n].tls /\ r.mdns = domains[n].mdns /\ r.primary = domains[n].primary
    BY <1>2 DEF DomainsTypeOK, Row
  <2>2. SetCert(n, s) = [domains EXCEPT ![n] = r]
    BY <1>2 DEF SetCert, DomainsTypeOK
  <2> HIDE DEF r
  <2> QED  BY <1>2, <2>1, <2>2 DEF RowsKept, DomainsTypeOK
<1> QED  BY <1>1, <1>2

LEMMA SyncedKeeps == ASSUME DomainsTypeOK PROVE RowsKept(Synced)
<1>1. ASSUME NEW n \in DOMAIN domains
      PROVE  Synced[n] \in Row /\ Synced[n].tls = domains[n].tls /\ Synced[n].mdns = domains[n].mdns
               /\ Synced[n].primary = domains[n].primary
  <2> DEFINE r == [domains[n] EXCEPT !.cert = "active"]
  <2>1. domains[n] \in Row
    BY DEF DomainsTypeOK
  <2>2. r \in Row /\ r.tls = domains[n].tls /\ r.mdns = domains[n].mdns /\ r.primary = domains[n].primary
    BY <2>1 DEF Row
  <2>3. Synced[n] = r \/ Synced[n] = domains[n]
    BY DEF Synced
  <2> HIDE DEF r
  <2> QED  BY <2>1, <2>2, <2>3
<1>2. DOMAIN Synced = DOMAIN domains /\ Synced = [n \in DOMAIN domains |-> Synced[n]]
  BY DEF Synced
<1> HIDE DEF Synced
<1> QED  BY <1>1, <1>2 DEF RowsKept

LEMMA RowsTyped ==
    ASSUME DomainsTypeOK, RowsKept(domains')
    PROVE  /\ domains' \in [DOMAIN domains' -> Row] /\ DOMAIN domains' \subseteq Names
           /\ DOMAIN domains' = DOMAIN domains
           /\ \A certs : Sites(domains', certs) = Sites(domains, certs)
           /\ OnePrimary => OnePrimary'
<1>1. DOMAIN domains' = DOMAIN domains
  BY DEF RowsKept
<1>2. OnePrimary => OnePrimary'
  BY <1>1 DEF RowsKept, OnePrimary
<1>3. \A certs : Sites(domains', certs) = Sites(domains, certs)
  BY <1>1 DEF RowsKept, Sites
<1> QED  BY <1>1, <1>2, <1>3 DEF RowsKept, DomainsTypeOK

\* The end of an acquisition.
LEMMA AcquiredSets ==
    ASSUME DomainsTypeOK, NEW t \in Tasks, Acquired(t)
    PROVE  /\ RowsKept(domains') /\ Only(t)
           /\ t # "renewal" => task'[t].pc = "reload"
           /\ t = "renewal" => /\ task'[t].pc \in {"list", "next"} /\ task'[t].then = "idle" /\ task'[t].renewed
<1>1. RowsKept(domains')
  BY SetCertKeeps DEF Acquired
<1> DEFINE w == IF t # "renewal" THEN [task[t] EXCEPT !.pc = "reload", !.try = 1]
                ELSE [task[t] EXCEPT !.pc = IF task[t].then = "acquire" THEN "list" ELSE "next",
                                     !.then = "idle", !.renewed = TRUE, !.try = 1]
<1>2. /\ w \in Work
      /\ t # "renewal" => w.pc = "reload"
      /\ t = "renewal" => w.pc \in {"list", "next"} /\ w.then = "idle" /\ w.renewed
  <2>1. task[t] \in Work /\ 1 \in 1..Attempts
    BY DomainsAssumption DEF DomainsTypeOK
  <2>2. CASE t # "renewal"
    BY <2>1, <2>2 DEF Work, Pcs
  <2>3. CASE t = "renewal"
    BY <2>1, <2>3 DEF Work, Pcs
  <2> QED  BY <2>2, <2>3
<1>3. task' = [task EXCEPT ![t] = w]
  BY DEF Acquired, DomainsTypeOK
<1> HIDE DEF w
<1> QED  BY <1>1, <1>2, <1>3, TaskSet

LEMMA NotAcquiredSets ==
    ASSUME DomainsTypeOK, NEW t \in Tasks, NotAcquired(t)
    PROVE  /\ RowsKept(domains') /\ Only(t)
           /\ t # "renewal" => task'[t].pc = "idle"
           /\ t = "renewal" => \/ task'[t] = Rest /\ task[t].then = "acquire"
                               \/ /\ task'[t].pc = "next" /\ task[t].then = "idle" /\ task'[t].then = "idle"
                                  /\ task'[t].renewed = task[t].renewed
<1>1. CASE t # "renewal"
  <2>1. RowsKept(domains') /\ Goto(t, "idle")
    BY <1>1, SetCertKeeps DEF NotAcquired
  <2> QED  BY <1>1, <2>1, GotoSets DEF Pcs
<1>2. CASE t = "renewal" /\ task[t].then = "acquire"
  <2>1. task' = [task EXCEPT ![t] = Rest] /\ UNCHANGED domains
    BY <1>2 DEF NotAcquired, DomainsTypeOK
  <2> QED  BY <1>2, <2>1, TaskSet, RestTyped, RowsSame
<1>3. CASE t = "renewal" /\ task[t].then # "acquire"
  <2> DEFINE w == [task[t] EXCEPT !.pc = "next", !.try = 1]
  <2>1. task[t] \in Work /\ 1 \in 1..Attempts
    BY DomainsAssumption DEF DomainsTypeOK
  <2>2. w \in Work /\ w.pc = "next" /\ task[t].then = "idle" /\ w.then = "idle" /\ w.renewed = task[t].renewed
    BY <1>3, <2>1 DEF Work, Pcs
  <2>3. task' = [task EXCEPT ![t] = w] /\ UNCHANGED domains
    BY <1>3 DEF NotAcquired, DomainsTypeOK
  <2> HIDE DEF w
  <2> QED  BY <1>3, <2>2, <2>3, TaskSet, RowsSame
<1> QED  BY <1>1, <1>2, <1>3

LEMMA EventTyped == ASSUME DomainsTypeOK, Event PROVE events' \in 0..MaxEvents
  BY DomainsAssumption DEF DomainsTypeOK, Event

LEMMA RequestsAreTasks == Requests \subseteq Tasks /\ "renewal" \in Tasks /\ "renewal" \notin Requests
  BY DomainsAssumption DEF Tasks

-----------------------------------------------------------------------------
(* The steps: the types, and what each changes.                             *)

\* The state is typed after a step when what it changes is.
LEMMA TypeNext ==
    ASSUME DomainsTypeOK,
           domains' = domains \/ RowsKept(domains') \/ (domains' \in [DOMAIN domains' -> Row] /\ DOMAIN domains' \subseteq Names),
           task' = task \/ (\E t : Only(t)),
           zoneQ' \in Seq(Tasks), issueQ' \in Seq(Tasks), caddyQ' \in Seq(Tasks),
           disk' = disk \/ disk' \in [Names -> {"none", "ok", "soon", "expired"}],
           zones' = zones \/ zones' \subseteq Names, coredns' = coredns \/ coredns' \in [up : BOOLEAN, zones : SUBSET Names],
           txt' = txt \/ txt' \in Tasks \cup {"none"},
           caddy' = caddy \/ (caddy' = [up |-> caddy'.up, sites |-> caddy'.sites] /\ caddy'.up \in BOOLEAN),
           opVars' = opVars \/ (opLock' \in BOOLEAN /\ ops' \subseteq Operation),
           proc' = proc \/ proc' = [proc EXCEPT !.shutdown = TRUE]
             \/ (\E ns \in SUBSET Names : proc' = [proc EXCEPT !.marked = ns]),
           events' = events \/ Event
    PROVE  DomainsTypeOK'
<1>1. domains' \in [DOMAIN domains' -> Row] /\ DOMAIN domains' \subseteq Names
  BY RowsTyped DEF DomainsTypeOK
<1>2. task' \in [Tasks -> Work]
  BY DEF DomainsTypeOK, Only
<1>3. opLock' \in BOOLEAN /\ ops' \subseteq Operation
  BY DEF DomainsTypeOK, opVars
<1>4. events' \in 0..MaxEvents
  BY EventTyped DEF DomainsTypeOK
<1>5. /\ disk' \in [Names -> {"none", "ok", "soon", "expired"}] /\ zones' \subseteq Names
      /\ coredns' \in [up : BOOLEAN, zones : SUBSET Names] /\ txt' \in Tasks \cup {"none"}
  BY DEF DomainsTypeOK
<1>6. caddy' = [up |-> caddy'.up, sites |-> caddy'.sites] /\ caddy'.up \in BOOLEAN
  BY DEF DomainsTypeOK
<1>7. proc' \in [phase : {"serving", "draining", "down"}, shutdown : BOOLEAN, renewing : BOOLEAN,
                 marked : SUBSET Names]
  BY DEF DomainsTypeOK
<1> QED  BY <1>1, <1>2, <1>3, <1>4, <1>5, <1>6, <1>7 DEF DomainsTypeOK

LEMMA Queues ==
    ASSUME DomainsTypeOK, NEW q \in {zoneQ, issueQ, caddyQ}
    PROVE  /\ q \in Seq(Tasks)
           /\ \A t \in Tasks : Append(q, t) \in Seq(Tasks)
           /\ \A t \in Tasks : Holds(q, t) => Tail(q) \in Seq(Tasks)
  BY DEF DomainsTypeOK, Holds

LEMMA AddDomainStep ==
    ASSUME DomainsTypeOK, OnePrimary, NEW t \in Requests, NEW n \in Names,
           \E tls, mdns \in BOOLEAN : AddDomain(t, n, tls, mdns)
    PROVE  /\ DomainsTypeOK' /\ OnePrimary' /\ Only(t)
           /\ n \notin DOMAIN domains /\ DOMAIN domains' = DOMAIN domains \cup {n}
           /\ \A m \in DOMAIN domains : domains'[m] = domains[m]
           /\ domains'[n].mdns => n \in proc'.marked
           /\ proc'.phase = proc.phase /\ proc.marked \subseteq proc'.marked
           /\ task[t].pc = "idle" /\ task'[t].name = n
           /\ \/ ServesDns /\ task'[t].pc = "add_zone" /\ zoneQ' = Append(zoneQ, t)
              \/ (domains'[n].mdns \/ ~ServesDns) /\ task'[t].pc = "reload" /\ UNCHANGED zoneQ
<1>0. PICK tls \in BOOLEAN, mdns \in BOOLEAN : AddDomain(t, n, tls, mdns)
  OBVIOUS
<1> DEFINE w == [Rest EXCEPT !.pc = IF ~mdns /\ ServesDns THEN "add_zone" ELSE "reload",
                             !.name = n, !.then = IF tls THEN "acquire" ELSE "idle"]
           r == [tls |-> tls, mdns |-> mdns, primary |-> FALSE, cert |-> IF tls THEN "acquiring" ELSE "active"]
<1>1. w \in Work /\ w.name = n /\ w.pc = IF ~mdns /\ ServesDns THEN "add_zone" ELSE "reload"
  BY RestTyped DEF Work, Pcs
<1>2. task' = [task EXCEPT ![t] = w]
  BY <1>0 DEF AddDomain
<1> HIDE DEF w
<1>3. Only(t) /\ task'[t] = w
  BY <1>1, <1>2, TaskSet, RequestsAreTasks
<1>4. r \in Row /\ ~r.primary /\ r.mdns = mdns
  BY DEF Row
<1>5. domains' = Put(domains, n, r) /\ n \notin DOMAIN domains
  BY <1>0 DEF AddDomain
<1> HIDE DEF r
<1>6. /\ DOMAIN domains' = DOMAIN domains \cup {n} /\ domains'[n] = r
      /\ \A m \in DOMAIN domains : domains'[m] = domains[m]
  BY <1>5 DEF Put
<1>7. domains' \in [DOMAIN domains' -> Row] /\ DOMAIN domains' \subseteq Names
  BY <1>4, <1>5, <1>6 DEF Put, DomainsTypeOK
<1>8. OnePrimary'
  <2>1. PICK p \in DOMAIN domains : \A m \in DOMAIN domains : domains[m].primary <=> m = p
    BY DEF OnePrimary
  <2> QED  BY <1>4, <1>5, <1>6, <2>1 DEF OnePrimary
<1>9. /\ zoneQ' = IF ~mdns /\ ServesDns THEN Append(zoneQ, t) ELSE zoneQ
      /\ task[t].pc = "idle" /\ UNCHANGED <<zones, coredns, certVars, caddyVars, opVars>> /\ Event
  BY <1>0 DEF AddDomain
<1>11. PICK ns \in SUBSET Names : /\ proc' = [proc EXCEPT !.marked = ns] /\ proc.marked \subseteq ns
                                  /\ mdns => n \in ns
  <2>1. proc' = [proc EXCEPT !.marked = IF mdns THEN proc.marked \cup {n} ELSE proc.marked]
    BY <1>0 DEF AddDomain
  <2>2. (IF mdns THEN proc.marked \cup {n} ELSE proc.marked) \in SUBSET Names
    BY DEF DomainsTypeOK
  <2> QED  BY <2>1, <2>2
<1>12. proc'.phase = proc.phase /\ proc'.marked = ns
  BY <1>11 DEF DomainsTypeOK
<1>10. DomainsTypeOK'
  <2>1. zoneQ' \in Seq(Tasks) /\ issueQ' \in Seq(Tasks) /\ caddyQ' \in Seq(Tasks)
    BY <1>9, Queues, RequestsAreTasks DEF certVars, caddyVars
  <2>2. \E ms \in SUBSET Names : proc' = [proc EXCEPT !.marked = ms]
    BY <1>11
  <2> QED  BY <1>3, <1>7, <1>9, <2>1, <2>2, TypeNext DEF certVars, caddyVars
<1> QED  BY <1>1, <1>3, <1>4, <1>5, <1>6, <1>8, <1>9, <1>10, <1>11, <1>12

LEMMA RemoveDomainStep ==
    ASSUME DomainsTypeOK, NEW t \in Requests, NEW n \in Names, RemoveDomain(t, n)
    PROVE  /\ DomainsTypeOK' /\ Only(t)
           /\ n \in DOMAIN domains /\ task[t].pc = "idle" /\ task'[t].pc = "delete" /\ task'[t].name = n
           /\ task'[t].todo = IF domains[n].mdns THEN {n} ELSE {}
<1> DEFINE w == [Rest EXCEPT !.pc = "delete", !.name = n, !.todo = IF domains[n].mdns THEN {n} ELSE {}]
<1>1. w \in Work /\ w.name = n /\ w.pc = "delete" /\ w.todo = IF domains[n].mdns THEN {n} ELSE {}
  BY RestTyped DEF Work, Pcs
<1>2. task' = [task EXCEPT ![t] = w]
  BY DEF RemoveDomain
<1> HIDE DEF w
<1>3. Only(t) /\ task'[t] = w
  BY <1>1, <1>2, TaskSet, RequestsAreTasks
<1>4. /\ n \in DOMAIN domains /\ task[t].pc = "idle" /\ Event
      /\ UNCHANGED <<domains, dnsVars, certVars, caddyVars, opVars, proc>>
  BY DEF RemoveDomain
<1>5. DomainsTypeOK'
  <2>1. zoneQ' \in Seq(Tasks) /\ issueQ' \in Seq(Tasks) /\ caddyQ' \in Seq(Tasks)
    BY <1>4, Queues DEF dnsVars, certVars, caddyVars
  <2> QED  BY <1>3, <1>4, <2>1, TypeNext DEF dnsVars, certVars, caddyVars
<1> QED  BY <1>1, <1>3, <1>4, <1>5

LEMMA RemoveDeleteStep ==
    ASSUME DomainsTypeOK, OnePrimary, NEW t \in Tasks, RemoveDelete(t)
    PROVE  /\ DomainsTypeOK' /\ OnePrimary' /\ Only(t) /\ Runs(t)
           /\ task[t].pc = "delete" /\ task'[t].name = task[t].name
           /\ \/ /\ DOMAIN domains' = DOMAIN domains \ {task[t].name} /\ task[t].name \in DOMAIN domains
                 /\ \A m \in DOMAIN domains' : domains'[m] = domains[m]
                 /\ task'[t].pc = IF task[t].todo = {} /\ ServesDns THEN "remove_zone" ELSE "reload"
                 /\ zoneQ' = IF task[t].todo = {} /\ ServesDns THEN Append(zoneQ, t) ELSE zoneQ
              \/ task'[t].pc = "idle" /\ UNCHANGED <<domains, zoneQ>>
<1> DEFINE n == task[t].name
           zone == task[t].todo = {} /\ ServesDns
<1>1. /\ Runs(t) /\ task[t].pc = "delete" /\ UNCHANGED <<zones, coredns, certVars, caddyVars, opVars, proc, events>>
      /\ \/ /\ Removable(n) /\ domains' = Without(domains, n)
            /\ zoneQ' = IF zone THEN Append(zoneQ, t) ELSE zoneQ
            /\ Goto(t, IF zone THEN "remove_zone" ELSE "reload")
         \/ Goto(t, "idle") /\ UNCHANGED <<domains, zoneQ>>
  BY DEF RemoveDelete
<1>2. ASSUME zoneQ' \in Seq(Tasks), Only(t),
             UNCHANGED domains \/ (domains' \in [DOMAIN domains' -> Row] /\ DOMAIN domains' \subseteq Names)
      PROVE  DomainsTypeOK'
  <2>1. issueQ' \in Seq(Tasks) /\ caddyQ' \in Seq(Tasks)
    BY <1>1, Queues DEF certVars, caddyVars
  <2> QED  BY <1>1, <1>2, <2>1, TypeNext DEF certVars, caddyVars
<1>3. CASE /\ Removable(n) /\ domains' = Without(domains, n)
           /\ zoneQ' = IF zone THEN Append(zoneQ, t) ELSE zoneQ
           /\ Goto(t, IF zone THEN "remove_zone" ELSE "reload")
  <2>1. /\ DOMAIN domains' = DOMAIN domains \ {n} /\ n \in DOMAIN domains /\ n # Primary
        /\ \A m \in DOMAIN domains' : domains'[m] = domains[m]
    BY <1>3 DEF Without, Removable
  <2>2. domains' \in [DOMAIN domains' -> Row] /\ DOMAIN domains' \subseteq Names
    BY <1>3, <2>1 DEF Without, DomainsTypeOK
  <2>3. OnePrimary'
    BY <2>1, PrimaryIs DEF OnePrimary
  <2>4. Only(t) /\ task'[t].pc = (IF zone THEN "remove_zone" ELSE "reload") /\ task'[t].name = n
    <3>1. (IF zone THEN "remove_zone" ELSE "reload") \in Pcs
      BY DEF Pcs
    <3> HIDE DEF zone
    <3> QED  BY <1>3, <3>1, GotoSets DEF SameWork
  <2>5. zoneQ' \in Seq(Tasks)
    BY <1>3, Queues
  <2> QED  BY <1>1, <1>2, <1>3, <2>1, <2>2, <2>3, <2>4, <2>5
<1>4. CASE Goto(t, "idle") /\ UNCHANGED <<domains, zoneQ>>
  <2>1. Only(t) /\ task'[t].pc = "idle" /\ task'[t].name = n
    BY <1>4, GotoSets DEF Pcs, SameWork
  <2>2. OnePrimary' /\ zoneQ' \in Seq(Tasks)
    BY <1>4, Queues DEF OnePrimary
  <2> QED  BY <1>1, <1>2, <1>4, <2>1, <2>2
<1> QED  BY <1>1, <1>3, <1>4

LEMMA ApplyZonesStep ==
    ASSUME DomainsTypeOK, NEW t \in Tasks, ApplyZones(t)
    PROVE  /\ DomainsTypeOK' /\ Only(t) /\ Runs(t)
           /\ task[t].pc \in {"add_zone", "remove_zone"} /\ zoneQ # <<>> /\ zoneQ[1] = t
           /\ SameWork(task'[t], task[t])
           /\ \/ /\ task[t].pc = "add_zone" /\ task[t].name \in zones /\ UNCHANGED <<zones, coredns>>
                 /\ zoneQ' = Tail(zoneQ) /\ task'[t].pc = "reload"
              \/ /\ zones' = IF task[t].pc = "add_zone" THEN zones \cup {task[t].name} ELSE zones \ {task[t].name}
                 /\ ~coredns'.up /\ UNCHANGED zoneQ /\ task'[t].pc = "restart"
<1>1. /\ Runs(t) /\ task[t].pc \in {"add_zone", "remove_zone"} /\ Holds(zoneQ, t)
      /\ UNCHANGED <<domains, certVars, caddyVars, opVars, proc, events>>
  BY DEF ApplyZones
<1>2. zoneQ # <<>> /\ zoneQ[1] = t /\ Tail(zoneQ) \in Seq(Tasks) /\ zoneQ \in Seq(Tasks)
  BY <1>1, Queues DEF Holds
<1>3. ASSUME Only(t), zoneQ' \in {zoneQ, Tail(zoneQ)}, zones' \subseteq Names,
             coredns' \in [up : BOOLEAN, zones : SUBSET Names]
      PROVE  DomainsTypeOK'
  <2>1. zoneQ' \in Seq(Tasks) /\ issueQ' \in Seq(Tasks) /\ caddyQ' \in Seq(Tasks)
    BY <1>1, <1>2, <1>3, Queues DEF certVars, caddyVars
  <2> QED  BY <1>1, <1>3, <2>1, TypeNext DEF certVars, caddyVars
<1>4. zones \subseteq Names /\ coredns \in [up : BOOLEAN, zones : SUBSET Names] /\ task[t].name \in Names
  BY DEF DomainsTypeOK, Work
<1>5. CASE task[t].pc = "add_zone" /\ task[t].name \in zones
  <2>1. Goto(t, "reload") /\ zoneQ' = Tail(zoneQ) /\ UNCHANGED <<zones, coredns>>
    BY <1>5 DEF ApplyZones
  <2>2. Only(t) /\ task'[t].pc = "reload" /\ SameWork(task'[t], task[t])
    BY <2>1, GotoSets DEF Pcs
  <2> QED  BY <1>1, <1>2, <1>3, <1>4, <1>5, <2>1, <2>2
<1>6. CASE ~(task[t].pc = "add_zone" /\ task[t].name \in zones)
  <2>1. /\ zones' = IF task[t].pc = "add_zone" THEN zones \cup {task[t].name} ELSE zones \ {task[t].name}
        /\ coredns' = [coredns EXCEPT !.up = FALSE] /\ UNCHANGED zoneQ /\ Goto(t, "restart")
    BY <1>6 DEF ApplyZones, WriteCorefile, NewZones
  <2>2. Only(t) /\ task'[t].pc = "restart" /\ SameWork(task'[t], task[t])
    BY <2>1, GotoSets DEF Pcs
  <2>3. zones' \subseteq Names /\ coredns' \in [up : BOOLEAN, zones : SUBSET Names] /\ ~coredns'.up
    BY <1>4, <2>1
  <2> QED  BY <1>1, <1>2, <1>3, <2>1, <2>2, <2>3
<1> QED  BY <1>5, <1>6

\* Whoever restarts CoreDNS holds the zone lock.
LEMMA CoreDnsStartedStep ==
    ASSUME DomainsTypeOK, NEW t \in Tasks, CoreDnsStarted(t), Holds(zoneQ, t)
    PROVE  /\ DomainsTypeOK' /\ Only(t) /\ Runs(t)
           /\ task[t].pc = "restart" /\ task'[t].pc = "reload" /\ SameWork(task'[t], task[t])
           /\ zoneQ' = Tail(zoneQ) /\ coredns'.zones = zones
<1>1. /\ Runs(t) /\ task[t].pc = "restart" /\ coredns' = [up |-> zones # {}, zones |-> zones]
      /\ zoneQ' = Tail(zoneQ) /\ Goto(t, "reload")
      /\ UNCHANGED <<domains, zones, certVars, caddyVars, opVars, proc, events>>
  BY DEF CoreDnsStarted
<1>2. Only(t) /\ task'[t].pc = "reload" /\ SameWork(task'[t], task[t])
  BY <1>1, GotoSets DEF Pcs
<1>3. DomainsTypeOK'
  <2>1. zoneQ' \in Seq(Tasks) /\ issueQ' \in Seq(Tasks) /\ caddyQ' \in Seq(Tasks)
    BY <1>1, Queues DEF certVars, caddyVars
  <2>2. coredns' \in [up : BOOLEAN, zones : SUBSET Names]
    BY <1>1 DEF DomainsTypeOK
  <2> QED  BY <1>1, <1>2, <2>1, <2>2, TypeNext DEF certVars, caddyVars
<1> QED  BY <1>1, <1>2, <1>3

LEMMA ReloadCaddyStep ==
    ASSUME DomainsTypeOK, NEW t \in Tasks, ReloadCaddy(t)
    PROVE  /\ DomainsTypeOK' /\ Only(t) /\ Runs(t)
           /\ task[t].pc = "reload" /\ task'[t].pc = "caddy" /\ SameWork(task'[t], task[t])
           /\ caddyfile' = Sites(domains, disk)
<1>1. /\ Runs(t) /\ task[t].pc = "reload" /\ caddyfile' = Sites(domains, disk)
      /\ caddyQ' = Append(caddyQ, t) /\ Goto(t, "caddy")
      /\ UNCHANGED <<domains, dnsVars, certVars, caddy, opVars, proc, events>>
  BY DEF ReloadCaddy, NewSites
<1>2. Only(t) /\ task'[t].pc = "caddy" /\ SameWork(task'[t], task[t])
  BY <1>1, GotoSets DEF Pcs
<1>3. DomainsTypeOK'
  <2>1. zoneQ' \in Seq(Tasks) /\ issueQ' \in Seq(Tasks) /\ caddyQ' \in Seq(Tasks)
    BY <1>1, Queues DEF dnsVars, certVars
  <2> QED  BY <1>1, <1>2, <2>1, TypeNext DEF dnsVars, certVars
<1> QED  BY <1>1, <1>2, <1>3

LEMMA CaddyReloadsStep ==
    ASSUME DomainsTypeOK, NEW t \in Tasks, CaddyReloads(t)
    PROVE  /\ DomainsTypeOK' /\ Only(t) /\ Runs(t)
           /\ task[t].pc = "caddy" /\ task'[t].pc = task[t].then /\ task'[t].then = "idle"
           /\ task'[t].renewed = task[t].renewed
           /\ caddy'.sites = caddyfile
<1> DEFINE w == [task[t] EXCEPT !.pc = task[t].then, !.then = "idle"]
<1>1. /\ Runs(t) /\ task[t].pc = "caddy" /\ Holds(caddyQ, t) /\ caddyQ' = Tail(caddyQ)
      /\ \E up \in BOOLEAN : caddy' = [up |-> up, sites |-> caddyfile]
      /\ events' = events \/ Event
      /\ UNCHANGED <<domains, dnsVars, certVars, caddyfile, opVars, proc>>
  BY DEF CaddyReloads, Spawned, Ok, Fault
<1>2. w \in Work /\ w.pc = task[t].then /\ w.then = "idle" /\ w.renewed = task[t].renewed
  BY DEF DomainsTypeOK, Work, Pcs
<1>3. task' = [task EXCEPT ![t] = w]
  BY DEF CaddyReloads, DomainsTypeOK
<1> HIDE DEF w
<1>4. Only(t) /\ task'[t] = w
  BY <1>2, <1>3, TaskSet
<1>5. DomainsTypeOK'
  <2>1. zoneQ' \in Seq(Tasks) /\ issueQ' \in Seq(Tasks) /\ caddyQ' \in Seq(Tasks)
    BY <1>1, Queues DEF dnsVars, certVars
  <2>2. caddy' = [up |-> caddy'.up, sites |-> caddy'.sites] /\ caddy'.up \in BOOLEAN
    BY <1>1
  <2> QED  BY <1>1, <1>4, <2>1, <2>2, TypeNext DEF dnsVars, certVars
<1> QED  BY <1>1, <1>2, <1>4, <1>5

LEMMA EnsureCertStep ==
    ASSUME DomainsTypeOK, NEW t \in Tasks, EnsureCert(t)
    PROVE  /\ DomainsTypeOK' /\ Only(t) /\ Runs(t) /\ RowsKept(domains')
           /\ task[t].pc = "acquire"
           /\ t # "renewal" => task'[t].pc \in {"reload", "order", "idle"}
           /\ issueQ' \in {issueQ, Append(issueQ, t)}
<1>1. /\ Runs(t) /\ task[t].pc = "acquire" /\ UNCHANGED <<dnsVars, disk, txt, caddyVars, opVars, proc, events>>
      /\ \/ Acquired(t) /\ UNCHANGED issueQ
         \/ Goto(t, "order") /\ issueQ' = Append(issueQ, t) /\ UNCHANGED domains
         \/ NotAcquired(t) /\ UNCHANGED issueQ
  <2>1. CASE disk[task[t].name] = "ok"
    BY <2>1 DEF EnsureCert
  <2>2. CASE disk[task[t].name] # "ok" /\ ServesDns
    BY <2>2 DEF EnsureCert
  <2>3. CASE disk[task[t].name] # "ok" /\ ~ServesDns
    BY <2>3 DEF EnsureCert
  <2> QED  BY <2>1, <2>2, <2>3
<1>2. /\ Only(t) /\ RowsKept(domains')
      /\ t # "renewal" => task'[t].pc \in {"reload", "order", "idle"}
      /\ issueQ' \in {issueQ, Append(issueQ, t)}
  <2>1. CASE Goto(t, "order") /\ issueQ' = Append(issueQ, t) /\ UNCHANGED domains
    BY <2>1, GotoSets, RowsSame DEF Pcs
  <2> QED  BY <1>1, <2>1, AcquiredSets, NotAcquiredSets
<1>3. DomainsTypeOK'
  <2>1. zoneQ' \in Seq(Tasks) /\ issueQ' \in Seq(Tasks) /\ caddyQ' \in Seq(Tasks)
    BY <1>1, <1>2, Queues DEF dnsVars, caddyVars
  <2> QED  BY <1>1, <1>2, <2>1, TypeNext DEF dnsVars, caddyVars
<1> QED  BY <1>1, <1>2, <1>3

\* What becomes of an attempt that failed.
Failed(t) ==
  \/ /\ task'[t].pc = "order" /\ task'[t].then = task[t].then /\ task'[t].renewed = task[t].renewed
     /\ UNCHANGED issueQ
  \/ /\ issueQ' = Tail(issueQ)
     /\ t # "renewal" => task'[t].pc = "idle"
     /\ t = "renewal" => \/ task'[t] = Rest /\ task[t].then = "acquire"
                         \/ /\ task'[t].pc = "next" /\ task[t].then = "idle" /\ task'[t].then = "idle"
                            /\ task'[t].renewed = task[t].renewed

LEMMA FailedSets ==
    ASSUME DomainsTypeOK, NEW t \in Tasks, TryAgain(t) \/ GiveUp(t)
    PROVE  RowsKept(domains') /\ Only(t) /\ Failed(t)
<1>1. CASE TryAgain(t)
  <2> DEFINE w == [task[t] EXCEPT !.pc = "order", !.try = task[t].try + 1]
  <2>1. task[t] \in Work /\ task[t].try + 1 \in 1..Attempts
    BY <1>1, DomainsAssumption DEF DomainsTypeOK, Work, TryAgain
  <2>2. w \in Work /\ w.pc = "order" /\ w.then = task[t].then /\ w.renewed = task[t].renewed
    BY <2>1 DEF Work, Pcs
  <2>3. task' = [task EXCEPT ![t] = w] /\ UNCHANGED <<domains, issueQ>>
    BY <1>1 DEF TryAgain, DomainsTypeOK
  <2> HIDE DEF w
  <2> QED  BY <2>2, <2>3, TaskSet, RowsSame DEF Failed
<1>2. CASE GiveUp(t)
  BY <1>2, NotAcquiredSets DEF GiveUp, Failed
<1> QED  BY <1>1, <1>2

LEMMA PublishStep ==
    ASSUME DomainsTypeOK, NEW t \in Tasks, PublishChallenge(t)
    PROVE  /\ DomainsTypeOK' /\ Only(t) /\ Runs(t) /\ RowsKept(domains')
           /\ task[t].pc = "order" /\ Holds(issueQ, t)
           /\ \/ /\ txt' = t /\ task'[t].pc = "validate" /\ SameWork(task'[t], task[t])
                 /\ UNCHANGED issueQ
              \/ Failed(t) /\ UNCHANGED txt
<1>1. /\ Runs(t) /\ task[t].pc = "order" /\ Holds(issueQ, t)
      /\ UNCHANGED <<dnsVars, disk, caddyVars, opVars, proc>>
      /\ events' = events \/ Event
      /\ \/ txt' = t /\ Goto(t, "validate") /\ UNCHANGED <<domains, issueQ>>
         \/ (TryAgain(t) \/ GiveUp(t)) /\ UNCHANGED txt
  BY DEF PublishChallenge, Turn, AttemptFails, Ok, Fault
<1>2. /\ Only(t) /\ RowsKept(domains')
      /\ \/ /\ txt' = t /\ task'[t].pc = "validate" /\ SameWork(task'[t], task[t])
            /\ UNCHANGED issueQ
         \/ Failed(t) /\ UNCHANGED txt
  <2>1. CASE txt' = t /\ Goto(t, "validate") /\ UNCHANGED <<domains, issueQ>>
    BY <2>1, GotoSets, RowsSame DEF Pcs
  <2> QED  BY <1>1, <2>1, FailedSets
<1>3. DomainsTypeOK'
  <2>1. zoneQ' \in Seq(Tasks) /\ issueQ' \in Seq(Tasks) /\ caddyQ' \in Seq(Tasks)
    BY <1>1, <1>2, Queues DEF dnsVars, caddyVars, Failed
  <2>2. txt' = txt \/ txt' \in Tasks \cup {"none"}
    BY <1>2
  <2> QED  BY <1>1, <1>2, <2>1, <2>2, TypeNext DEF dnsVars, caddyVars
<1> QED  BY <1>1, <1>2, <1>3

\* Whoever waits for the CA holds the issuance lock, as long as there are others.
LEMMA IssuedStep ==
    ASSUME DomainsTypeOK, NEW t \in Tasks, CertIssued(t), Tail(issueQ) \in Seq(Tasks)
    PROVE  /\ DomainsTypeOK' /\ Only(t) /\ Runs(t) /\ RowsKept(domains')
           /\ task[t].pc = "validate" /\ issueQ' = Tail(issueQ)
           /\ t # "renewal" => task'[t].pc = "reload"
           /\ t = "renewal" => /\ task'[t].pc \in {"list", "next"} /\ task'[t].then = "idle" /\ task'[t].renewed
<1>1. /\ Runs(t) /\ task[t].pc = "validate" /\ issueQ' = Tail(issueQ) /\ Acquired(t)
      /\ txt' = "none" /\ disk' = [disk EXCEPT ![task[t].name] = "ok"]
      /\ UNCHANGED <<dnsVars, caddyVars, opVars, proc, events>>
  BY DEF CertIssued
<1>2. DomainsTypeOK'
  <2>1. zoneQ' \in Seq(Tasks) /\ issueQ' \in Seq(Tasks) /\ caddyQ' \in Seq(Tasks)
    BY <1>1, Queues DEF dnsVars, caddyVars
  <2>2. disk' \in [Names -> {"none", "ok", "soon", "expired"}]
    BY <1>1 DEF DomainsTypeOK
  <2>3. Only(t) /\ RowsKept(domains')
    BY <1>1, AcquiredSets
  <2> QED  BY <1>1, <2>1, <2>2, <2>3, TypeNext DEF dnsVars, caddyVars
<1> QED  BY <1>1, <1>2, AcquiredSets

LEMMA RefusedStep ==
    ASSUME DomainsTypeOK, NEW t \in Tasks, CertRefused(t), Tail(issueQ) \in Seq(Tasks)
    PROVE  /\ DomainsTypeOK' /\ Only(t) /\ Runs(t) /\ RowsKept(domains')
           /\ task[t].pc = "validate" /\ Failed(t)
<1>1. /\ Runs(t) /\ task[t].pc = "validate" /\ txt' = "none"
      /\ TryAgain(t) \/ GiveUp(t)
      /\ UNCHANGED <<dnsVars, disk, caddyVars, opVars, proc>>
      /\ events' = events \/ Event
  BY DEF CertRefused, AttemptFails, Ok, Fault
<1>2. DomainsTypeOK'
  <2>1. RowsKept(domains') /\ Only(t) /\ Failed(t)
    BY <1>1, FailedSets
  <2>2. zoneQ' \in Seq(Tasks) /\ issueQ' \in Seq(Tasks) /\ caddyQ' \in Seq(Tasks)
    BY <1>1, <2>1, Queues DEF dnsVars, caddyVars, Failed
  <2> QED  BY <1>1, <2>1, <2>2, TypeNext DEF dnsVars, caddyVars
<1> QED  BY <1>1, <1>2, FailedSets

LEMMA RenewalStep ==
    ASSUME DomainsTypeOK, OnePrimary, RenewPrimary \/ RenewList \/ RenewNext
    PROVE  /\ DomainsTypeOK' /\ Only("renewal") /\ Runs("renewal") /\ RowsKept(domains')
           /\ \/ /\ task["renewal"].pc = "idle" /\ ~task'["renewal"].renewed
                 /\ \/ task'["renewal"].pc = "order" /\ issueQ' = Append(issueQ, "renewal")
                    \/ task'["renewal"].pc = "list" /\ task'["renewal"].then = "idle" /\ UNCHANGED issueQ
              \/ /\ task["renewal"].pc = "list" /\ task'["renewal"].pc = "next" /\ UNCHANGED issueQ
                 /\ task'["renewal"].renewed = task["renewal"].renewed
                 /\ task'["renewal"].then = task["renewal"].then
              \/ /\ task["renewal"].pc = "next"
                 /\ \/ /\ task'["renewal"].renewed = task["renewal"].renewed
                       /\ task'["renewal"].then = task["renewal"].then
                       /\ \/ task'["renewal"].pc = "next" /\ UNCHANGED issueQ
                          \/ task'["renewal"].pc = "order" /\ issueQ' = Append(issueQ, "renewal")
                    \/ /\ task'["renewal"].pc = IF task["renewal"].renewed THEN "reload" ELSE "idle"
                       /\ task'["renewal"].then = "idle" /\ ~task'["renewal"].renewed /\ UNCHANGED issueQ
<1> DEFINE r == task["renewal"]
<1>0. r \in Work /\ "renewal" \in Tasks
  BY RequestsAreTasks DEF DomainsTypeOK
<1>1. ASSUME Only("renewal"), RowsKept(domains'), issueQ' \in {issueQ, Append(issueQ, "renewal")},
             UNCHANGED <<dnsVars, disk, txt, caddyVars, opVars, proc, events>>
      PROVE  DomainsTypeOK'
  <2>1. zoneQ' \in Seq(Tasks) /\ issueQ' \in Seq(Tasks) /\ caddyQ' \in Seq(Tasks)
    BY <1>0, <1>1, Queues DEF dnsVars, caddyVars
  <2> QED  BY <1>1, <2>1, TypeNext DEF dnsVars, caddyVars
<1>2. CASE RenewPrimary
  <2> DEFINE p == Primary
             w == [Rest EXCEPT !.pc = "order", !.name = p, !.then = "acquire"]
             v == [Rest EXCEPT !.pc = "list", !.name = p]
  <2>1. p \in Names
    BY PrimaryIs DEF DomainsTypeOK
  <2>2. /\ w \in Work /\ w.pc = "order" /\ ~w.renewed
        /\ v \in Work /\ v.pc = "list" /\ ~v.renewed /\ v.then = "idle"
    <3> HIDE DEF p
    <3> QED  BY <2>1, RestTyped DEF Work, Pcs, Rest
  <2>3. /\ Runs("renewal") /\ r.pc = "idle" /\ domains' = Synced
        /\ UNCHANGED <<dnsVars, disk, txt, caddyVars, opVars, proc, events>>
        /\ \/ task' = [task EXCEPT !["renewal"] = w] /\ issueQ' = Append(issueQ, "renewal")
           \/ task' = [task EXCEPT !["renewal"] = v] /\ UNCHANGED issueQ
    BY <1>2 DEF RenewPrimary
  <2> HIDE DEF w, v
  <2>4. Only("renewal") /\ RowsKept(domains')
    BY <1>0, <2>2, <2>3, TaskSet, SyncedKeeps
  <2> QED  BY <1>0, <1>1, <2>2, <2>3, <2>4, TaskSet
<1>3. CASE RenewList
  <2> DEFINE w == [r EXCEPT !.pc = "next", !.todo = {n \in DOMAIN domains : domains[n].tls} \ {r.name}]
  <2>1. DOMAIN domains \subseteq Names
    BY DEF DomainsTypeOK
  <2>2. w \in Work /\ w.pc = "next" /\ w.renewed = r.renewed /\ w.then = r.then
    BY <1>0, <2>1 DEF Work, Pcs
  <2>3. /\ Runs("renewal") /\ r.pc = "list" /\ task' = [task EXCEPT !["renewal"] = w]
        /\ UNCHANGED <<domains, dnsVars, certVars, caddyVars, opVars, proc, events>>
    BY <1>3 DEF RenewList, DomainsTypeOK
  <2> HIDE DEF w
  <2> QED  BY <1>0, <1>1, <2>2, <2>3, TaskSet, RowsSame DEF certVars
<1>4. CASE RenewNext
  <2>1. /\ Runs("renewal") /\ r.pc = "next"
        /\ UNCHANGED <<domains, dnsVars, disk, txt, caddyVars, opVars, proc, events>>
    BY <1>4 DEF RenewNext
  <2>2. CASE task' = [task EXCEPT !["renewal"] = IF r.renewed THEN [Rest EXCEPT !.pc = "reload"] ELSE Rest]
             /\ UNCHANGED issueQ
    <3> DEFINE w == IF r.renewed THEN [Rest EXCEPT !.pc = "reload"] ELSE Rest
    <3>1. w \in Work /\ w.pc = (IF r.renewed THEN "reload" ELSE "idle") /\ w.then = "idle" /\ ~w.renewed
      BY RestTyped DEF Work, Pcs, Rest
    <3>2. task' = [task EXCEPT !["renewal"] = w]
      BY <2>2
    <3> HIDE DEF w
    <3> QED  BY <1>0, <1>1, <2>1, <2>2, <3>1, <3>2, TaskSet, RowsSame
  <2>3. ASSUME NEW n \in r.todo, task' = [task EXCEPT !["renewal"].todo = @ \ {n}] /\ UNCHANGED issueQ
        PROVE  Only("renewal") /\ task'["renewal"].pc = r.pc /\ task'["renewal"].renewed = r.renewed
               /\ task'["renewal"].then = r.then
    <3> DEFINE w == [r EXCEPT !.todo = r.todo \ {n}]
    <3>1. w \in Work /\ w.pc = r.pc /\ w.then = r.then /\ w.renewed = r.renewed
      BY <1>0 DEF Work
    <3>2. task' = [task EXCEPT !["renewal"] = w]
      BY <2>3 DEF DomainsTypeOK
    <3> HIDE DEF w
    <3> QED  BY <1>0, <3>1, <3>2, TaskSet
  <2>4. ASSUME NEW n \in r.todo,
               task' = [task EXCEPT !["renewal"] = [r EXCEPT !.todo = @ \ {n}, !.name = n, !.pc = "order"]]
        PROVE  Only("renewal") /\ task'["renewal"].pc = "order" /\ task'["renewal"].renewed = r.renewed
               /\ task'["renewal"].then = r.then
    <3> DEFINE w == [r EXCEPT !.todo = r.todo \ {n}, !.name = n, !.pc = "order"]
    <3>1. w \in Work /\ w.pc = "order" /\ w.then = r.then /\ w.renewed = r.renewed
      BY <1>0 DEF Work, Pcs
    <3>2. task' = [task EXCEPT !["renewal"] = w]
      BY <2>4
    <3> HIDE DEF w
    <3> QED  BY <1>0, <3>1, <3>2, TaskSet
  <2>5. \/ /\ task' = [task EXCEPT !["renewal"] = IF r.renewed THEN [Rest EXCEPT !.pc = "reload"] ELSE Rest]
           /\ UNCHANGED issueQ
        \/ \E n \in r.todo : task' = [task EXCEPT !["renewal"].todo = @ \ {n}] /\ UNCHANGED issueQ
        \/ \E n \in r.todo : /\ task' = [task EXCEPT !["renewal"] = [r EXCEPT !.todo = @ \ {n}, !.name = n, !.pc = "order"]]
                             /\ issueQ' = Append(issueQ, "renewal")
    BY <1>4 DEF RenewNext
  <2> QED  BY <1>1, <2>1, <2>2, <2>3, <2>4, <2>5, RowsSame
<1> QED  BY <1>2, <1>3, <1>4

\* Requests that wait for an operation, and operations: they touch the marks of
\* no row but the primary's.
Waits ==
  \/ UNCHANGED task
  \/ \E t \in Requests : /\ Only(t) /\ task[t].pc \in {"idle", "await"} /\ task'[t].pc \in {"idle", "await"}
                         /\ task[t].pc = "idle" \/ task'[t].pc = "await" => Serving

MarksKept ==
  /\ DOMAIN domains' = DOMAIN domains
  /\ \A n \in DOMAIN domains : domains'[n].tls = domains[n].tls /\ domains'[n].mdns = domains[n].mdns

LEMMA StartOperationStep ==
    ASSUME DomainsTypeOK, NEW t \in Requests, NEW kind \in {"promote", "archive"}, NEW n \in Names,
           StartOperation(t, kind, n)
    PROVE  /\ DomainsTypeOK' /\ Waits
           /\ UNCHANGED <<domains, dnsVars, certVars, caddyVars, proc>>
<1> DEFINE w == [Rest EXCEPT !.pc = "await", !.name = n]
           o == [kind |-> kind, name |-> n, by |-> t, pc |-> "check"]
<1>1. w \in Work /\ w.pc = "await"
  BY RestTyped DEF Work, Pcs
<1>2. /\ task' = [task EXCEPT ![t] = w] /\ task[t].pc = "idle" /\ Event
      /\ ops' = ops \cup {o} /\ opLock' = TRUE /\ Serving
      /\ UNCHANGED <<domains, dnsVars, certVars, caddyVars, proc>>
  BY DEF StartOperation
<1> HIDE DEF w
<1>3. Only(t) /\ task'[t] = w
  BY <1>1, <1>2, TaskSet, RequestsAreTasks
<1>4. opLock' \in BOOLEAN /\ ops' \subseteq Operation
  BY <1>2 DEF DomainsTypeOK, Operation
<1>5. DomainsTypeOK'
  <2>1. zoneQ' \in Seq(Tasks) /\ issueQ' \in Seq(Tasks) /\ caddyQ' \in Seq(Tasks)
    BY <1>2, Queues DEF dnsVars, certVars, caddyVars
  <2> QED  BY <1>2, <1>3, <1>4, <2>1, TypeNext DEF dnsVars, certVars, caddyVars
<1> QED  BY <1>1, <1>2, <1>3, <1>5 DEF Waits

LEMMA CancelStep ==
    ASSUME DomainsTypeOK, NEW t \in Requests, Cancel(t)
    PROVE  /\ DomainsTypeOK' /\ Waits
           /\ UNCHANGED <<domains, dnsVars, certVars, caddyVars, proc>>
<1>1. /\ Only(t) /\ task[t].pc = "await" /\ task'[t].pc = "idle" /\ Event
      /\ UNCHANGED <<domains, dnsVars, certVars, caddyVars, opVars, proc>>
  BY GotoSets, RequestsAreTasks DEF Cancel, Pcs
<1>2. zoneQ' \in Seq(Tasks) /\ issueQ' \in Seq(Tasks) /\ caddyQ' \in Seq(Tasks)
  BY <1>1, Queues DEF dnsVars, certVars, caddyVars
<1> QED  BY <1>1, <1>2, TypeNext DEF dnsVars, certVars, caddyVars, Waits

LEMMA EndOperationSets ==
    ASSUME DomainsTypeOK, NEW o \in ops, EndOperation(o)
    PROVE  Waits /\ (task' = task \/ \E t : Only(t)) /\ opLock' \in BOOLEAN /\ ops' \subseteq Operation
<1>1. opLock' \in BOOLEAN /\ ops' \subseteq Operation
  BY DEF EndOperation, DomainsTypeOK
<1>2. CASE task[o.by].pc = "await"
  <2>1. o.by \in Requests /\ task' = [task EXCEPT ![o.by] = Rest]
    BY <1>2 DEF EndOperation, DomainsTypeOK, Operation
  <2>2. Only(o.by) /\ task'[o.by] = Rest /\ Rest.pc = "idle"
    BY <2>1, TaskSet, RestTyped, RequestsAreTasks DEF Rest
  <2> QED  BY <1>1, <1>2, <2>1, <2>2 DEF Waits
<1>3. CASE task[o.by].pc # "await"
  BY <1>1, <1>3 DEF EndOperation, Waits
<1> QED  BY <1>2, <1>3

LEMMA OperationsStep ==
    ASSUME DomainsTypeOK, OnePrimary, OperationStep
    PROVE  /\ DomainsTypeOK' /\ OnePrimary' /\ Waits /\ MarksKept
           /\ UNCHANGED <<dnsVars, certVars, caddyVars>> /\ proc'.phase = proc.phase
<1>1. PICK o \in ops : OperationChecks(o) \/ OperationWorks(o) \/ OperationTriggers(o)
  BY DEF OperationStep
<1>2. o \in Operation
  BY DEF DomainsTypeOK
<1>3. ASSUME NEW pc \in {"thread", "trigger"}, ops' = (ops \ {o}) \cup {[o EXCEPT !.pc = pc]}, UNCHANGED opLock
      PROVE  opLock' \in BOOLEAN /\ ops' \subseteq Operation
  BY <1>2, <1>3 DEF DomainsTypeOK, Operation
<1>4. /\ UNCHANGED <<dnsVars, certVars, caddyVars>>
      /\ events' = events \/ Event
      /\ proc' = proc \/ proc' = [proc EXCEPT !.shutdown = TRUE]
  BY <1>1 DEF OperationChecks, OperationWorks, OperationTriggers, Ok, Fault
<1>5. opLock' \in BOOLEAN /\ ops' \subseteq Operation /\ Waits /\ (task' = task \/ \E t : Only(t))
  BY <1>1, <1>3, EndOperationSets DEF OperationChecks, OperationWorks, OperationTriggers, Waits
<1>6. /\ domains' \in [DOMAIN domains -> Row] /\ MarksKept /\ OnePrimary'
  <2>1. CASE UNCHANGED domains
    BY <2>1 DEF DomainsTypeOK, MarksKept, OnePrimary
  <2>2. CASE /\ domains' = [n \in DOMAIN domains |-> [domains[n] EXCEPT !.primary = (n = o.name)]]
             /\ Promotable(o.name)
    <3>1. ASSUME NEW n \in DOMAIN domains
          PROVE  /\ domains'[n] \in Row /\ (domains'[n].primary <=> n = o.name)
                 /\ domains'[n].tls = domains[n].tls /\ domains'[n].mdns = domains[n].mdns
      <4>1. domains[n] \in Row /\ (n = o.name) \in BOOLEAN
        BY DEF DomainsTypeOK
      <4>2. domains'[n] = [domains[n] EXCEPT !.primary = (n = o.name)]
        BY <2>2
      <4> QED  BY <4>1, <4>2 DEF Row
    <3>2. DOMAIN domains' = DOMAIN domains /\ o.name \in DOMAIN domains
      BY <2>2 DEF Promotable
    <3>3. domains' \in [DOMAIN domains -> Row]
      BY <2>2, <3>1
    <3> QED  BY <3>1, <3>2, <3>3 DEF MarksKept, OnePrimary
  <2> QED  BY <1>1, <2>1, <2>2 DEF OperationChecks, OperationWorks, OperationTriggers
<1>7. DomainsTypeOK'
  <2>1. zoneQ' \in Seq(Tasks) /\ issueQ' \in Seq(Tasks) /\ caddyQ' \in Seq(Tasks)
    BY <1>4, Queues DEF dnsVars, certVars, caddyVars
  <2>2. domains' \in [DOMAIN domains' -> Row] /\ DOMAIN domains' \subseteq Names
    BY <1>6 DEF DomainsTypeOK
  <2> QED  BY <1>4, <1>5, <2>1, <2>2, TypeNext DEF dnsVars, certVars, caddyVars
<1>8. proc'.phase = proc.phase
  BY <1>4 DEF DomainsTypeOK
<1> QED  BY <1>4, <1>5, <1>6, <1>7, <1>8

LEMMA ServeEndsStep ==
    ASSUME DomainsTypeOK, ServeEnds
    PROVE  /\ DomainsTypeOK' /\ proc.phase = "serving" /\ proc'.phase = "draining"
           /\ \A t \in Requests : task'[t] = Rest
           /\ task'["renewal"] = task["renewal"]
           /\ UNCHANGED domains
           /\ txt' = IF txt \in Requests THEN "none" ELSE txt
<1>1. ASSUME NEW q \in {zoneQ, issueQ, caddyQ} PROVE RenewalOf(q) \in Seq(Tasks)
  BY RequestsAreTasks DEF RenewalOf
<1>2. /\ zoneQ' \in Seq(Tasks) /\ caddyQ' \in Seq(Tasks) /\ issueQ' \in Seq(Tasks)
  <2>1. zoneQ' = RenewalOf(zoneQ) /\ caddyQ' = RenewalOf(caddyQ) /\ issueQ' = RenewalOf(issueQ)
    BY DEF ServeEnds
  <2> QED  BY <1>1, <2>1
<1>3. /\ proc' = [proc EXCEPT !.phase = "draining"] /\ proc.phase = "serving"
      /\ task' = [t \in Tasks |-> IF t \in Requests THEN Rest ELSE task[t]]
      /\ txt' = IF txt \in Requests THEN "none" ELSE txt
      /\ UNCHANGED <<domains, zones, coredns, disk, caddyfile, caddy, opVars, events>>
  BY DEF ServeEnds, Serving
<1>4. task' \in [Tasks -> Work]
  <2>1. \A t \in Tasks : task[t] \in Work
    BY DEF DomainsTypeOK
  <2> QED  BY <1>3, <2>1, RestTyped
<1>5. DomainsTypeOK'
  <2>1. proc' \in [phase : {"serving", "draining", "down"}, shutdown : BOOLEAN, renewing : BOOLEAN,
                   marked : SUBSET Names]
    BY <1>3 DEF DomainsTypeOK
  <2>2. /\ domains' \in [DOMAIN domains' -> Row] /\ DOMAIN domains' \subseteq Names
        /\ disk' \in [Names -> {"none", "ok", "soon", "expired"}] /\ zones' \subseteq Names
        /\ coredns' \in [up : BOOLEAN, zones : SUBSET Names] /\ txt' \in Tasks \cup {"none"}
    BY <1>3 DEF DomainsTypeOK
  <2>3. /\ caddy' = [up |-> caddy'.up, sites |-> caddy'.sites] /\ caddy'.up \in BOOLEAN
        /\ opLock' \in BOOLEAN /\ ops' \subseteq Operation /\ events' \in 0..MaxEvents
    BY <1>3 DEF DomainsTypeOK, opVars
  <2> QED  BY <1>2, <1>4, <2>1, <2>2, <2>3 DEF DomainsTypeOK
<1>6. proc'.phase = "draining"
  BY <1>3 DEF DomainsTypeOK
<1> QED  BY <1>3, <1>5, <1>6, RequestsAreTasks

LEMMA StoppedStep ==
    ASSUME DomainsTypeOK, Exit \/ Crash
    PROVE  /\ DomainsTypeOK' /\ proc'.phase = "down" /\ UNCHANGED domains
           /\ \A t \in Tasks : task'[t] = Rest
           /\ zoneQ' = <<>> /\ issueQ' = <<>> /\ zones' = {}
<1>1. Stopped /\ (events' = events \/ Event)
  BY DEF Exit, Crash, Ok, Fault
<1>2. events' \in 0..MaxEvents
  BY <1>1, EventTyped DEF DomainsTypeOK
<1>3. zoneQ' \in Seq(Tasks) /\ issueQ' \in Seq(Tasks) /\ caddyQ' \in Seq(Tasks)
  BY <1>1 DEF Stopped
<1>4. task' \in [Tasks -> Work] /\ \A t \in Tasks : task'[t] = Rest
  BY <1>1, RestTyped DEF Stopped
<1>5. /\ domains' \in [DOMAIN domains' -> Row] /\ DOMAIN domains' \subseteq Names /\ UNCHANGED domains
      /\ disk' \in [Names -> {"none", "ok", "soon", "expired"}] /\ zones' \subseteq Names
      /\ coredns' \in [up : BOOLEAN, zones : SUBSET Names] /\ txt' \in Tasks \cup {"none"}
      /\ caddy' = [up |-> caddy'.up, sites |-> caddy'.sites] /\ caddy'.up \in BOOLEAN
      /\ opLock' \in BOOLEAN /\ ops' \subseteq Operation
  BY <1>1 DEF Stopped, DomainsTypeOK
<1>6. proc' \in [phase : {"serving", "draining", "down"}, shutdown : BOOLEAN, renewing : BOOLEAN,
                 marked : SUBSET Names] /\ proc'.phase = "down"
  BY <1>1 DEF Stopped, DomainsTypeOK
<1>7. DomainsTypeOK'
  BY <1>2, <1>3, <1>4, <1>5, <1>6 DEF DomainsTypeOK
<1> QED  BY <1>1, <1>4, <1>6, <1>7 DEF Stopped

LEMMA BootStep ==
    ASSUME DomainsTypeOK, OnePrimary, Boot
    PROVE  /\ DomainsTypeOK' /\ proc.phase = "down" /\ proc'.phase = "serving"
           /\ UNCHANGED <<domains, task, txt, zoneQ, issueQ, caddyQ>>
           /\ zones' = Public(domains) /\ coredns'.zones = zones'
           /\ caddyfile' = Sites(domains, disk') /\ caddy'.sites = caddyfile'
           /\ proc'.marked = {n \in DOMAIN domains : domains[n].mdns}
<1> DEFINE p == Primary
<1>1. p \in Names
  BY PrimaryIs DEF DomainsTypeOK
<1>2. PICK d \in {disk, [disk EXCEPT ![p] = IF domains[p].tls /\ ServesDns THEN "ok" ELSE @]} :
             /\ disk' = d
             /\ caddyfile' = Sites(domains, d)
             /\ caddy' = [up |-> TRUE, sites |-> Sites(domains, d)]
  BY DEF Boot
<1>3. disk' \in [Names -> {"none", "ok", "soon", "expired"}]
  BY <1>1, <1>2 DEF DomainsTypeOK
<1>4. /\ proc.phase = "down"
      /\ zones' = Public(domains) /\ coredns' = [up |-> Public(domains) # {}, zones |-> Public(domains)]
      /\ proc' = [phase |-> "serving", shutdown |-> FALSE,
                  renewing |-> ServesDns /\ \E n \in DOMAIN domains : domains[n].tls,
                  marked |-> {n \in DOMAIN domains : domains[n].mdns}]
      /\ UNCHANGED <<domains, txt, task, zoneQ, issueQ, caddyQ, opVars, events>>
  BY DEF Boot
<1>5. Public(domains) \subseteq Names
  BY DEF Public, DomainsTypeOK
<1>6. /\ zones' \subseteq Names /\ coredns' \in [up : BOOLEAN, zones : SUBSET Names]
      /\ caddy' = [up |-> caddy'.up, sites |-> caddy'.sites] /\ caddy'.up \in BOOLEAN
      /\ proc' \in [phase : {"serving", "draining", "down"}, shutdown : BOOLEAN, renewing : BOOLEAN,
                    marked : SUBSET Names]
  <2>1. /\ (ServesDns /\ \E n \in DOMAIN domains : domains[n].tls) \in BOOLEAN
        /\ {n \in DOMAIN domains : domains[n].mdns} \in SUBSET Names
    BY DomainsAssumption DEF DomainsTypeOK
  <2> QED  BY <1>2, <1>4, <1>5, <2>1
<1>7. DomainsTypeOK'
  BY <1>3, <1>4, <1>6 DEF DomainsTypeOK, opVars
<1> QED  BY <1>2, <1>4, <1>7

LEMMA ElseStep ==
    ASSUME DomainsTypeOK, RequestRestart \/ CaddyDies \/ CoreDnsDies \/ \E n \in Names : Ages(n)
    PROVE  /\ DomainsTypeOK' /\ proc'.phase = proc.phase
           /\ UNCHANGED <<domains, zones, zoneQ, issueQ, txt, caddyfile, task>>
           /\ coredns'.up => coredns.up /\ coredns' = coredns
           /\ caddy'.up => caddy' = caddy
           /\ Sites(domains, disk') = Sites(domains, disk)
<1>0. zoneQ \in Seq(Tasks) /\ issueQ \in Seq(Tasks) /\ caddyQ \in Seq(Tasks)
  BY DEF DomainsTypeOK
<1>1. CASE RequestRestart
  BY <1>0, <1>1, TypeNext DEF RequestRestart, dnsVars, certVars, caddyVars, DomainsTypeOK
<1>2. CASE CaddyDies
  <2>1. caddy' = [caddy EXCEPT !.up = FALSE]
    BY <1>2 DEF CaddyDies
  <2>2. caddy' = [up |-> caddy'.up, sites |-> caddy'.sites] /\ ~caddy'.up /\ caddy'.up \in BOOLEAN
    BY <2>1 DEF DomainsTypeOK
  <2> QED  BY <1>0, <1>2, <2>2, TypeNext DEF CaddyDies, dnsVars, certVars, Fault
<1>3. CASE CoreDnsDies
  <2>1. coredns' \in [up : BOOLEAN, zones : SUBSET Names] /\ ~coredns'.up
    BY <1>3 DEF CoreDnsDies, DomainsTypeOK
  <2> QED  BY <1>0, <1>3, <2>1, TypeNext DEF CoreDnsDies, certVars, caddyVars, Fault
<1>4. ASSUME NEW n \in Names, Ages(n)
      PROVE  /\ DomainsTypeOK' /\ proc'.phase = proc.phase
             /\ UNCHANGED <<domains, zones, zoneQ, issueQ, txt, caddyfile, task, coredns, caddy>>
             /\ Sites(domains, disk') = Sites(domains, disk)
  <2>1. disk' \in [Names -> {"none", "ok", "soon", "expired"}]
    BY <1>4 DEF Ages, DomainsTypeOK
  <2>2. \A m \in Names : disk'[m] = "none" <=> disk[m] = "none"
    BY <1>4 DEF Ages, DomainsTypeOK
  <2>3. Sites(domains, disk') = Sites(domains, disk)
    BY <2>2 DEF Sites, DomainsTypeOK
  <2> QED  BY <1>0, <1>4, <2>1, <2>3, TypeNext DEF Ages, dnsVars, caddyVars
<1> QED  BY <1>1, <1>2, <1>3, <1>4

-----------------------------------------------------------------------------
(* The invariants of the tasks.                                             *)

RequestSteps(t) ==
  \/ \E n \in Names, tls, mdns \in BOOLEAN : AddDomain(t, n, tls, mdns)
  \/ \E n \in Names : RemoveDomain(t, n)

LEMMA NextCases ==
    ASSUME DomainsNext
    PROVE  \/ \E t \in Requests : RequestSteps(t)
           \/ \E t \in Requests, kind \in {"promote", "archive"}, n \in Names : StartOperation(t, kind, n)
           \/ \E t \in Requests : Cancel(t)
           \/ \E t \in Tasks : TaskStep(t)
           \/ RenewPrimary \/ RenewList \/ RenewNext
           \/ OperationStep \/ ServeEnds \/ Exit \/ Crash \/ Boot
           \/ RequestRestart \/ CaddyDies \/ CoreDnsDies \/ \E n \in Names : Ages(n)
<1>1. ASSUME NEW t \in Requests, NEW g \in Given, AddDomain(t, g.name, g.tls, g.mdns) PROVE RequestSteps(t)
  <2>1. g.name \in Names /\ g.tls \in BOOLEAN /\ g.mdns \in BOOLEAN
    BY DomainsAssumption
  <2> QED  BY <1>1, <2>1 DEF RequestSteps
<1> QED  BY <1>1, DomainsAssumption DEF DomainsNext, RequestSteps, MakePrimary, ConfigureArchive, ProcessStep

\* While the router runs, the names that were marked in it grow.
LEMMA MarkedGrow ==
    ASSUME DomainsTypeOK, [DomainsNext]_domainsVars
    PROVE  Boot \/ proc.marked \subseteq proc'.marked
<1>1. ASSUME NEW t \in Requests, RequestSteps(t) PROVE proc.marked \subseteq proc'.marked
  <2>1. ASSUME NEW n \in Names, \E tls, mdns \in BOOLEAN : AddDomain(t, n, tls, mdns)
        PROVE  proc.marked \subseteq proc'.marked
    <3>0. PICK tls \in BOOLEAN, mdns \in BOOLEAN : AddDomain(t, n, tls, mdns)
      BY <2>1
    <3>1. proc' = [proc EXCEPT !.marked = IF mdns THEN proc.marked \cup {n} ELSE proc.marked]
      BY <3>0 DEF AddDomain
    <3>2. proc'.marked = IF mdns THEN proc.marked \cup {n} ELSE proc.marked
      BY <3>1 DEF DomainsTypeOK
    <3> QED  BY <3>2
  <2>2. ASSUME NEW n \in Names, RemoveDomain(t, n) PROVE UNCHANGED proc
    BY <2>2 DEF RemoveDomain
  <2> QED  BY <1>1, <2>1, <2>2 DEF RequestSteps
<1>2. ASSUME NEW t \in Requests, NEW kind \in {"promote", "archive"}, NEW n \in Names, StartOperation(t, kind, n)
      PROVE  UNCHANGED proc
  BY <1>2 DEF StartOperation
<1>3. ASSUME NEW t \in Requests, Cancel(t) PROVE UNCHANGED proc
  BY <1>3 DEF Cancel
<1>4. ASSUME NEW t \in Tasks, TaskStep(t) PROVE UNCHANGED proc
  BY <1>4 DEF TaskStep, RemoveDelete, ApplyZones, CoreDnsStarted, ReloadCaddy, CaddyReloads, EnsureCert,
     PublishChallenge, CertIssued, CertRefused
<1>5. RenewPrimary \/ RenewList \/ RenewNext => UNCHANGED proc
  BY DEF RenewPrimary, RenewList, RenewNext
<1>6. OperationStep => proc' = proc \/ proc' = [proc EXCEPT !.shutdown = TRUE]
  BY DEF OperationStep, OperationChecks, OperationWorks, OperationTriggers
<1>7. RequestRestart \/ CaddyDies \/ CoreDnsDies \/ (\E n \in Names : Ages(n))
        => proc' = proc \/ proc' = [proc EXCEPT !.shutdown = TRUE]
  BY DEF RequestRestart, CaddyDies, CoreDnsDies, Ages
<1>8. ServeEnds => proc' = [proc EXCEPT !.phase = "draining"]
  BY DEF ServeEnds
<1>9. Exit \/ Crash => proc' = [proc EXCEPT !.phase = "down", !.shutdown = FALSE, !.renewing = FALSE]
  BY DEF Exit, Crash, Stopped
<1>10. ASSUME \/ UNCHANGED proc \/ proc' = [proc EXCEPT !.shutdown = TRUE] \/ proc' = [proc EXCEPT !.phase = "draining"]
              \/ proc' = [proc EXCEPT !.phase = "down", !.shutdown = FALSE, !.renewing = FALSE]
       PROVE  proc'.marked = proc.marked
  BY <1>10 DEF DomainsTypeOK
<1>11. CASE UNCHANGED domainsVars
  BY <1>11 DEF domainsVars
<1> QED  BY <1>1, <1>2, <1>3, <1>4, <1>5, <1>6, <1>7, <1>8, <1>9, <1>10, <1>11, NextCases

TaskInv == DomainsTypeOK /\ OnePrimary /\ RolesInv /\ MarksInv /\ ProcInv /\ IssueInv /\ ZoneQueueInv

LEMMA HolderFirst ==
    ASSUME TaskInv, NEW t \in Tasks
    PROVE  /\ CoreDnsStarted(t) => t \in Requests /\ Serving /\ Holds(zoneQ, t)
           /\ task[t].pc = "validate" => Tail(issueQ) \in Seq(Tasks)
<1>1. CASE CoreDnsStarted(t)
  <2>1. task[t].pc = "restart" /\ Runs(t)
    BY <1>1 DEF CoreDnsStarted
  <2>2. t \in Requests /\ Serving
    BY <2>1, RequestsAreTasks DEF TaskInv, RolesInv, Runs, Tasks
  <2>3. PICK i \in DOMAIN zoneQ : zoneQ[i] = t
    BY <2>1, <2>2 DEF TaskInv, ZoneQueueInv, Zoning
  <2>4. i = 1
    BY <2>1, <2>2, <2>3 DEF TaskInv, ZoneQueueInv
  <2>5. zoneQ \in Seq(Tasks)
    BY DEF TaskInv, DomainsTypeOK
  <2> QED  BY <2>1, <2>2, <2>3, <2>4, <2>5 DEF Holds
<1>2. task[t].pc = "validate" => Tail(issueQ) \in Seq(Tasks)
  BY Queues DEF TaskInv, IssueInv
<1> QED  BY <1>1, <1>2

\* The types and the one primary, for every step.
LEMMA TypesStep == TaskInv /\ [DomainsNext]_domainsVars => DomainsTypeOK' /\ OnePrimary'
<1> SUFFICES ASSUME TaskInv, [DomainsNext]_domainsVars PROVE DomainsTypeOK' /\ OnePrimary'
  OBVIOUS
<1>0. DomainsTypeOK /\ OnePrimary
  BY RequestsAreTasks DEF TaskInv
<1>1. UNCHANGED domains => OnePrimary'
  BY <1>0 DEF OnePrimary
<1>2. ASSUME NEW t \in Requests, RequestSteps(t) PROVE DomainsTypeOK' /\ OnePrimary'
  <2>1. ASSUME NEW n \in Names, \E tls, mdns \in BOOLEAN : AddDomain(t, n, tls, mdns)
        PROVE  DomainsTypeOK' /\ OnePrimary'
    BY <1>0, <2>1, AddDomainStep
  <2>2. ASSUME NEW n \in Names, RemoveDomain(t, n) PROVE DomainsTypeOK' /\ OnePrimary'
    BY <1>0, <1>1, <2>2, RemoveDomainStep DEF RemoveDomain
  <2> QED  BY <1>2, <2>1, <2>2 DEF RequestSteps
<1>3. ASSUME NEW t \in Requests, NEW kind \in {"promote", "archive"}, NEW n \in Names, StartOperation(t, kind, n)
      PROVE  DomainsTypeOK' /\ OnePrimary'
  BY <1>0, <1>1, <1>3, StartOperationStep
<1>10. ASSUME NEW t \in Requests, Cancel(t) PROVE DomainsTypeOK' /\ OnePrimary'
  BY <1>0, <1>1, <1>10, CancelStep
<1>4. ASSUME NEW t \in Tasks, TaskStep(t) PROVE DomainsTypeOK' /\ OnePrimary'
  <2>1. CASE RemoveDelete(t)
    BY <1>0, <2>1, RemoveDeleteStep
  <2>2. CASE ApplyZones(t) \/ ReloadCaddy(t) \/ CaddyReloads(t)
    BY <1>0, <1>1, <2>2, ApplyZonesStep, ReloadCaddyStep, CaddyReloadsStep DEF ApplyZones, ReloadCaddy, CaddyReloads
  <2>3. CASE CoreDnsStarted(t)
    BY <1>0, <1>1, <2>3, HolderFirst, CoreDnsStartedStep DEF CoreDnsStarted
  <2>4. CASE EnsureCert(t) \/ PublishChallenge(t)
    BY <1>0, <2>4, EnsureCertStep, PublishStep, RowsTyped
  <2>5. CASE CertIssued(t) \/ CertRefused(t)
    <3>1. Tail(issueQ) \in Seq(Tasks)
      BY <2>5, HolderFirst DEF CertIssued, CertRefused
    <3> QED  BY <1>0, <2>5, <3>1, IssuedStep, RefusedStep, RowsTyped
  <2> QED  BY <1>4, <2>1, <2>2, <2>3, <2>4, <2>5 DEF TaskStep
<1>5. CASE RenewPrimary \/ RenewList \/ RenewNext
  BY <1>0, <1>5, RenewalStep, RowsTyped
<1>6. CASE OperationStep
  BY <1>0, <1>6, OperationsStep
<1>7. CASE ServeEnds \/ Exit \/ Crash \/ Boot
  BY <1>0, <1>1, <1>7, ServeEndsStep, StoppedStep, BootStep
<1>8. CASE RequestRestart \/ CaddyDies \/ CoreDnsDies \/ \E n \in Names : Ages(n)
  BY <1>0, <1>1, <1>8, ElseStep
<1>9. CASE UNCHANGED domainsVars
  BY <1>0, <1>1, <1>9 DEF domainsVars, dnsVars, certVars, caddyVars, opVars, DomainsTypeOK
<1> QED  BY <1>2, <1>3, <1>4, <1>5, <1>6, <1>7, <1>8, <1>9, <1>10, NextCases

\* What the steps of requests do to where they are.
RequestMoves(t) ==
  /\ t \in Requests /\ Only(t) /\ Serving /\ proc'.phase = proc.phase
  /\ task'[t].pc \notin {"list", "next"}
  /\ task'[t].pc = "delete" /\ task'[t].name \notin proc'.marked => task'[t].todo = {}

RenewalMoves ==
  /\ Only("renewal") /\ proc.phase # "down" /\ proc'.phase = proc.phase
  /\ task'["renewal"].pc \notin {"delete", "add_zone", "remove_zone", "restart", "acquire", "await"}
  /\ task'["renewal"].then = "acquire" => ~task'["renewal"].renewed /\ task'["renewal"].pc \in {"order", "validate"}

LEMMA TaskMoves ==
    ASSUME TaskInv, NEW t \in Tasks, TaskStep(t) PROVE IF t = "renewal" THEN RenewalMoves ELSE RequestMoves(t)
<1>0. /\ DomainsTypeOK /\ OnePrimary /\ RolesInv /\ task[t] \in Work
      /\ t # "renewal" => t \in Requests
  BY DEF TaskInv, DomainsTypeOK, Tasks
<1>1. Runs(t) /\ UNCHANGED proc
  BY DEF TaskStep, RemoveDelete, ApplyZones, CoreDnsStarted, ReloadCaddy, CaddyReloads, EnsureCert, PublishChallenge,
     CertIssued, CertRefused
<1>2. (t = "renewal" => proc.phase # "down") /\ (t # "renewal" => Serving)
  BY <1>1 DEF Runs
<1>3. CASE RemoveDelete(t)
  BY <1>0, <1>1, <1>2, <1>3, RemoveDeleteStep DEF RolesInv, RequestMoves
<1>4. CASE ApplyZones(t)
  BY <1>0, <1>1, <1>2, <1>4, ApplyZonesStep DEF RolesInv, RequestMoves
<1>5. CASE CoreDnsStarted(t)
  BY <1>0, <1>1, <1>2, <1>5, HolderFirst, CoreDnsStartedStep DEF RolesInv, RequestMoves
<1>6. CASE ReloadCaddy(t)
  <2>1. Only(t) /\ task'[t].pc = "caddy" /\ task[t].pc = "reload" /\ SameWork(task'[t], task[t])
    BY <1>0, <1>6, ReloadCaddyStep
  <2> QED  BY <1>0, <1>1, <1>2, <2>1 DEF RolesInv, RequestMoves, RenewalMoves, SameWork
<1>7. CASE CaddyReloads(t)
  <2>1. /\ Only(t) /\ task[t].pc = "caddy" /\ task'[t].pc = task[t].then /\ task'[t].then = "idle"
        /\ task[t].then \in {"idle", "acquire"}
    BY <1>0, <1>7, CaddyReloadsStep DEF Work
  <2> QED  BY <1>0, <1>1, <1>2, <2>1 DEF RolesInv, RequestMoves, RenewalMoves
<1>8. CASE EnsureCert(t)
  BY <1>0, <1>1, <1>2, <1>8, EnsureCertStep DEF RolesInv, RequestMoves
<1>9. ASSUME Only(t), Failed(t), task[t].pc \in {"order", "validate"}
      PROVE  IF t = "renewal" THEN RenewalMoves ELSE RequestMoves(t)
  <2>1. Rest.pc = "idle" /\ Rest.then = "idle"
    BY DEF Rest
  <2> QED  BY <1>0, <1>1, <1>2, <1>9, <2>1 DEF RolesInv, RequestMoves, RenewalMoves, Failed
<1>10. CASE PublishChallenge(t)
  <2>1. CASE Failed(t)
    BY <1>0, <1>9, <1>10, <2>1, PublishStep
  <2>2. CASE Only(t) /\ task[t].pc = "order" /\ task'[t].pc = "validate" /\ SameWork(task'[t], task[t])
    BY <1>0, <1>1, <1>2, <2>2 DEF RolesInv, RequestMoves, RenewalMoves, SameWork
  <2> QED  BY <1>0, <1>10, <2>1, <2>2, PublishStep
<1>11. CASE CertIssued(t)
  <2>1. Tail(issueQ) \in Seq(Tasks)
    BY <1>11, HolderFirst DEF CertIssued
  <2> QED  BY <1>0, <1>1, <1>2, <1>11, <2>1, IssuedStep DEF RequestMoves, RenewalMoves
<1>12. CASE CertRefused(t)
  <2>1. Tail(issueQ) \in Seq(Tasks)
    BY <1>12, HolderFirst DEF CertRefused
  <2> QED  BY <1>0, <1>9, <1>12, <2>1, RefusedStep
<1> QED  BY <1>3, <1>4, <1>5, <1>6, <1>7, <1>8, <1>10, <1>11, <1>12 DEF TaskStep

LEMMA MovesStep ==
    ASSUME TaskInv, DomainsNext
    PROVE  \/ UNCHANGED task /\ proc'.phase = proc.phase
           \/ \E t \in Requests : RequestMoves(t)
           \/ \E t \in Requests : Only(t) /\ task[t].pc = "await" /\ task'[t].pc = "idle" /\ proc'.phase = proc.phase
           \/ RenewalMoves
           \/ ServeEnds \/ Exit \/ Crash \/ Boot
<1>0. DomainsTypeOK /\ OnePrimary /\ RolesInv
  BY DEF TaskInv
<1>1. ASSUME NEW t \in Requests, RequestSteps(t) PROVE RequestMoves(t)
  <2>1. ASSUME NEW n \in Names, \E tls, mdns \in BOOLEAN : AddDomain(t, n, tls, mdns)
        PROVE  RequestMoves(t)
    <3>2. Serving
      BY <2>1 DEF AddDomain
    <3>3. Only(t) /\ task'[t].pc \in {"add_zone", "reload"} /\ proc'.phase = proc.phase
      BY <1>0, <2>1, AddDomainStep
    <3> QED  BY <3>2, <3>3 DEF RequestMoves
  <2>2. ASSUME NEW n \in Names, RemoveDomain(t, n) PROVE RequestMoves(t)
    <3>1. n \in DOMAIN domains /\ (domains[n].mdns => n \in proc.marked)
      BY <1>0, <2>2, RemoveDomainStep DEF TaskInv, MarksInv
    <3>2. Serving /\ UNCHANGED proc
      BY <2>2 DEF RemoveDomain
    <3>3. /\ Only(t) /\ task'[t].pc = "delete" /\ task'[t].name = n
          /\ task'[t].todo = IF domains[n].mdns THEN {n} ELSE {}
      BY <1>0, <2>2, RemoveDomainStep
    <3>4. n \notin proc'.marked => task'[t].todo = {}
      BY <3>1, <3>2, <3>3
    <3> HIDE DEF Only
    <3> QED  BY <3>2, <3>3, <3>4 DEF RequestMoves
  <2> QED  BY <1>1, <2>1, <2>2 DEF RequestSteps
<1>2. ASSUME Waits, proc'.phase = proc.phase
      PROVE  \/ UNCHANGED task \/ \E t \in Requests : RequestMoves(t)
             \/ \E t \in Requests : Only(t) /\ task[t].pc = "await" /\ task'[t].pc = "idle"
  <2>1. CASE UNCHANGED task
    BY <2>1
  <2>2. ASSUME NEW t \in Requests, Only(t), task[t].pc \in {"idle", "await"}, task'[t].pc \in {"idle", "await"},
               task[t].pc = "idle" \/ task'[t].pc = "await" => Serving
        PROVE  \/ RequestMoves(t) \/ UNCHANGED task \/ (task[t].pc = "await" /\ task'[t].pc = "idle")
    <3>1. CASE Serving
      BY <1>2, <2>2, <3>1 DEF RequestMoves
    <3>2. CASE ~Serving
      <4>1. task[t].pc # "idle"
        BY <3>2, <2>2
      <4> QED  BY <2>2, <3>2, <4>1
    <3> QED  BY <3>1, <3>2
  <2> QED  BY <1>2, <2>1, <2>2 DEF Waits
<1>3. ASSUME NEW t \in Requests, NEW kind \in {"promote", "archive"}, NEW n \in Names, StartOperation(t, kind, n)
      PROVE  Waits /\ proc'.phase = proc.phase
  BY <1>0, <1>3, StartOperationStep
<1>4. ASSUME NEW t \in Requests, Cancel(t) PROVE Waits /\ proc'.phase = proc.phase
  BY <1>0, <1>4, CancelStep
<1>5. CASE OperationStep
  BY <1>0, <1>2, <1>5, OperationsStep
<1>6. CASE RenewPrimary \/ RenewList \/ RenewNext
  <2>1. Runs("renewal") /\ UNCHANGED proc
    BY <1>6 DEF RenewPrimary, RenewList, RenewNext
  <2>2. RenewalMoves
    BY <1>0, <1>6, <2>1, RenewalStep DEF RenewalMoves, RolesInv, Runs
  <2> QED  BY <2>2
<1>7. CASE RequestRestart \/ CaddyDies \/ CoreDnsDies \/ \E n \in Names : Ages(n)
  BY <1>0, <1>7, ElseStep
<1>8. ASSUME NEW t \in Tasks, TaskStep(t) PROVE RenewalMoves \/ (t \in Requests /\ RequestMoves(t))
  BY <1>8, TaskMoves DEF RequestMoves
<1> QED  BY <1>1, <1>2, <1>3, <1>4, <1>5, <1>6, <1>7, <1>8, NextCases

LEMMA RolesStep == TaskInv /\ [DomainsNext]_domainsVars => RolesInv' /\ ProcInv'
<1> SUFFICES ASSUME TaskInv, [DomainsNext]_domainsVars PROVE RolesInv' /\ ProcInv'
  OBVIOUS
<1>0. /\ DomainsTypeOK /\ OnePrimary /\ RolesInv /\ ProcInv /\ Requests \subseteq Tasks
      /\ "renewal" \in Tasks /\ "renewal" \notin Requests
      /\ Rest.pc = "idle" /\ Rest.then = "idle" /\ ~Rest.renewed
  BY RequestsAreTasks DEF TaskInv, Rest
<1>a. DomainsNext /\ proc'.phase = "down" => zoneQ' = <<>> /\ issueQ' = <<>> /\ task'["renewal"].pc = "idle"
  <2> SUFFICES ASSUME DomainsNext, proc'.phase = "down"
               PROVE  zoneQ' = <<>> /\ issueQ' = <<>> /\ task'["renewal"].pc = "idle"
    OBVIOUS
  <2>0. ProcInv /\ (proc.phase = "down" =>
           /\ task["renewal"].pc = "idle" /\ zoneQ = <<>> /\ issueQ = <<>> /\ ~Serving
           /\ \A t \in Tasks : ~Runs(t) /\ (t \in Requests => task[t].pc = "idle"))
    BY <1>0 DEF ProcInv, Serving, Runs, Tasks
  <2>1. CASE Exit \/ Crash
    BY <1>0, <2>1, StoppedStep
  <2>2. CASE ServeEnds
    BY <1>0, <2>2, ServeEndsStep
  <2>3. CASE Boot
    BY <1>0, <2>3, BootStep
  <2>4. ASSUME NEW t \in Requests, RequestSteps(t) PROVE FALSE
    <3>1. Serving
      BY <2>4 DEF RequestSteps, AddDomain, RemoveDomain
    <3>2. proc'.phase = proc.phase
      <4>1. ASSUME NEW n \in Names, \E tls, mdns \in BOOLEAN : AddDomain(t, n, tls, mdns) PROVE proc'.phase = proc.phase
        BY <1>0, <4>1, AddDomainStep
      <4> QED  BY <2>4, <4>1 DEF RequestSteps, RemoveDomain
    <3> QED  BY <2>0, <3>1, <3>2
  <2>5. ASSUME NEW t \in Requests, NEW kind \in {"promote", "archive"}, NEW n \in Names, StartOperation(t, kind, n)
        PROVE  FALSE
    BY <2>0, <2>5 DEF StartOperation
  <2>6. ASSUME NEW t \in Requests, Cancel(t) PROVE FALSE
    <3>1. task[t].pc = "await" /\ proc' = proc
      BY <2>6 DEF Cancel
    <3>2. proc.phase = "down" /\ proc.phase # "serving"
      BY <3>1
    <3>3. task[t].pc = "idle"
      BY <1>0, <3>2 DEF ProcInv
    <3> QED  BY <3>1, <3>3
  <2>7. ASSUME NEW t \in Tasks, TaskStep(t) PROVE FALSE
    BY <2>0, <2>7 DEF TaskStep, RemoveDelete, ApplyZones, CoreDnsStarted, ReloadCaddy, CaddyReloads, EnsureCert,
       PublishChallenge, CertIssued, CertRefused
  <2>8. ~(RenewPrimary \/ RenewList \/ RenewNext)
    BY <1>0, <2>0 DEF RenewPrimary, RenewList, RenewNext
  <2>9. ~OperationStep
    <3>1. ASSUME NEW o \in ops, OperationChecks(o) \/ OperationWorks(o) \/ OperationTriggers(o) PROVE FALSE
      <4>1. proc.phase # "down"
        BY <3>1 DEF OperationChecks, OperationWorks, OperationTriggers
      <4>2. proc'.phase = proc.phase
        BY <1>0, <3>1, OperationsStep DEF OperationStep
      <4> QED  BY <4>1, <4>2
    <3> QED  BY <3>1 DEF OperationStep
  <2>10. CASE RequestRestart \/ CaddyDies \/ CoreDnsDies \/ \E n \in Names : Ages(n)
    BY <1>0, <2>0, <2>10, ElseStep
  <2> QED  BY <2>1, <2>2, <2>3, <2>4, <2>5, <2>6, <2>7, <2>8, <2>9, <2>10, NextCases
<1>1. CASE UNCHANGED task /\ proc'.phase = proc.phase
  BY <1>0, <1>a, <1>1 DEF RolesInv, ProcInv, domainsVars, dnsVars, certVars
<1>2. ASSUME NEW t \in Requests, RequestMoves(t) PROVE RolesInv' /\ ProcInv'
  <2>1. proc'.phase = "serving" /\ task'["renewal"] = task["renewal"]
    BY <1>0, <1>2 DEF RequestMoves, Serving, Only
  <2> QED  BY <1>0, <1>2, <2>1 DEF RequestMoves, RolesInv, ProcInv, Only
<1>3. ASSUME NEW t \in Requests, Only(t), task[t].pc = "await", task'[t].pc = "idle", proc'.phase = proc.phase
      PROVE  RolesInv' /\ ProcInv'
  <2>1. proc'.phase = "serving" /\ task'["renewal"] = task["renewal"]
    BY <1>0, <1>3 DEF ProcInv, Only
  <2> QED  BY <1>0, <1>3, <2>1 DEF RolesInv, ProcInv, Only
<1>4. CASE RenewalMoves
  <2>1. \A t \in Requests : task'[t] = task[t]
    BY <1>0, <1>4 DEF RenewalMoves, Only
  <2> QED  BY <1>0, <1>4, <2>1 DEF RenewalMoves, RolesInv, ProcInv
<1>5. CASE ServeEnds
  BY <1>0, <1>5, ServeEndsStep DEF RolesInv, ProcInv
<1>6. CASE Exit \/ Crash
  BY <1>0, <1>6, StoppedStep DEF RolesInv, ProcInv
<1>7. CASE Boot
  BY <1>0, <1>7, BootStep DEF RolesInv, ProcInv
<1>8. CASE UNCHANGED domainsVars
  BY <1>0, <1>8 DEF RolesInv, ProcInv, domainsVars, dnsVars, certVars
<1>9. CASE DomainsNext
  BY <1>1, <1>2, <1>3, <1>4, <1>5, <1>6, <1>7, <1>9, MovesStep
<1> QED  BY <1>8, <1>9

LEMMA MarksStep == TaskInv /\ [DomainsNext]_domainsVars => MarksInv'
<1> SUFFICES ASSUME TaskInv, [DomainsNext]_domainsVars PROVE MarksInv'
  OBVIOUS
<1>0. DomainsTypeOK /\ OnePrimary /\ MarksInv /\ Rest.pc = "idle" /\ Requests \subseteq Tasks /\ "renewal" \notin Requests
  BY RequestsAreTasks DEF TaskInv, Rest
<1> DEFINE Marked == \A n \in DOMAIN domains' : domains'[n].mdns => n \in proc'.marked
<1>m. Boot \/ proc.marked \subseteq proc'.marked
  BY <1>0, MarkedGrow
<1>b. Boot => Marked
  BY <1>0, BootStep
<1>1. MarksKept \/ RowsKept(domains') \/ UNCHANGED domains => Marked
  BY <1>0, <1>m, <1>b DEF MarksKept, RowsKept, MarksInv
<1>2. Marked
  <2>1. ASSUME NEW t \in Requests, RequestSteps(t) PROVE Marked
    <3>1. ASSUME NEW n \in Names, \E tls, mdns \in BOOLEAN : AddDomain(t, n, tls, mdns) PROVE Marked
      <4>1. /\ DOMAIN domains' = DOMAIN domains \cup {n}
            /\ domains'[n].mdns => n \in proc'.marked
            /\ \A m \in DOMAIN domains : domains'[m] = domains[m]
            /\ proc.marked \subseteq proc'.marked
        BY <1>0, <3>1, AddDomainStep
      <4> QED  BY <1>0, <4>1 DEF MarksInv
    <3>2. ASSUME NEW n \in Names, RemoveDomain(t, n) PROVE UNCHANGED domains
      BY <3>2 DEF RemoveDomain
    <3> QED  BY <1>1, <2>1, <3>1, <3>2 DEF RequestSteps
  <2>2. ASSUME NEW t \in Requests, NEW kind \in {"promote", "archive"}, NEW n \in Names, StartOperation(t, kind, n)
        PROVE  UNCHANGED domains
    BY <2>2 DEF StartOperation
  <2>3. ASSUME NEW t \in Requests, Cancel(t) PROVE UNCHANGED domains
    BY <2>3 DEF Cancel
  <2>4. ASSUME NEW t \in Tasks, RemoveDelete(t) PROVE Marked
    BY <1>0, <1>1, <1>m, <1>b, <2>4, RemoveDeleteStep DEF MarksInv
  <2>5. ASSUME NEW t \in Tasks, ApplyZones(t) \/ CoreDnsStarted(t) \/ ReloadCaddy(t) \/ CaddyReloads(t)
        PROVE  UNCHANGED domains
    BY <2>5 DEF ApplyZones, CoreDnsStarted, ReloadCaddy, CaddyReloads
  <2>6. ASSUME NEW t \in Tasks, EnsureCert(t) \/ PublishChallenge(t) \/ CertIssued(t) \/ CertRefused(t)
        PROVE  RowsKept(domains')
    <3>1. CertIssued(t) \/ CertRefused(t) => Tail(issueQ) \in Seq(Tasks)
      BY HolderFirst DEF CertIssued, CertRefused
    <3> QED  BY <1>0, <2>6, <3>1, EnsureCertStep, PublishStep, IssuedStep, RefusedStep
  <2>7. CASE RenewPrimary \/ RenewList \/ RenewNext
    BY <1>0, <1>1, <2>7, RenewalStep
  <2>8. CASE OperationStep
    BY <1>0, <1>1, <2>8, OperationsStep
  <2>9. CASE ServeEnds \/ Exit \/ Crash \/ Boot
    BY <1>0, <1>1, <2>9, ServeEndsStep, StoppedStep, BootStep
  <2>10. CASE RequestRestart \/ CaddyDies \/ CoreDnsDies \/ \E n \in Names : Ages(n)
    BY <1>0, <1>1, <2>10, ElseStep
  <2>11. CASE UNCHANGED domainsVars
    BY <1>1, <2>11 DEF domainsVars
  <2> QED  BY <1>1, <2>1, <2>2, <2>3, <2>4, <2>5, <2>6, <2>7, <2>8, <2>9, <2>10, <2>11, NextCases DEF TaskStep
<1>3. ASSUME NEW u \in Requests, task'[u].pc = "delete", task'[u].name \notin proc'.marked PROVE task'[u].todo = {}
  <2>0. task[u].pc = "delete" => ~Boot
    BY <1>0, BootStep DEF TaskInv, ProcInv
  <2>1. task'[u] = task[u] => task'[u].todo = {}
    BY <1>0, <1>3, <1>m, <2>0 DEF MarksInv
  <2>2. ASSUME NEW t \in Requests, RequestMoves(t) PROVE task'[u].todo = {}
    BY <1>0, <1>3, <2>1, <2>2 DEF RequestMoves, Only
  <2>3. ASSUME NEW t \in Requests, Only(t), task'[t].pc = "idle" PROVE task'[u].todo = {}
    BY <1>0, <1>3, <2>1, <2>3 DEF Only
  <2>4. CASE RenewalMoves
    BY <1>0, <2>1, <2>4 DEF RenewalMoves, Only
  <2>5. CASE ServeEnds \/ Exit \/ Crash
    BY <1>0, <1>3, <2>5, ServeEndsStep, StoppedStep
  <2>6. CASE Boot
    BY <1>0, <2>1, <2>6, BootStep
  <2>7. CASE UNCHANGED domainsVars
    BY <2>1, <2>7 DEF domainsVars
  <2> QED  BY <2>1, <2>2, <2>3, <2>4, <2>5, <2>6, <2>7, MovesStep
<1> QED  BY <1>2, <1>3 DEF MarksInv

\* Two do not hold the same lock.
LEMMA OneHolder == \A q, t, u : Holds(q, t) /\ Holds(q, u) => t = u
  BY DEF Holds

LEMMA HoldsOn ==
    ASSUME NEW q \in Seq(Tasks), NEW t, NEW u \in Tasks, Holds(q, t) PROVE Holds(Append(q, u), t)
  BY DEF Holds

LEMMA IssueStep == TaskInv /\ [DomainsNext]_domainsVars => IssueInv'
<1> SUFFICES ASSUME TaskInv, [DomainsNext]_domainsVars PROVE IssueInv'
  OBVIOUS
<1>0. /\ DomainsTypeOK /\ OnePrimary /\ RolesInv /\ IssueInv /\ Requests \subseteq Tasks /\ "renewal" \in Tasks
      /\ Rest.pc = "idle" /\ issueQ \in Seq(Tasks) /\ "renewal" \notin Requests
  BY RequestsAreTasks DEF TaskInv, Rest, DomainsTypeOK
\* A step of one that is not validating after it, with the queue as it was or longer.
<1>1. ASSUME NEW t \in Tasks, Only(t), task'[t].pc # "validate", UNCHANGED txt,
             issueQ' = issueQ \/ issueQ' = Append(issueQ, t)
      PROVE  IssueInv'
  <2>1. ASSUME NEW u \in Tasks, task'[u].pc = "validate" PROVE txt' = u /\ Holds(issueQ', u)
    <3>1. task[u].pc = "validate"
      BY <1>1, <2>1 DEF Only
    <3>2. txt = u /\ Holds(issueQ, u)
      BY <1>0, <3>1 DEF IssueInv
    <3> QED  BY <1>0, <1>1, <3>2, HoldsOn
  <2> QED  BY <2>1 DEF IssueInv
<1>2. ASSUME UNCHANGED <<task, txt, issueQ>> PROVE IssueInv'
  BY <1>0, <1>2 DEF IssueInv
\* The holder: no other one is validating.
<1>3. ASSUME NEW t \in Tasks, Holds(issueQ, t), Only(t),
             task'[t].pc = "validate" => txt' = t /\ UNCHANGED issueQ
      PROVE  IssueInv'
  <2>1. ASSUME NEW u \in Tasks, task'[u].pc = "validate" PROVE u = t
    BY <1>0, <1>3, <2>1, OneHolder DEF IssueInv, Only
  <2> QED  BY <1>3, <2>1 DEF IssueInv
<1>4. ASSUME NEW t \in Requests, RequestSteps(t) PROVE IssueInv'
  <2>1. ASSUME NEW n \in Names, \E tls, mdns \in BOOLEAN : AddDomain(t, n, tls, mdns)
        PROVE  IssueInv'
    <3>1. Only(t) /\ task'[t].pc # "validate"
      BY <1>0, <2>1, AddDomainStep
    <3>2. UNCHANGED <<txt, issueQ>>
      BY <2>1 DEF AddDomain, certVars
    <3> QED  BY <1>0, <1>1, <3>1, <3>2
  <2>2. ASSUME NEW n \in Names, RemoveDomain(t, n) PROVE IssueInv'
    BY <1>0, <1>1, <2>2, RemoveDomainStep DEF RemoveDomain, certVars
  <2> QED  BY <1>4, <2>1, <2>2 DEF RequestSteps
<1>5. ASSUME Waits, UNCHANGED <<txt, issueQ>> PROVE IssueInv'
  BY <1>0, <1>1, <1>2, <1>5 DEF Waits
<1>6. ASSUME NEW t \in Requests, NEW kind \in {"promote", "archive"}, NEW n \in Names, StartOperation(t, kind, n)
      PROVE  IssueInv'
  BY <1>0, <1>5, <1>6, StartOperationStep DEF certVars
<1>7. ASSUME NEW t \in Requests, Cancel(t) PROVE IssueInv'
  BY <1>0, <1>5, <1>7, CancelStep DEF certVars
<1>8. ASSUME NEW t \in Tasks, TaskStep(t) PROVE IssueInv'
  <2>1. CASE RemoveDelete(t)
    BY <1>0, <1>1, <2>1, RemoveDeleteStep DEF RemoveDelete, certVars
  <2>2. CASE ApplyZones(t)
    BY <1>0, <1>1, <2>2, ApplyZonesStep DEF ApplyZones, certVars
  <2>3. CASE CoreDnsStarted(t)
    BY <1>0, <1>1, <2>3, HolderFirst, CoreDnsStartedStep DEF CoreDnsStarted, certVars
  <2>4. CASE ReloadCaddy(t)
    BY <1>0, <1>1, <2>4, ReloadCaddyStep DEF ReloadCaddy, certVars
  <2>5. CASE CaddyReloads(t)
    <3>1. Only(t) /\ task'[t].pc \in {"idle", "acquire"}
      BY <1>0, <2>5, CaddyReloadsStep DEF DomainsTypeOK, Work
    <3> QED  BY <1>0, <1>1, <2>5, <3>1 DEF CaddyReloads, certVars
  <2>6. CASE EnsureCert(t)
    <3>1. t # "renewal"
      BY <1>0, <2>6, EnsureCertStep DEF RolesInv
    <3> QED  BY <1>0, <1>1, <2>6, <3>1, EnsureCertStep DEF EnsureCert
  <2>7. Failed(t) => task'[t].pc # "validate"
    BY <1>0 DEF Failed
  <2>8. CASE PublishChallenge(t)
    BY <1>0, <1>3, <2>7, <2>8, PublishStep
  <2>9. CASE CertIssued(t) \/ CertRefused(t)
    <3>1. task[t].pc = "validate" /\ Tail(issueQ) \in Seq(Tasks)
      BY <2>9, HolderFirst DEF CertIssued, CertRefused
    <3>2. Holds(issueQ, t)
      BY <1>0, <3>1 DEF IssueInv
    <3>3. Only(t) /\ task'[t].pc # "validate"
      BY <1>0, <2>7, <2>9, <3>1, IssuedStep, RefusedStep
    <3> QED  BY <1>3, <3>2, <3>3
  <2> QED  BY <1>8, <2>1, <2>2, <2>3, <2>4, <2>5, <2>6, <2>8, <2>9 DEF TaskStep
<1>9. CASE RenewPrimary \/ RenewList \/ RenewNext
  <2>1. Only("renewal") /\ task'["renewal"].pc # "validate" /\ (issueQ' = issueQ \/ issueQ' = Append(issueQ, "renewal"))
    BY <1>0, <1>9, RenewalStep
  <2>2. UNCHANGED txt
    BY <1>9 DEF RenewPrimary, RenewList, RenewNext, certVars
  <2> QED  BY <1>0, <1>1, <2>1, <2>2
<1>10. CASE OperationStep
  BY <1>0, <1>5, <1>10, OperationsStep DEF certVars
<1>11. CASE ServeEnds
  <2>1. ASSUME NEW u \in Tasks, task'[u].pc = "validate" PROVE txt' = u /\ Holds(issueQ', u)
    <3>1. u = "renewal" /\ task[u].pc = "validate"
      BY <1>0, <1>11, <2>1, ServeEndsStep DEF Tasks
    <3>2. txt = u /\ Holds(issueQ, u)
      BY <1>0, <3>1 DEF IssueInv
    <3>3. txt' = u
      BY <1>0, <1>11, <3>1, <3>2, ServeEndsStep
    <3>4. 1 \in DOMAIN issueQ /\ issueQ[1] = "renewal"
      BY <1>0, <3>1, <3>2 DEF Holds
    <3>5. issueQ' = <<"renewal">>
      BY <1>11, <3>4 DEF ServeEnds, RenewalOf
    <3> QED  BY <3>1, <3>3, <3>5 DEF Holds
  <2> QED  BY <2>1 DEF IssueInv
<1>12. CASE Exit \/ Crash
  BY <1>0, <1>12, StoppedStep DEF IssueInv
<1>13. CASE Boot
  BY <1>0, <1>2, <1>13, BootStep
<1>14. CASE RequestRestart \/ CaddyDies \/ CoreDnsDies \/ \E n \in Names : Ages(n)
  BY <1>0, <1>2, <1>14, ElseStep
<1>15. CASE UNCHANGED domainsVars
  BY <1>2, <1>15 DEF domainsVars, certVars
<1> QED  BY <1>4, <1>6, <1>7, <1>8, <1>9, <1>10, <1>11, <1>12, <1>13, <1>14, <1>15, NextCases

-----------------------------------------------------------------------------
(* The zones.  What a step of a space that serves does to them and to the     *)
(* queue of their lock:                                                       *)

\* nothing,
ZonesKept ==
  /\ UNCHANGED <<zoneQ, zones>>
  /\ \A t \in Tasks : Zoning(t) \/ Zoning(t)' => task'[t] = task[t]
  /\ ServesDns => \A n \in Names : (Wanted(n)' => Wanted(n)) /\ (Allowed(n) => Allowed(n)')

\* a change of the table brings one of the zones,
ZoneQueued(t) ==
  /\ ServesDns /\ Only(t) /\ UNCHANGED zones
  /\ ~Zoning(t) /\ task'[t].pc \in {"add_zone", "remove_zone"} /\ zoneQ' = Append(zoneQ, t)
  /\ \A n \in Names \ {task'[t].name} : (Wanted(n)' => Wanted(n)) /\ (Allowed(n) => Allowed(n)')
  /\ Wanted(task[t].name)' => task'[t].pc = "add_zone"
  /\ task'[t].pc = "add_zone" => Allowed(task[t].name)'

\* the first in the queue makes its change,
ZoneApplied(t) ==
  /\ Only(t) /\ UNCHANGED <<zoneQ, domains, proc>>
  /\ task[t].pc \in {"add_zone", "remove_zone"} /\ zoneQ # <<>> /\ zoneQ[1] = t /\ task'[t].pc = "restart"
  /\ zones' = IF task[t].pc = "add_zone" THEN zones \cup {task[t].name} ELSE zones \ {task[t].name}

\* it is done,
ZoneLeft(t) ==
  /\ Only(t) /\ UNCHANGED <<zones, domains, proc>>
  /\ zoneQ # <<>> /\ zoneQ[1] = t /\ zoneQ' = Tail(zoneQ) /\ ~Zoning(t)'
  /\ \/ task[t].pc = "restart"
     \/ task[t].pc = "add_zone" /\ task[t].name \in zones

\* or the space boots.
ZonesBooted ==
  /\ zoneQ' = <<>> /\ zones' = Public(domains) /\ UNCHANGED domains
  /\ \A t \in Tasks : ~Zoning(t)'

\* The rows are marked mDNS as before, and no mark is forgotten.
RowsMarked ==
  /\ DOMAIN domains' = DOMAIN domains /\ \A n \in DOMAIN domains : domains'[n].mdns = domains[n].mdns
  /\ proc.marked \subseteq proc'.marked

LEMMA ZoneKeeps ==
    ASSUME NEW t \in Tasks, Only(t), ~Zoning(t), ~Zoning(t)', UNCHANGED <<zoneQ, zones>>, RowsMarked
    PROVE  ZonesKept
  BY DEF ZonesKept, Only, RowsMarked, Wanted, Allowed

LEMMA ZoneCases ==
    ASSUME TaskInv, DomainsNext, Serving'
    PROVE  /\ \/ ZonesBooted
              \/ Serving /\ (ZonesKept \/ \E t \in Requests : ZoneQueued(t) \/ ZoneApplied(t) \/ ZoneLeft(t))
           /\ coredns'.up => coredns'.zones = zones' \/ (Serving /\ UNCHANGED <<coredns, zones>>)
<1> DEFINE Zones == \/ ZonesBooted
                    \/ Serving /\ (ZonesKept \/ \E t \in Requests : ZoneQueued(t) \/ ZoneApplied(t) \/ ZoneLeft(t))
           Served == coredns'.up => coredns'.zones = zones' \/ (Serving /\ UNCHANGED <<coredns, zones>>)
<1>0. /\ DomainsTypeOK /\ OnePrimary /\ RolesInv /\ Requests \subseteq Tasks /\ "renewal" \in Tasks
      /\ "renewal" \notin Requests /\ Rest.pc = "idle" /\ DOMAIN domains \subseteq Names
  BY RequestsAreTasks DEF TaskInv, Rest, DomainsTypeOK
<1>a. ASSUME proc.phase # "down", proc'.phase = proc.phase PROVE Serving
  BY <1>a DEF Serving
<1>b. proc'.phase = proc.phase => Serving
  BY DEF Serving
<1>m. Serving => proc.marked \subseteq proc'.marked
  BY <1>0, MarkedGrow, BootStep DEF Serving
<1>1. ASSUME NEW t \in Requests, RequestSteps(t) PROVE Zones /\ Served
  <2>1. ASSUME NEW n \in Names, \E tls, mdns \in BOOLEAN : AddDomain(t, n, tls, mdns)
        PROVE  Zones /\ Served
    <3>1. Serving /\ UNCHANGED <<zones, coredns>>
      BY <2>1 DEF AddDomain
    <3>2. /\ Only(t) /\ n \notin DOMAIN domains /\ DOMAIN domains' = DOMAIN domains \cup {n}
          /\ \A m \in DOMAIN domains : domains'[m] = domains[m]
          /\ domains'[n].mdns => n \in proc'.marked
          /\ task[t].pc = "idle" /\ task'[t].name = n
          /\ \/ ServesDns /\ task'[t].pc = "add_zone" /\ zoneQ' = Append(zoneQ, t)
             \/ (domains'[n].mdns \/ ~ServesDns) /\ task'[t].pc = "reload" /\ UNCHANGED zoneQ
      BY <1>0, <2>1, AddDomainStep
    <3>a. \A m \in Names \ {n} : (Wanted(m)' => Wanted(m)) /\ (Allowed(m) => Allowed(m)')
      BY <1>m, <3>1, <3>2 DEF Wanted, Allowed
    <3>b. Allowed(n)' /\ (Wanted(n)' => ~domains'[n].mdns)
      BY <3>2 DEF Wanted, Allowed
    <3>3. CASE ServesDns /\ task'[t].pc = "add_zone" /\ zoneQ' = Append(zoneQ, t)
      <4>1. ZoneQueued(t)
        BY <3>1, <3>2, <3>3, <3>a, <3>b DEF ZoneQueued, Zoning
      <4> QED  BY <3>1, <4>1
    <3>4. CASE (domains'[n].mdns \/ ~ServesDns) /\ task'[t].pc = "reload" /\ UNCHANGED zoneQ
      <4>1. ZonesKept
        BY <3>1, <3>2, <3>4, <3>a, <3>b DEF ZonesKept, Zoning, Only
      <4> QED  BY <3>1, <4>1
    <3> QED  BY <3>2, <3>3, <3>4
  <2>2. ASSUME NEW n \in Names, RemoveDomain(t, n) PROVE Zones /\ Served
    <3>1. Serving /\ UNCHANGED <<zones, coredns, zoneQ, domains>>
      BY <2>2 DEF RemoveDomain, dnsVars
    <3>2. Only(t) /\ ~Zoning(t) /\ ~Zoning(t)'
      BY <1>0, <2>2, RemoveDomainStep DEF Zoning
    <3>3. RowsMarked
      BY <1>m, <3>1 DEF RowsMarked
    <3> QED  BY <1>0, <3>1, <3>2, <3>3, ZoneKeeps
  <2> QED  BY <1>1, <2>1, <2>2 DEF RequestSteps
<1>2. ASSUME Waits, proc'.phase = proc.phase, UNCHANGED <<zones, coredns, zoneQ>>, MarksKept \/ UNCHANGED domains
      PROVE  Zones /\ Served
  <2>0. RowsMarked
    BY <1>b, <1>m, <1>2 DEF RowsMarked, MarksKept
  <2>1. ZonesKept
    <3>1. \A n \in Names : (Wanted(n)' => Wanted(n)) /\ (Allowed(n) => Allowed(n)')
      BY <2>0 DEF RowsMarked, Wanted, Allowed
    <3> QED  BY <1>0, <1>2, <3>1 DEF Waits, ZonesKept, Zoning, Only
  <2> QED  BY <1>b, <1>2, <2>1
<1>3. ASSUME NEW t \in Requests, NEW kind \in {"promote", "archive"}, NEW n \in Names, StartOperation(t, kind, n)
      PROVE  Zones /\ Served
  BY <1>0, <1>2, <1>3, StartOperationStep DEF dnsVars
<1>4. ASSUME NEW t \in Requests, Cancel(t) PROVE Zones /\ Served
  BY <1>0, <1>2, <1>4, CancelStep DEF dnsVars
<1>5. ASSUME NEW t \in Tasks, Only(t), proc'.phase = proc.phase, UNCHANGED <<zones, coredns, zoneQ>>,
             RowsKept(domains') \/ UNCHANGED domains,
             task[t].pc \notin {"add_zone", "remove_zone", "restart"},
             task'[t].pc \notin {"add_zone", "remove_zone", "restart"}
      PROVE  Zones /\ Served
  <2>0. RowsMarked
    BY <1>b, <1>m, <1>5 DEF RowsMarked, RowsKept
  <2>1. ZonesKept
    BY <1>0, <1>5, <2>0, ZoneKeeps DEF Zoning
  <2> QED  BY <1>b, <1>5, <2>1
<1>6. ASSUME NEW t \in Tasks, TaskStep(t) PROVE Zones /\ Served
  <2>0. UNCHANGED proc /\ proc'.phase = proc.phase /\ Serving
    BY <1>6, <1>b DEF TaskStep, RemoveDelete, ApplyZones, CoreDnsStarted, ReloadCaddy, CaddyReloads, EnsureCert,
       PublishChallenge, CertIssued, CertRefused
  <2>1. CASE RemoveDelete(t)
    <3>1. t \in Requests /\ UNCHANGED <<zones, coredns>> /\ task[t].pc = "delete"
      BY <1>0, <2>1 DEF RemoveDelete, RolesInv, Tasks
    <3>2. task[t].name \notin proc.marked => task[t].todo = {}
      BY <3>1 DEF TaskInv, MarksInv
    <3>3. Only(t) /\ task'[t].name = task[t].name
      BY <1>0, <2>1, RemoveDeleteStep
    <3>4. CASE /\ DOMAIN domains' = DOMAIN domains \ {task[t].name}
               /\ \A m \in DOMAIN domains' : domains'[m] = domains[m]
               /\ task'[t].pc = IF task[t].todo = {} /\ ServesDns THEN "remove_zone" ELSE "reload"
               /\ zoneQ' = IF task[t].todo = {} /\ ServesDns THEN Append(zoneQ, t) ELSE zoneQ
      <4>0. /\ \A m \in Names \ {task[t].name} : (Wanted(m)' => Wanted(m)) /\ (Allowed(m) => Allowed(m)')
            /\ ~Wanted(task[t].name)' /\ (task[t].name \in proc.marked => Allowed(task[t].name)')
        <5> DEFINE nm == task[t].name
        <5>1. nm = task'[t].name /\ proc' = proc
          BY <2>0, <3>3
        <5>2. \A m \in Names \ {nm} : (Wanted(m)' => Wanted(m)) /\ (Allowed(m) => Allowed(m)')
          BY <5>1, <3>4 DEF Wanted, Allowed
        <5>3. ~(nm \in DOMAIN domains')
          BY <3>4
        <5> QED  BY <5>1, <5>2, <5>3 DEF Wanted, Allowed
      <4>1. CASE task[t].todo = {} /\ ServesDns
        <5>1. ZoneQueued(t)
          BY <3>1, <3>3, <3>4, <4>0, <4>1 DEF ZoneQueued, Zoning
        <5> QED  BY <2>0, <3>1, <5>1
      <4>2. CASE ~(task[t].todo = {} /\ ServesDns)
        <5>1. ZonesKept
          BY <3>1, <3>2, <3>3, <3>4, <4>0, <4>2 DEF ZonesKept, Zoning, Only
        <5> QED  BY <2>0, <3>1, <5>1
      <4> QED  BY <4>1, <4>2
    <3>5. CASE task'[t].pc = "idle" /\ UNCHANGED <<domains, zoneQ>>
      BY <1>5, <2>0, <3>1, <3>3, <3>5
    <3> QED  BY <1>0, <2>1, <3>4, <3>5, RemoveDeleteStep
  <2>2. CASE ApplyZones(t)
    <3>1. t \in Requests /\ UNCHANGED domains
      BY <1>0, <2>2 DEF ApplyZones, RolesInv, Tasks
    <3>2. (ZoneApplied(t) /\ ~coredns'.up) \/ (ZoneLeft(t) /\ UNCHANGED <<zones, coredns>>)
      BY <1>0, <2>0, <2>2, <3>1, ApplyZonesStep DEF ZoneApplied, ZoneLeft, Zoning
    <3> QED  BY <2>0, <3>1, <3>2
  <2>3. CASE CoreDnsStarted(t)
    <3>1. t \in Requests /\ Holds(zoneQ, t) /\ UNCHANGED <<domains, zones>>
      BY <2>3, HolderFirst DEF CoreDnsStarted
    <3>2. zoneQ # <<>> /\ zoneQ[1] = t
      BY <1>0, <3>1 DEF Holds, DomainsTypeOK
    <3>3. ZoneLeft(t) /\ coredns'.zones = zones'
      BY <1>0, <2>0, <2>3, <3>1, <3>2, CoreDnsStartedStep DEF ZoneLeft, Zoning
    <3> QED  BY <2>0, <3>1, <3>3
  <2>4. CASE ReloadCaddy(t)
    BY <1>0, <1>5, <2>0, <2>4, ReloadCaddyStep DEF ReloadCaddy, dnsVars
  <2>5. CASE CaddyReloads(t)
    <3>1. Only(t) /\ task[t].pc = "caddy" /\ task'[t].pc \in {"idle", "acquire"}
      BY <1>0, <2>5, CaddyReloadsStep DEF DomainsTypeOK, Work
    <3> QED  BY <1>5, <2>0, <2>5, <3>1 DEF CaddyReloads, dnsVars
  <2>6. CASE EnsureCert(t)
    <3>1. t # "renewal"
      BY <1>0, <2>6, EnsureCertStep DEF RolesInv
    <3> QED  BY <1>0, <1>5, <2>0, <2>6, <3>1, EnsureCertStep DEF EnsureCert, dnsVars
  <2>7. Failed(t) => task'[t].pc \notin {"add_zone", "remove_zone", "restart"}
    BY <1>0 DEF Failed
  <2>8. CASE PublishChallenge(t)
    BY <1>0, <1>5, <2>0, <2>7, <2>8, PublishStep DEF PublishChallenge, dnsVars
  <2>9. CASE CertIssued(t) \/ CertRefused(t)
    <3>1. task[t].pc = "validate" /\ Tail(issueQ) \in Seq(Tasks)
      BY <2>9, HolderFirst DEF CertIssued, CertRefused
    <3>2. /\ Only(t) /\ RowsKept(domains') /\ task'[t].pc \notin {"add_zone", "remove_zone", "restart"}
      BY <1>0, <2>7, <2>9, <3>1, IssuedStep, RefusedStep
    <3> QED  BY <1>5, <2>0, <2>9, <3>1, <3>2 DEF CertIssued, CertRefused, dnsVars
  <2> QED  BY <1>6, <2>1, <2>2, <2>3, <2>4, <2>5, <2>6, <2>8, <2>9 DEF TaskStep
<1>7. CASE RenewPrimary \/ RenewList \/ RenewNext
  <2>1. UNCHANGED <<zones, coredns, zoneQ, proc>>
    BY <1>7 DEF RenewPrimary, RenewList, RenewNext, dnsVars
  <2>2. /\ Only("renewal") /\ RowsKept(domains')
        /\ task["renewal"].pc \notin {"add_zone", "remove_zone", "restart"}
        /\ task'["renewal"].pc \notin {"add_zone", "remove_zone", "restart"}
    BY <1>0, <1>7, RenewalStep DEF RolesInv
  <2> QED  BY <1>0, <1>5, <2>1, <2>2
<1>8. CASE OperationStep
  BY <1>0, <1>2, <1>8, OperationsStep DEF dnsVars
<1>9. ~(ServeEnds \/ Exit \/ Crash)
  BY <1>0, ServeEndsStep, StoppedStep DEF Serving
<1>10. CASE Boot
  <2>1. zones' = Public(domains) /\ coredns'.zones = zones' /\ UNCHANGED <<domains, task, zoneQ>> /\ proc.phase = "down"
    BY <1>0, <1>10, BootStep
  <2>2. zoneQ = <<>> /\ \A t \in Tasks : task[t].pc = "idle"
    BY <2>1 DEF TaskInv, ProcInv, Tasks
  <2>3. ZonesBooted
    BY <2>1, <2>2 DEF ZonesBooted, Zoning
  <2> QED  BY <2>1, <2>3
<1>11. CASE RequestRestart \/ CaddyDies \/ CoreDnsDies \/ \E n \in Names : Ages(n)
  <2>1. /\ UNCHANGED <<domains, zones, zoneQ, task>> /\ (coredns'.up => UNCHANGED <<coredns, zones>>) /\ Serving
    BY <1>0, <1>b, <1>11, ElseStep
  <2>2. \A n \in Names : (Wanted(n)' => Wanted(n)) /\ (Allowed(n) => Allowed(n)')
    BY <1>m, <2>1 DEF Wanted, Allowed
  <2> QED  BY <2>1, <2>2 DEF ZonesKept
<1> QED  BY <1>1, <1>3, <1>4, <1>6, <1>7, <1>8, <1>9, <1>10, <1>11, NextCases

LEMMA ZoneQueueStep == TaskInv /\ [DomainsNext]_domainsVars => ZoneQueueInv'
<1> SUFFICES ASSUME TaskInv, [DomainsNext]_domainsVars, Serving' PROVE ZoneQueueInv'
  BY DEF ZoneQueueInv
<1>0. zoneQ \in Seq(Tasks) /\ Requests \subseteq Tasks
  BY RequestsAreTasks DEF TaskInv, DomainsTypeOK
<1>q. Serving => /\ \A i \in DOMAIN zoneQ : /\ zoneQ[i] \in Requests /\ Zoning(zoneQ[i])
                                            /\ task[zoneQ[i]].pc = "restart" => i = 1
                 /\ \A i, j \in DOMAIN zoneQ : zoneQ[i] = zoneQ[j] => i = j
                 /\ \A t \in Tasks : Zoning(t) => \E i \in DOMAIN zoneQ : zoneQ[i] = t
  BY DEF TaskInv, ZoneQueueInv
\* Those who change the zones are the same, and as far as before.
<1>1. ASSUME Serving, UNCHANGED zoneQ, \A t \in Tasks : Zoning(t) \/ Zoning(t)' => task'[t] = task[t]
      PROVE  ZoneQueueInv'
  <2>1. \A t \in Tasks : Zoning(t) <=> Zoning(t)'
    BY <1>1 DEF Zoning
  <2>2. \A i \in DOMAIN zoneQ : task'[zoneQ[i]] = task[zoneQ[i]]
    BY <1>0, <1>q, <1>1
  <2> QED  BY <1>0, <1>q, <1>1, <2>1, <2>2 DEF ZoneQueueInv
<1>2. ASSUME NEW t \in Requests, Serving, ZoneQueued(t) PROVE ZoneQueueInv'
  <2>1. /\ Only(t) /\ ~Zoning(t) /\ zoneQ' = Append(zoneQ, t) /\ Zoning(t)' /\ task'[t].pc # "restart"
    BY <1>2 DEF ZoneQueued, Zoning
  <2>2. /\ DOMAIN zoneQ' = 1..(Len(zoneQ) + 1) /\ zoneQ'[Len(zoneQ) + 1] = t /\ DOMAIN zoneQ = 1..Len(zoneQ)
        /\ \A i \in DOMAIN zoneQ : zoneQ'[i] = zoneQ[i]
    BY <1>0, <2>1
  <2>3. \A i \in DOMAIN zoneQ : zoneQ[i] # t /\ task'[zoneQ[i]] = task[zoneQ[i]]
    <3> TAKE i \in DOMAIN zoneQ
    <3>1. zoneQ[i] # t /\ zoneQ[i] \in Tasks
      BY <1>0, <1>2, <1>q, <2>1
    <3> QED  BY <2>1, <3>1 DEF Only
  <2>4. Len(zoneQ) \in Nat
    BY <1>0
  <2>5. \A i \in DOMAIN zoneQ' : /\ zoneQ'[i] \in Requests /\ task'[zoneQ'[i]].pc \in {"add_zone", "remove_zone", "restart"}
                                 /\ task'[zoneQ'[i]].pc = "restart" => i = 1
    <3> TAKE i \in DOMAIN zoneQ'
    <3>1. CASE i = Len(zoneQ) + 1
      BY <2>1, <2>2, <3>1 DEF Zoning
    <3>2. CASE i \in DOMAIN zoneQ
      <4>1. zoneQ'[i] = zoneQ[i] /\ zoneQ[i] \in Requests /\ task'[zoneQ[i]] = task[zoneQ[i]]
        BY <1>2, <1>q, <2>2, <2>3, <3>2
      <4>2. Zoning(zoneQ[i]) /\ (task[zoneQ[i]].pc = "restart" => i = 1)
        BY <1>2, <1>q, <3>2
      <4> QED  BY <4>1, <4>2 DEF Zoning
    <3> QED  BY <2>2, <2>4, <3>1, <3>2
  <2>6. \A i, j \in DOMAIN zoneQ' : zoneQ'[i] = zoneQ'[j] => i = j
    <3>1. \A i \in DOMAIN zoneQ' : i \in DOMAIN zoneQ \/ i = Len(zoneQ) + 1
      BY <2>2, <2>4
    <3> QED  BY <1>2, <1>q, <2>2, <2>3, <3>1
  <2>7. ASSUME NEW u \in Tasks, Zoning(u)' PROVE \E i \in DOMAIN zoneQ' : zoneQ'[i] = u
    <3>1. CASE u = t
      <4>1. Len(zoneQ) + 1 \in DOMAIN zoneQ'
        BY <2>2, <2>4
      <4> QED  BY <2>2, <3>1, <4>1
    <3>2. CASE u # t
      <4>1. Zoning(u)
        BY <2>1, <2>7, <3>2 DEF Zoning, Only
      <4>2. PICK i \in DOMAIN zoneQ : zoneQ[i] = u
        BY <1>2, <1>q, <4>1
      <4>3. i \in DOMAIN zoneQ'
        BY <2>2, <2>4
      <4> QED  BY <2>2, <4>2, <4>3
    <3> QED  BY <3>1, <3>2
  <2> QED  BY <2>5, <2>6, <2>7 DEF ZoneQueueInv, Zoning
<1>3. ASSUME NEW t \in Requests, Serving, ZoneApplied(t) PROVE ZoneQueueInv'
  <2>1. /\ Only(t) /\ UNCHANGED zoneQ /\ Zoning(t) /\ Zoning(t)' /\ zoneQ # <<>> /\ zoneQ[1] = t
    BY <1>3 DEF ZoneApplied, Zoning
  <2>2. \A u \in Tasks : Zoning(u) <=> Zoning(u)'
    BY <2>1 DEF Zoning, Only
  <2>3. ASSUME NEW i \in DOMAIN zoneQ, task'[zoneQ[i]].pc = "restart" PROVE i = 1
    <3>1. 1 \in DOMAIN zoneQ
      BY <1>0, <2>1
    <3>2. CASE zoneQ[i] = t
      BY <1>3, <1>q, <2>1, <3>1, <3>2
    <3>3. CASE zoneQ[i] # t
      <4>1. task'[zoneQ[i]] = task[zoneQ[i]]
        BY <1>0, <2>1, <3>3 DEF Only
      <4> QED  BY <1>3, <1>q, <2>3, <4>1
    <3> QED  BY <3>2, <3>3
  <2> QED  BY <1>0, <1>3, <1>q, <2>1, <2>2, <2>3 DEF ZoneQueueInv
<1>4. ASSUME NEW t \in Requests, Serving, ZoneLeft(t) PROVE ZoneQueueInv'
  <2>1. /\ Only(t) /\ zoneQ' = Tail(zoneQ) /\ ~Zoning(t)' /\ zoneQ # <<>> /\ zoneQ[1] = t
    BY <1>4 DEF ZoneLeft
  <2>2. /\ DOMAIN zoneQ' = 1..(Len(zoneQ) - 1) /\ DOMAIN zoneQ = 1..Len(zoneQ) /\ Len(zoneQ) \in Nat \ {0}
        /\ \A i \in DOMAIN zoneQ' : i + 1 \in DOMAIN zoneQ /\ i + 1 # 1 /\ zoneQ'[i] = zoneQ[i + 1]
    BY <1>0, <2>1
  <2>3. ASSUME NEW i \in DOMAIN zoneQ'
        PROVE  zoneQ'[i] \in Requests /\ task'[zoneQ'[i]].pc \in {"add_zone", "remove_zone"}
    <3>1. /\ zoneQ[i + 1] \in Requests /\ Zoning(zoneQ[i + 1]) /\ task[zoneQ[i + 1]].pc # "restart"
          /\ zoneQ[i + 1] # zoneQ[1]
      BY <1>4, <1>q, <2>2
    <3>2. task'[zoneQ[i + 1]] = task[zoneQ[i + 1]]
      BY <1>0, <2>1, <3>1 DEF Only
    <3> QED  BY <2>2, <3>1, <3>2 DEF Zoning
  <2>4. ASSUME NEW i \in DOMAIN zoneQ', NEW j \in DOMAIN zoneQ', zoneQ'[i] = zoneQ'[j] PROVE i = j
    <3>1. i + 1 = j + 1
      BY <1>4, <1>q, <2>2, <2>4
    <3> QED  BY <2>2, <3>1
  <2>5. ASSUME NEW u \in Tasks, Zoning(u)' PROVE \E i \in DOMAIN zoneQ' : zoneQ'[i] = u
    <3>1. u # t /\ Zoning(u)
      BY <2>1, <2>5 DEF Zoning, Only
    <3>2. PICK i \in DOMAIN zoneQ : zoneQ[i] = u
      BY <1>4, <1>q, <3>1
    <3>3. i # 1
      BY <2>1, <3>1, <3>2
    <3>4. i - 1 \in DOMAIN zoneQ' /\ (i - 1) + 1 = i
      BY <2>2, <3>3
    <3> QED  BY <2>2, <3>2, <3>4
  <2> QED  BY <2>3, <2>4, <2>5 DEF ZoneQueueInv, Zoning
<1>5. CASE ZonesBooted
  BY <1>5 DEF ZonesBooted, ZoneQueueInv
<1>6. CASE UNCHANGED domainsVars
  BY <1>1, <1>6 DEF domainsVars, dnsVars, Serving
<1>7. CASE DomainsNext
  BY <1>1, <1>2, <1>3, <1>4, <1>5, <1>7, ZoneCases DEF ZonesKept
<1> QED  BY <1>6, <1>7

LEMMA TaskInvStep == TaskInv /\ [DomainsNext]_domainsVars => TaskInv'
  BY TypesStep, RolesStep, MarksStep, IssueStep, ZoneQueueStep DEF TaskInv

\* The i-th is the last to change the zone of n.
LastFor(i, n) == Changes(i, n) /\ \A j \in DOMAIN zoneQ : j > i => ~Changes(j, n)

\* A change of the table brings the change of the zone that follows it, and the
\* queue keeps them in the order of those of the table.
LEMMA ZonesStep == TaskInv /\ ZonesInv /\ [DomainsNext]_domainsVars => ZonesInv'
<1> SUFFICES ASSUME TaskInv, ZonesInv, [DomainsNext]_domainsVars, Serving', ServesDns, NEW n \in Names
             PROVE  /\ (\A i \in DOMAIN zoneQ' : ~Changes(i, n)') => (Wanted(n)' => n \in zones') /\ (n \in zones' => Allowed(n)')
                    /\ \A i \in DOMAIN zoneQ' :
                         Changes(i, n)' /\ (\A j \in DOMAIN zoneQ' : j > i => ~Changes(j, n)')
                           => /\ Wanted(n)' => task'[zoneQ'[i]].pc = "add_zone"
                              /\ task'[zoneQ'[i]].pc = "add_zone" => Allowed(n)'
  BY DEF ZonesInv
<1> DEFINE Follows(zone) == (Wanted(n) => zone) /\ (zone => Allowed(n))
           FollowsNext(zone) == (Wanted(n)' => zone) /\ (zone => Allowed(n)')
           Goal == /\ (\A i \in DOMAIN zoneQ' : ~Changes(i, n)') => FollowsNext(n \in zones')
                   /\ \A i \in DOMAIN zoneQ' :
                        Changes(i, n)' /\ (\A j \in DOMAIN zoneQ' : j > i => ~Changes(j, n)')
                          => FollowsNext(task'[zoneQ'[i]].pc = "add_zone")
           Rows == (Wanted(n)' => Wanted(n)) /\ (Allowed(n) => Allowed(n)')
<1>0. zoneQ \in Seq(Tasks) /\ Requests \subseteq Tasks
  BY RequestsAreTasks DEF TaskInv, DomainsTypeOK
<1>q. Serving => /\ \A i \in DOMAIN zoneQ : zoneQ[i] \in Tasks /\ Zoning(zoneQ[i])
                 /\ \A i, j \in DOMAIN zoneQ : zoneQ[i] = zoneQ[j] => i = j
  BY <1>0 DEF TaskInv, ZoneQueueInv
<1>z. Serving => /\ (\A i \in DOMAIN zoneQ : ~Changes(i, n)) => Follows(n \in zones)
                 /\ \A i \in DOMAIN zoneQ : LastFor(i, n) => Follows(task[zoneQ[i]].pc = "add_zone")
  BY DEF ZonesInv, LastFor
<1>1. ASSUME Serving, UNCHANGED <<zoneQ, zones>>, Rows,
             \A t \in Tasks : Zoning(t) \/ Zoning(t)' => task'[t] = task[t]
      PROVE  Goal
  <2>1. \A i \in DOMAIN zoneQ : task'[zoneQ[i]] = task[zoneQ[i]]
    BY <1>q, <1>1
  <2>2. \A i \in DOMAIN zoneQ : Changes(i, n)' <=> Changes(i, n)
    BY <1>1, <2>1 DEF Changes
  <2> QED  BY <1>1, <1>z, <2>1, <2>2 DEF LastFor
<1>2. ASSUME NEW t \in Requests, Serving, ZoneQueued(t) PROVE Goal
  <2>1. /\ Only(t) /\ ~Zoning(t) /\ zoneQ' = Append(zoneQ, t) /\ UNCHANGED zones
        /\ task'[t].pc \in {"add_zone", "remove_zone"}
        /\ n # task'[t].name => Rows
        /\ n = task'[t].name => FollowsNext(task'[t].pc = "add_zone")
    BY <1>2 DEF ZoneQueued
  <2>2. PICK k \in Nat : /\ DOMAIN zoneQ' = 1..k /\ zoneQ'[k] = t /\ k = Len(zoneQ) + 1
                         /\ DOMAIN zoneQ = 1..Len(zoneQ) /\ Len(zoneQ) \in Nat
                         /\ \A i \in DOMAIN zoneQ : zoneQ'[i] = zoneQ[i]
    <3>1. Len(zoneQ) + 1 \in Nat
      BY <1>0
    <3> QED  BY <1>0, <2>1, <3>1
  <2>3. k \in DOMAIN zoneQ' /\ \A i \in DOMAIN zoneQ : i \in DOMAIN zoneQ' /\ k > i
    BY <2>2
  <2>4. \A i \in DOMAIN zoneQ' : i \in DOMAIN zoneQ \/ i = k
    BY <2>2
  <2>5. \A i \in DOMAIN zoneQ : task'[zoneQ[i]] = task[zoneQ[i]]
    BY <1>2, <1>q, <2>1 DEF Only
  <2>6. \A i \in DOMAIN zoneQ : Changes(i, n)' <=> Changes(i, n)
    BY <2>2, <2>5 DEF Changes
  <2>7. Changes(k, n)' <=> n = task'[t].name
    BY <2>1, <2>2 DEF Changes
  <2>8. CASE n = task'[t].name
    <3>1. Changes(k, n)' /\ task'[zoneQ'[k]].pc = task'[t].pc
      BY <2>2, <2>7, <2>8
    <3>2. \A i \in DOMAIN zoneQ : k \in DOMAIN zoneQ' /\ k > i
      BY <2>3
    <3> QED  BY <2>1, <2>3, <2>4, <2>8, <3>1, <3>2
  <2>9. CASE n # task'[t].name
    <3>1. ASSUME \A i \in DOMAIN zoneQ' : ~Changes(i, n)' PROVE FollowsNext(n \in zones')
      <4>1. \A i \in DOMAIN zoneQ : ~Changes(i, n)
        BY <2>3, <2>6, <3>1
      <4> QED  BY <1>2, <1>z, <2>1, <2>9, <4>1
    <3>2. ASSUME NEW i \in DOMAIN zoneQ', Changes(i, n)', \A j \in DOMAIN zoneQ' : j > i => ~Changes(j, n)'
          PROVE  FollowsNext(task'[zoneQ'[i]].pc = "add_zone")
      <4>1. i \in DOMAIN zoneQ
        BY <2>4, <2>7, <2>9, <3>2
      <4>2. LastFor(i, n)
        BY <2>3, <2>6, <3>2, <4>1 DEF LastFor
      <4> QED  BY <1>2, <1>z, <2>1, <2>2, <2>5, <2>9, <4>1, <4>2
    <3> QED  BY <3>1, <3>2
  <2> QED  BY <2>8, <2>9
<1>3. ASSUME NEW t \in Requests, Serving, ZoneApplied(t) PROVE Goal
  <2>1. /\ Only(t) /\ UNCHANGED zoneQ /\ Rows /\ zoneQ # <<>> /\ zoneQ[1] = t
        /\ task[t].pc \in {"add_zone", "remove_zone"} /\ task'[t].pc = "restart"
        /\ zones' = IF task[t].pc = "add_zone" THEN zones \cup {task[t].name} ELSE zones \ {task[t].name}
    BY <1>3 DEF ZoneApplied, Wanted, Allowed
  <2>2. 1 \in DOMAIN zoneQ /\ \A j \in DOMAIN zoneQ : j # 1 => j > 1
    BY <1>0, <2>1
  <2>3. \A i \in DOMAIN zoneQ : i # 1 => task'[zoneQ[i]] = task[zoneQ[i]]
    BY <1>3, <1>q, <2>1, <2>2 DEF Only
  <2>4. ~Changes(1, n)' /\ \A i \in DOMAIN zoneQ : i # 1 => (Changes(i, n)' <=> Changes(i, n))
    BY <2>1, <2>3 DEF Changes
  <2>5. ASSUME \A i \in DOMAIN zoneQ' : ~Changes(i, n)' PROVE FollowsNext(n \in zones')
    <3>1. \A i \in DOMAIN zoneQ : i # 1 => ~Changes(i, n)
      BY <2>1, <2>4, <2>5
    <3>2. CASE n = task[t].name
      <4>1. LastFor(1, n)
        BY <2>1, <2>2, <3>1, <3>2 DEF LastFor, Changes
      <4>2. Follows(task[t].pc = "add_zone")
        BY <1>3, <1>z, <2>1, <2>2, <4>1
      <4> QED  BY <2>1, <3>2, <4>2
    <3>3. CASE n # task[t].name
      <4>1. ~Changes(1, n)
        BY <2>1, <3>3 DEF Changes
      <4>2. Follows(n \in zones)
        BY <1>3, <1>z, <3>1, <4>1
      <4> QED  BY <2>1, <3>3, <4>2
    <3> QED  BY <3>2, <3>3
  <2>6. ASSUME NEW i \in DOMAIN zoneQ', Changes(i, n)', \A j \in DOMAIN zoneQ' : j > i => ~Changes(j, n)'
        PROVE  FollowsNext(task'[zoneQ'[i]].pc = "add_zone")
    <3>1. i # 1 /\ i \in DOMAIN zoneQ
      BY <2>1, <2>4, <2>6
    <3>2. ASSUME NEW j \in DOMAIN zoneQ, j > i PROVE ~Changes(j, n)
      <4>1. j # 1
        BY <1>0, <3>1, <3>2
      <4> QED  BY <2>1, <2>4, <2>6, <3>2, <4>1
    <3>3. LastFor(i, n)
      BY <2>4, <2>6, <3>1, <3>2 DEF LastFor
    <3> QED  BY <1>3, <1>z, <2>1, <2>3, <3>1, <3>3
  <2> QED  BY <2>5, <2>6
<1>4. ASSUME NEW t \in Requests, Serving, ZoneLeft(t) PROVE Goal
  <2>1. /\ Only(t) /\ UNCHANGED zones /\ Rows /\ zoneQ # <<>> /\ zoneQ[1] = t /\ zoneQ' = Tail(zoneQ)
        /\ task[t].pc = "restart" \/ (task[t].pc = "add_zone" /\ task[t].name \in zones)
    BY <1>4 DEF ZoneLeft, Wanted, Allowed
  <2>2. /\ 1 \in DOMAIN zoneQ
        /\ \A i \in DOMAIN zoneQ' : i + 1 \in DOMAIN zoneQ /\ i + 1 > 1 /\ zoneQ'[i] = zoneQ[i + 1]
        /\ \A j \in DOMAIN zoneQ : j # 1 => j - 1 \in DOMAIN zoneQ' /\ (j - 1) + 1 = j
        /\ DOMAIN zoneQ' \subseteq Nat /\ DOMAIN zoneQ \subseteq Nat
    BY <1>0, <2>1
  <2>3. \A i \in DOMAIN zoneQ' : task'[zoneQ'[i]] = task[zoneQ[i + 1]]
    <3> TAKE i \in DOMAIN zoneQ'
    <3>1. zoneQ[i + 1] # t /\ zoneQ[i + 1] \in Tasks
      BY <1>4, <1>q, <2>1, <2>2
    <3> QED  BY <2>1, <2>2, <3>1 DEF Only
  <2>4. \A i \in DOMAIN zoneQ' : Changes(i, n)' <=> Changes(i + 1, n)
    BY <2>2, <2>3 DEF Changes
  <2>5. ASSUME \A i \in DOMAIN zoneQ' : ~Changes(i, n)' PROVE FollowsNext(n \in zones')
    <3>1. \A i \in DOMAIN zoneQ : i # 1 => ~Changes(i, n)
      BY <2>2, <2>4, <2>5
    <3>2. CASE Changes(1, n)
      <4>1. LastFor(1, n)
        BY <2>2, <3>1, <3>2 DEF LastFor
      <4>2. task[t].pc = "add_zone" /\ task[t].name = n /\ n \in zones
        BY <2>1, <3>2 DEF Changes
      <4>3. Allowed(n)
        BY <1>4, <1>z, <2>1, <2>2, <4>1, <4>2
      <4> QED  BY <2>1, <4>2, <4>3
    <3>3. CASE ~Changes(1, n)
      <4>1. \A i \in DOMAIN zoneQ : ~Changes(i, n)
        BY <3>1, <3>3
      <4> QED  BY <1>4, <1>z, <2>1, <4>1
    <3> QED  BY <3>2, <3>3
  <2>6. ASSUME NEW i \in DOMAIN zoneQ', Changes(i, n)', \A j \in DOMAIN zoneQ' : j > i => ~Changes(j, n)'
        PROVE  FollowsNext(task'[zoneQ'[i]].pc = "add_zone")
    <3>1. Changes(i + 1, n) /\ i + 1 \in DOMAIN zoneQ
      BY <2>2, <2>4, <2>6
    <3>2. ASSUME NEW j \in DOMAIN zoneQ, j > i + 1 PROVE ~Changes(j, n)
      <4>1. j # 1 /\ j - 1 > i
        BY <2>2, <3>2
      <4>2. j - 1 \in DOMAIN zoneQ' /\ (j - 1) + 1 = j
        BY <2>2, <4>1
      <4> QED  BY <2>4, <2>6, <4>1, <4>2
    <3>3. LastFor(i + 1, n)
      BY <3>1, <3>2 DEF LastFor
    <3> QED  BY <1>4, <1>z, <2>1, <2>3, <3>1, <3>3
  <2> QED  BY <2>5, <2>6
<1>5. CASE ZonesBooted
  <2>1. zones' = DOMAIN domains /\ UNCHANGED domains
    BY <1>5 DEF ZonesBooted, Public
  <2>2. \A i \in DOMAIN zoneQ' : FALSE
    BY <1>5 DEF ZonesBooted
  <2> QED  BY <2>1, <2>2 DEF Wanted, Allowed
<1>6. CASE UNCHANGED domainsVars
  <2>1. Rows
    BY <1>6 DEF domainsVars, Wanted, Allowed
  <2> QED  BY <1>1, <1>6, <2>1 DEF domainsVars, dnsVars, Serving
<1>7. CASE DomainsNext
  <2>1. ZonesKept => /\ UNCHANGED <<zoneQ, zones>> /\ Rows
                     /\ \A t \in Tasks : Zoning(t) \/ Zoning(t)' => task'[t] = task[t]
    BY DEF ZonesKept
  <2> QED  BY <1>1, <1>2, <1>3, <1>4, <1>5, <1>7, <2>1, ZoneCases
<1> QED  BY <1>6, <1>7

LEMMA ServedStep == TaskInv /\ NoZonesInv /\ CoreDnsInv /\ [DomainsNext]_domainsVars => NoZonesInv' /\ CoreDnsInv'
<1> SUFFICES ASSUME TaskInv, NoZonesInv, CoreDnsInv, [DomainsNext]_domainsVars, Serving' PROVE NoZonesInv' /\ CoreDnsInv'
  BY DEF NoZonesInv, CoreDnsInv
<1>1. CoreDnsInv'
  <2>1. CASE DomainsNext
    BY <2>1, ZoneCases DEF CoreDnsInv
  <2>2. CASE UNCHANGED domainsVars
    BY <2>2 DEF CoreDnsInv, domainsVars, dnsVars, Serving
  <2> QED  BY <2>1, <2>2
<1>2. ASSUME ~ServesDns PROVE zones' = {} /\ \A t \in Tasks : ~Zoning(t)'
  <2>0. Serving => zones = {} /\ \A t \in Tasks : ~Zoning(t)
    BY <1>2 DEF NoZonesInv
  <2>1. CASE DomainsNext
    <3>1. Requests \subseteq Tasks
      BY RequestsAreTasks
    <3>2. CASE ZonesBooted
      BY <1>2, <3>2 DEF ZonesBooted, Public
    <3>3. CASE Serving /\ ZonesKept
      BY <2>0, <3>3 DEF ZonesKept, Zoning
    <3>4. ASSUME Serving, NEW t \in Requests, ZoneQueued(t) \/ ZoneApplied(t) \/ ZoneLeft(t) PROVE FALSE
      <4>1. ~Zoning(t)
        BY <2>0, <3>1, <3>4
      <4> QED  BY <1>2, <3>4, <4>1 DEF ZoneQueued, ZoneApplied, ZoneLeft, Zoning
    <3> QED  BY <2>1, <3>2, <3>3, <3>4, ZoneCases
  <2>2. CASE UNCHANGED domainsVars
    BY <2>0, <2>2 DEF domainsVars, dnsVars, Serving, Zoning
  <2> QED  BY <2>1, <2>2
<1> QED  BY <1>1, <1>2 DEF NoZonesInv

-----------------------------------------------------------------------------
(* The sites of Caddy.                                                      *)

\* A task that had to write the Caddyfile still has to, and the sites are those
\* they were.
LEMMA SitesKept ==
    ASSUME SitesInv, Serving, NEW t \in Tasks, Only(t), WillReload(t) => WillReload(t)', task[t].pc # "caddy",
           UNCHANGED caddyfile, caddy'.up => caddy' = caddy,
           Sites(domains', disk') = Sites(domains, disk)
    PROVE  SitesInv'
<1>1. CASE \E u \in Tasks : WillReload(u)
  <2>1. PICK u \in Tasks : WillReload(u)
    BY <1>1
  <2>2. WillReload(u)'
    BY <2>1 DEF Only, WillReload, Zoning
  <2> QED  BY <2>2 DEF SitesInv
<1>2. CASE /\ caddyfile = Sites(domains, disk)
           /\ (\E u \in Tasks : task[u].pc = "caddy") \/ (caddy.up => caddy.sites = caddyfile)
  <2>1. (\E u \in Tasks : task[u].pc = "caddy") => \E u \in Tasks : task'[u].pc = "caddy"
    BY DEF Only
  <2> QED  BY <1>2, <2>1 DEF SitesInv
<1> QED  BY <1>1, <1>2 DEF SitesInv

LEMMA RowsSites ==
    ASSUME DomainsTypeOK, RowsKept(domains') \/ MarksKept \/ UNCHANGED domains, UNCHANGED disk
    PROVE  Sites(domains', disk') = Sites(domains, disk)
  BY DEF RowsKept, MarksKept, Sites, DomainsTypeOK

LEMMA SitesStep == TaskInv /\ SitesInv /\ [DomainsNext]_domainsVars => SitesInv'
<1> SUFFICES ASSUME TaskInv, SitesInv, [DomainsNext]_domainsVars, Serving' PROVE SitesInv'
  BY DEF SitesInv
<1>0. /\ DomainsTypeOK /\ OnePrimary /\ RolesInv /\ Requests \subseteq Tasks /\ "renewal" \in Tasks
      /\ "renewal" \notin Requests /\ Rest.pc = "idle" /\ ~Rest.renewed
  BY RequestsAreTasks DEF TaskInv, Rest
<1>b. proc'.phase = proc.phase => Serving
  BY DEF Serving
\* One who will write the Caddyfile.
<1>a. ASSUME NEW t \in Tasks, WillReload(t)' PROVE SitesInv'
  BY <1>a DEF SitesInv
<1>1. ASSUME NEW t \in Requests, RequestSteps(t) PROVE SitesInv'
  <2>1. ASSUME NEW n \in Names, \E tls, mdns \in BOOLEAN : AddDomain(t, n, tls, mdns)
        PROVE  SitesInv'
    <3>1. task'[t].pc \in {"add_zone", "reload"}
      BY <1>0, <2>1, AddDomainStep
    <3> QED  BY <1>0, <1>a, <3>1 DEF WillReload, Zoning
  <2>2. ASSUME NEW n \in Names, RemoveDomain(t, n) PROVE SitesInv'
    <3>1. Only(t) /\ task[t].pc = "idle"
      BY <1>0, <2>2, RemoveDomainStep
    <3>2. Serving /\ UNCHANGED <<caddyfile, caddy, domains, disk>>
      BY <2>2 DEF RemoveDomain, caddyVars, certVars
    <3>3. ~WillReload(t)
      BY <1>0, <3>1 DEF WillReload, Zoning
    <3> QED  BY <1>0, <3>1, <3>2, <3>3, SitesKept
  <2> QED  BY <1>1, <2>1, <2>2 DEF RequestSteps
<1>2. ASSUME UNCHANGED <<task, caddyfile>>, proc'.phase = proc.phase, caddy'.up => caddy' = caddy,
             Sites(domains', disk') = Sites(domains, disk)
      PROVE  SitesInv'
  <2>1. Serving /\ \A t \in Tasks : WillReload(t)' <=> WillReload(t)
    BY <1>2, <1>b DEF WillReload, Zoning
  <2> QED  BY <1>2, <2>1 DEF SitesInv
<1>3. ASSUME Waits, proc'.phase = proc.phase, UNCHANGED <<caddyfile, caddy>>, Sites(domains', disk') = Sites(domains, disk)
      PROVE  SitesInv'
  <2>1. ASSUME NEW t \in Requests, Only(t), task[t].pc \in {"idle", "await"} PROVE SitesInv'
    <3>1. ~WillReload(t) /\ task[t].pc # "caddy"
      BY <1>0, <2>1 DEF WillReload, Zoning
    <3> QED  BY <1>0, <1>3, <1>b, <2>1, <3>1, SitesKept
  <2> QED  BY <1>2, <1>3, <2>1 DEF Waits
<1>4. ASSUME NEW t \in Requests, NEW kind \in {"promote", "archive"}, NEW n \in Names, StartOperation(t, kind, n)
      PROVE  SitesInv'
  <2>1. /\ Waits /\ UNCHANGED <<domains, dnsVars, certVars, caddyVars, proc>>
    BY <1>0, <1>4, StartOperationStep
  <2> QED  BY <1>0, <1>3, <2>1, RowsSites DEF caddyVars, certVars
<1>5. ASSUME NEW t \in Requests, Cancel(t) PROVE SitesInv'
  <2>1. /\ Waits /\ UNCHANGED <<domains, dnsVars, certVars, caddyVars, proc>>
    BY <1>0, <1>5, CancelStep
  <2> QED  BY <1>0, <1>3, <2>1, RowsSites DEF caddyVars, certVars
\* An attempt that failed changes no site.
<1>6. ASSUME NEW t \in Tasks, Only(t), Failed(t), task[t].pc \in {"order", "validate"}, RowsKept(domains'),
             UNCHANGED <<disk, caddyfile, caddy>>, Serving
      PROVE  SitesInv'
  <2>1. WillReload(t) => WillReload(t)'
    <3>1. WillReload(t) <=> t = "renewal" /\ task[t].renewed
      BY <1>6 DEF WillReload, Zoning
    <3>2. WillReload(t) => task[t].then # "acquire"
      BY <1>0, <3>1 DEF RolesInv
    <3>3. WillReload(t) => task'[t].renewed /\ task'[t].pc \in {"order", "next"}
      BY <1>6, <3>1, <3>2 DEF Failed
    <3> QED  BY <3>1, <3>3 DEF WillReload
  <2> QED  BY <1>0, <1>6, <2>1, SitesKept, RowsSites
<1>7. ASSUME NEW t \in Tasks, TaskStep(t) PROVE SitesInv'
  <2>0. Serving
    <3>1. UNCHANGED proc
      BY <1>7 DEF TaskStep, RemoveDelete, ApplyZones, CoreDnsStarted, ReloadCaddy, CaddyReloads, EnsureCert,
         PublishChallenge, CertIssued, CertRefused
    <3> QED  BY <3>1, <1>b
  <2>1. CASE RemoveDelete(t)
    <3>1. CASE task'[t].pc \in {"remove_zone", "reload"}
      BY <1>a, <3>1 DEF WillReload, Zoning
    <3>2. CASE task'[t].pc = "idle" /\ UNCHANGED domains
      <4>1. Only(t) /\ task[t].pc = "delete" /\ UNCHANGED <<caddyfile, caddy, disk>>
        BY <1>0, <2>1, RemoveDeleteStep DEF RemoveDelete, caddyVars, certVars
      <4>2. ~WillReload(t)
        BY <4>1 DEF WillReload, Zoning
      <4> QED  BY <1>0, <2>0, <3>2, <4>1, <4>2, SitesKept
    <3> QED  BY <1>0, <2>1, <3>1, <3>2, RemoveDeleteStep
  <2>2. CASE ApplyZones(t)
    <3>1. task'[t].pc \in {"reload", "restart"}
      BY <1>0, <2>2, ApplyZonesStep
    <3> QED  BY <1>a, <3>1 DEF WillReload, Zoning
  <2>3. CASE CoreDnsStarted(t)
    <3>1. task'[t].pc = "reload"
      BY <1>0, <2>3, HolderFirst, CoreDnsStartedStep
    <3> QED  BY <1>a, <3>1 DEF WillReload
  <2>4. CASE ReloadCaddy(t)
    <3>1. task'[t].pc = "caddy" /\ caddyfile' = Sites(domains, disk) /\ UNCHANGED <<domains, disk>>
      BY <1>0, <2>4, ReloadCaddyStep DEF ReloadCaddy, certVars
    <3> QED  BY <3>1 DEF SitesInv
  <2>5. CASE CaddyReloads(t)
    <3>1. Only(t) /\ task[t].pc = "caddy" /\ caddy'.sites = caddyfile
      BY <1>0, <2>5, CaddyReloadsStep
    <3>2. UNCHANGED <<caddyfile, domains, disk>>
      BY <2>5 DEF CaddyReloads, certVars
    <3>3. ~WillReload(t)
      BY <3>1 DEF WillReload, Zoning
    <3>4. (\E u \in Tasks : WillReload(u)) => \E u \in Tasks : WillReload(u)'
      BY <3>1, <3>3 DEF WillReload, Zoning, Only
    <3> QED  BY <2>0, <3>1, <3>2, <3>4 DEF SitesInv
  <2>6. CASE EnsureCert(t)
    <3>1. Only(t) /\ RowsKept(domains') /\ task[t].pc = "acquire"
      BY <1>0, <2>6, EnsureCertStep
    <3>2. UNCHANGED <<caddyfile, caddy, disk>>
      BY <2>6 DEF EnsureCert, caddyVars
    <3>3. ~WillReload(t)
      BY <3>1 DEF WillReload, Zoning
    <3> QED  BY <1>0, <2>0, <3>1, <3>2, <3>3, SitesKept, RowsSites
  <2>7. CASE PublishChallenge(t)
    <3>1. UNCHANGED <<caddyfile, caddy, disk>>
      BY <2>7 DEF PublishChallenge, caddyVars
    <3>2. Only(t) /\ RowsKept(domains') /\ task[t].pc = "order"
      BY <1>0, <2>7, PublishStep
    <3>3. CASE Failed(t)
      BY <1>6, <2>0, <3>1, <3>2, <3>3
    <3>4. CASE task'[t].pc = "validate" /\ SameWork(task'[t], task[t])
      <4>1. WillReload(t) => WillReload(t)'
        BY <3>2, <3>4 DEF WillReload, Zoning, SameWork
      <4> QED  BY <1>0, <2>0, <3>1, <3>2, <4>1, SitesKept, RowsSites
    <3> QED  BY <1>0, <2>7, <3>3, <3>4, PublishStep
  <2>8. CASE CertIssued(t)
    <3>1. Tail(issueQ) \in Seq(Tasks)
      BY <2>8, HolderFirst DEF CertIssued
    <3>2. WillReload(t)'
      BY <1>0, <2>8, <3>1, IssuedStep DEF WillReload
    <3> QED  BY <1>a, <3>2
  <2>9. CASE CertRefused(t)
    <3>1. task[t].pc = "validate" /\ Tail(issueQ) \in Seq(Tasks)
      BY <2>9, HolderFirst DEF CertRefused
    <3>2. UNCHANGED <<caddyfile, caddy, disk>>
      BY <2>9 DEF CertRefused, caddyVars
    <3> QED  BY <1>0, <1>6, <2>0, <2>9, <3>1, <3>2, RefusedStep
  <2> QED  BY <1>7, <2>1, <2>2, <2>3, <2>4, <2>5, <2>6, <2>7, <2>8, <2>9 DEF TaskStep
<1>8. CASE RenewPrimary \/ RenewList \/ RenewNext
  <2>1. Serving /\ UNCHANGED <<caddyfile, caddy, disk>>
    BY <1>8, <1>b DEF RenewPrimary, RenewList, RenewNext, caddyVars, certVars
  <2>2. Only("renewal") /\ RowsKept(domains') /\ task["renewal"].pc \in {"idle", "list", "next"}
    BY <1>0, <1>8, RenewalStep
  <2>3. WillReload("renewal") => WillReload("renewal")'
    <3>1. WillReload("renewal") <=> task["renewal"].renewed /\ task["renewal"].pc \in {"list", "next"}
      BY <2>2 DEF WillReload, Zoning
    <3>2. /\ task["renewal"].pc = "list" => /\ task'["renewal"].pc = "next"
                                            /\ task'["renewal"].renewed = task["renewal"].renewed
          /\ task["renewal"].pc = "next" /\ task["renewal"].renewed =>
               \/ task'["renewal"].renewed /\ task'["renewal"].pc \in {"next", "order"}
               \/ task'["renewal"].pc = "reload"
      BY <1>0, <1>8, RenewalStep
    <3> QED  BY <3>1, <3>2 DEF WillReload
  <2> QED  BY <1>0, <2>1, <2>2, <2>3, SitesKept, RowsSites
<1>9. CASE OperationStep
  <2>1. Waits /\ MarksKept /\ UNCHANGED <<dnsVars, certVars, caddyVars>> /\ proc'.phase = proc.phase
    BY <1>0, <1>9, OperationsStep
  <2> QED  BY <1>0, <1>3, <2>1, RowsSites DEF caddyVars, certVars
<1>10. ~(ServeEnds \/ Exit \/ Crash)
  BY <1>0, ServeEndsStep, StoppedStep DEF Serving
<1>11. CASE Boot
  BY <1>0, <1>11, BootStep DEF SitesInv
<1>12. CASE RequestRestart \/ CaddyDies \/ CoreDnsDies \/ \E n \in Names : Ages(n)
  BY <1>0, <1>2, <1>12, ElseStep
<1>13. CASE UNCHANGED domainsVars
  BY <1>0, <1>2, <1>13 DEF domainsVars, caddyVars, certVars
<1> QED  BY <1>1, <1>4, <1>5, <1>7, <1>8, <1>9, <1>10, <1>11, <1>12, <1>13, NextCases

-----------------------------------------------------------------------------
(* The theorems.                                                            *)

DomainsInv == TaskInv /\ ZonesInv /\ NoZonesInv /\ CoreDnsInv /\ SitesInv

LEMMA DomainsInvInit == DomainsInit => DomainsInv
<1> SUFFICES ASSUME DomainsInit PROVE DomainsInv
  OBVIOUS
<1>1. PICK tls \in BOOLEAN, mdns \in BOOLEAN :
        domains = [n \in {First} |-> [tls |-> tls, mdns |-> mdns, primary |-> TRUE, cert |-> "none"]]
  BY DomainsAssumption DEF DomainsInit
<1>2. DOMAIN domains = {First} /\ domains \in [DOMAIN domains -> Row] /\ domains[First].primary
  BY <1>1 DEF Row
<1>3. /\ task = [t \in Tasks |-> Rest] /\ proc.phase = "down" /\ zoneQ = <<>> /\ issueQ = <<>>
      /\ Rest.pc = "idle" /\ Rest.then = "idle"
  BY DEF DomainsInit, Rest
<1>4. DomainsTypeOK
  <2>1. task \in [Tasks -> Work]
    BY <1>3, RestTyped
  <2>2. domains \in [DOMAIN domains -> Row] /\ DOMAIN domains \subseteq Names
    BY <1>2, DomainsAssumption
  <2>3. /\ disk \in [Names -> {"none", "ok", "soon", "expired"}] /\ zones \subseteq Names
        /\ coredns \in [up : BOOLEAN, zones : SUBSET Names] /\ txt \in Tasks \cup {"none"}
    BY DEF DomainsInit
  <2>4. caddy = [up |-> caddy.up, sites |-> caddy.sites] /\ caddy.up \in BOOLEAN
    <3>1. caddy = [up |-> FALSE, sites |-> <<>>]
      BY DEF DomainsInit
    <3> QED  BY <3>1
  <2>5. zoneQ \in Seq(Tasks) /\ issueQ \in Seq(Tasks) /\ caddyQ \in Seq(Tasks)
    BY DEF DomainsInit
  <2>6. /\ opLock \in BOOLEAN /\ ops \subseteq Operation
        /\ proc \in [phase : {"serving", "draining", "down"}, shutdown : BOOLEAN, renewing : BOOLEAN,
                     marked : SUBSET Names]
    BY <2>2 DEF DomainsInit
  <2>7. events \in 0..MaxEvents
    <3>1. events = 0 /\ MaxEvents \in Nat
      BY DomainsAssumption DEF DomainsInit
    <3> QED  BY <3>1
  <2> QED  BY <2>1, <2>2, <2>3, <2>4, <2>5, <2>6, <2>7 DEF DomainsTypeOK
<1>5. OnePrimary
  BY <1>2 DEF OnePrimary
<1>6. RolesInv /\ MarksInv /\ ProcInv /\ IssueInv /\ ZoneQueueInv
  <2>1. proc.marked = {n \in DOMAIN domains : domains[n].mdns}
    BY DEF DomainsInit
  <2> QED  BY <1>2, <1>3, <2>1, RequestsAreTasks DEF RolesInv, MarksInv, ProcInv, IssueInv, ZoneQueueInv, Serving
<1>7. ZonesInv /\ NoZonesInv /\ CoreDnsInv /\ SitesInv
  BY <1>3 DEF ZonesInv, NoZonesInv, CoreDnsInv, SitesInv, Serving
<1> QED  BY <1>4, <1>5, <1>6, <1>7 DEF DomainsInv, TaskInv

LEMMA DomainsInvHolds == DomainsSpec => []DomainsInv
<1>1. DomainsInv /\ [DomainsNext]_domainsVars => DomainsInv'
  BY TaskInvStep, ZonesStep, ServedStep, SitesStep DEF DomainsInv
<1> QED  BY <1>1, DomainsInvInit, PTL DEF DomainsSpec

\* The variables keep their types.
THEOREM DomainsTyped == DomainsSpec => []DomainsTypeOK
<1>1. DomainsInv => DomainsTypeOK
  BY DEF DomainsInv, TaskInv
<1> QED  BY <1>1, DomainsInvHolds, PTL

\* There is one primary domain at every moment: a promotion moves it in one
\* transaction, and no removal takes it, whenever its row was read
\* (set_primary_domain, remove_non_primary_record).
THEOREM PrimaryUnique == DomainsSpec => []OnePrimary
<1>1. DomainsInv => OnePrimary
  BY DEF DomainsInv, TaskInv
<1> QED  BY <1>1, DomainsInvHolds, PTL

\* Nobody writes over the tokens of an order the CA looks at: whoever has one
\* holds _issuance_lock, from before its tokens are published until they are
\* taken back, by a shutdown too.
THEOREM ChallengesApart == DomainsSpec => []ChallengeIntact
<1>1. DomainsInv => ChallengeIntact
  BY DEF DomainsInv, TaskInv, IssueInv, ChallengeIntact
<1> QED  BY <1>1, DomainsInvHolds, PTL

\* When nothing is under way, CoreDNS has a zone for every domain of the table that
\* is not marked mDNS, and for no name that is neither in the table nor was marked
\* mDNS while the router ran; Caddy has the sites of the table and the disk.  That
\* holds however the changes that led there came in between each other: the queue
\* of the zone lock keeps the changes of a zone in the order of those of its row,
\* and whoever changes the table or the disk still has the Caddyfile to write.
THEOREM FrontEndFollows == DomainsSpec => []FrontEndCurrent
<1>1. DomainsInv => FrontEndCurrent
  <2> SUFFICES ASSUME DomainsInv, Quiet PROVE /\ {n \in Public(domains) : ~domains[n].mdns} \subseteq zones
                                              /\ zones \subseteq Public(domains) \cup proc.marked
                                              /\ coredns.up => coredns.zones = zones
                                              /\ caddy.up => caddy.sites = Sites(domains, disk)
    BY DEF FrontEndCurrent
  <2>1. Serving /\ \A t \in Tasks : task[t].pc = "idle"
    BY DEF Quiet
  <2>2. zones \subseteq Names /\ DOMAIN domains \subseteq Names /\ zoneQ \in Seq(Tasks)
    BY DEF DomainsInv, TaskInv, DomainsTypeOK
  <2>3. \A i \in DOMAIN zoneQ : zoneQ[i] \in Tasks
    BY <2>2
  <2>4. /\ {n \in Public(domains) : ~domains[n].mdns} \subseteq zones
        /\ zones \subseteq Public(domains) \cup proc.marked
    <3>1. CASE ServesDns
      <4>1. \A n \in Names : (Wanted(n) => n \in zones) /\ (n \in zones => Allowed(n))
        BY <2>1, <2>3, <3>1 DEF DomainsInv, ZonesInv, Changes
      <4> QED  BY <2>2, <3>1, <4>1 DEF Public, Wanted, Allowed
    <3>2. CASE ~ServesDns
      BY <2>1, <3>2 DEF DomainsInv, NoZonesInv, Public
    <3> QED  BY <3>1, <3>2
  <2>5. coredns.up => coredns.zones = zones
    BY <2>1 DEF DomainsInv, CoreDnsInv
  <2>6. caddy.up => caddy.sites = Sites(domains, disk)
    <3>1. \A t \in Tasks : ~WillReload(t) /\ task[t].pc # "caddy"
      BY <2>1 DEF WillReload, Zoning
    <3> QED  BY <2>1, <3>1 DEF DomainsInv, SitesInv
  <2> QED  BY <2>4, <2>5, <2>6
<1> QED  BY <1>1, DomainsInvHolds, PTL

=============================================================================
