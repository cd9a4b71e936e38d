------------------------------ MODULE Domains ------------------------------
(* The names a space answers on, and what follows them: the zones CoreDNS     *)
(* serves, the certificates acquired by DNS-01 challenges, and the sites of   *)
(* Caddy.  Requests and the renewal task are coroutines of one event loop     *)
(* that wait on three asyncio locks (zones, issuance, Caddy); a promotion     *)
(* runs in a thread, as the exclusive operation, and ends in a restart.       *)

EXTENDS Integers, Sequences, FiniteSets

CONSTANTS
    Names,       \* domain names
    First,       \* the primary domain of first_boot.toml
    Given,       \* what that file and requests may say of a name
    Requests,    \* coroutines that serve requests
    ServesDns,   \* there is an address to serve public zones on (coredns_enabled)
    Attempts,    \* orders tried for a certificate: 3 with ACME, 1 with the broker
    Faults,      \* what may go wrong
    MaxEvents    \* bound on requests, expiries and faults

Tasks == Requests \cup {"renewal"}

ASSUME DomainsAssumption ==
    /\ First \in Names /\ Given \subseteq [name : Names, tls : BOOLEAN, mdns : BOOLEAN]
    /\ IsFiniteSet(Requests) /\ "renewal" \notin Requests /\ "none" \notin Tasks
    /\ ServesDns \in BOOLEAN /\ Attempts \in Nat \ {0} /\ MaxEvents \in Nat
    /\ Faults \subseteq {"ca", "caddy", "coredns", "agent", "apps_busy", "crash"}

VARIABLES
    domains,    \* the domains table: name -> row
    disk,       \* the certificate and key of a name: none, ok, soon (to expire), expired
    zones,      \* InternalDnsProvider._zones
    coredns,    \* the CoreDNS process, and the zones of the Corefile it read
    txt,        \* whose challenge tokens are at _acme-challenge
    caddyfile,  \* the sites in the Caddyfile
    caddy,      \* the Caddy process and the sites it serves
    task,       \* the coroutines
    zoneQ, issueQ, caddyQ,  \* the asyncio locks: the holder, then those who wait
    ops,        \* the operations that run, in tasks of their own
    opLock,     \* operation_lock
    proc,       \* the router process; marked, the names that had a row marked
                \* mDNS while it ran, is history
    events

dnsVars   == <<zones, coredns, zoneQ>>
certVars  == <<disk, txt, issueQ>>
caddyVars == <<caddyfile, caddy, caddyQ>>
opVars    == <<ops, opLock>>
domainsVars == <<domains, dnsVars, certVars, caddyVars, task, opVars, proc, events>>

-----------------------------------------------------------------------------
Pcs == {"idle", "delete", "add_zone", "remove_zone", "restart", "reload", "caddy", "acquire", "order",
        "validate", "await", "list", "next"}

Rest == [pc |-> "idle", name |-> First, then |-> "idle", try |-> 1, todo |-> {}, renewed |-> FALSE]

Row == [tls : BOOLEAN, mdns : BOOLEAN, primary : BOOLEAN, cert : {"none", "acquiring", "active", "error"}]
Work == [pc : Pcs, name : Names, then : {"idle", "acquire"}, try : 1..Attempts, todo : SUBSET Names,
         renewed : BOOLEAN]
Operation == [kind : {"promote", "archive"}, name : Names, by : Requests, pc : {"check", "thread", "trigger"}]

DomainsTypeOK ==
    /\ domains \in [DOMAIN domains -> Row] /\ DOMAIN domains \subseteq Names
    /\ disk \in [Names -> {"none", "ok", "soon", "expired"}]
    /\ zones \subseteq Names
    /\ coredns \in [up : BOOLEAN, zones : SUBSET Names]
    /\ txt \in Tasks \cup {"none"}
    /\ caddy = [up |-> caddy.up, sites |-> caddy.sites] /\ caddy.up \in BOOLEAN
    /\ task \in [Tasks -> Work]
    /\ zoneQ \in Seq(Tasks) /\ issueQ \in Seq(Tasks) /\ caddyQ \in Seq(Tasks)
    /\ opLock \in BOOLEAN /\ ops \subseteq Operation
    /\ proc \in [phase : {"serving", "draining", "down"}, shutdown : BOOLEAN, renewing : BOOLEAN,
                 marked : SUBSET Names]
    /\ events \in 0..MaxEvents

-----------------------------------------------------------------------------
(* Helpers *)

Event == events < MaxEvents /\ events' = events + 1
Fault(f) == f \in Faults /\ Event
Ok == UNCHANGED events

Serving == proc.phase = "serving"
Runs(t) == IF t = "renewal" THEN proc.phase # "down" /\ proc.renewing ELSE Serving
Holds(q, t) == q # <<>> /\ Head(q) = t
Primary == CHOOSE n \in DOMAIN domains : domains[n].primary
Put(f, n, v) == [m \in DOMAIN f \cup {n} |-> IF m = n THEN v ELSE f[m]]
Without(f, n) == [m \in DOMAIN f \ {n} |-> f[m]]
Goto(t, pc) == task' = [task EXCEPT ![t].pc = pc]

\* set_record_status: by name, and of no effect when the row is gone.
SetCert(n, s) == IF n \in DOMAIN domains THEN [domains EXCEPT ![n].cert = s] ELSE domains

\* generate_caddyfile, with config_cert_resolver
Sites(ds, certs) ==
    [n \in DOMAIN ds |-> IF ~ds[n].tls THEN "http" ELSE IF certs[n] = "none" THEN "internal" ELSE "file"]

\* The zones of a boot, which does not ask for the mDNS mark.  _is_local_only holds
\* of no .local name (the suffix it looks for has a dot too many), so these are
\* served as well; the names under lvh.me it does hold of are left out.
Public(ds) == {n \in DOMAIN ds : ServesDns}

-----------------------------------------------------------------------------
(* Adding and removing a domain *)

AddDomain(t, n, tls, mdns) ==
    /\ Serving /\ task[t].pc = "idle" /\ Event
    /\ n \notin DOMAIN domains /\ ~(tls /\ mdns)
    /\ domains' = Put(domains, n, [tls |-> tls, mdns |-> mdns, primary |-> FALSE,
                                   cert |-> IF tls THEN "acquiring" ELSE "active"])
    /\ LET zone == ~mdns /\ ServesDns
       IN  /\ task' = [task EXCEPT ![t] = [Rest EXCEPT !.pc = IF zone THEN "add_zone" ELSE "reload",
                                                       !.name = n, !.then = IF tls THEN "acquire" ELSE "idle"]]
           /\ zoneQ' = IF zone THEN Append(zoneQ, t) ELSE zoneQ
    /\ proc' = [proc EXCEPT !.marked = IF mdns THEN @ \cup {n} ELSE @]
    /\ UNCHANGED <<zones, coredns, certVars, caddyVars, opVars>>

RemoveDomain(t, n) ==
    /\ Serving /\ task[t].pc = "idle" /\ Event
    /\ n \in DOMAIN domains
    /\ task' = [task EXCEPT ![t] = [Rest EXCEPT !.pc = "delete", !.name = n,
                                                !.todo = IF domains[n].mdns THEN {n} ELSE {}]]
    /\ UNCHANGED <<domains, dnsVars, certVars, caddyVars, opVars, proc>>

\* remove_non_primary_record.  The row was read before (todo remembers mdns):
\* a promotion's thread may have come in between.
\* Mutant: remove_record.
RemovableUnchecked(n) == n \in DOMAIN domains
Removable(n) == n \in DOMAIN domains /\ n # Primary
RemoveDelete(t) ==
    /\ Runs(t) /\ task[t].pc = "delete"
    /\ LET n == task[t].name
           zone == task[t].todo = {} /\ ServesDns
       IN  IF Removable(n)
           THEN /\ domains' = Without(domains, n)
                /\ zoneQ' = IF zone THEN Append(zoneQ, t) ELSE zoneQ
                /\ Goto(t, IF zone THEN "remove_zone" ELSE "reload")
           ELSE Goto(t, "idle") /\ UNCHANGED <<domains, zoneQ>>
    /\ UNCHANGED <<zones, coredns, certVars, caddyVars, opVars, proc, events>>

\* The Corefile and a zone file per zone, each from scratch.
WriteCorefile(served) == zones' = served

\* add_zone and remove_zone, with the zone lock: the set is read under it, the
\* Corefile is written, and CoreDNS is stopped to be started on it.
NewZones(t) == IF task[t].pc = "add_zone" THEN zones \cup {task[t].name} ELSE zones \ {task[t].name}
ApplyZones(t) ==
    /\ Runs(t) /\ task[t].pc \in {"add_zone", "remove_zone"} /\ Holds(zoneQ, t)
    /\ IF task[t].pc = "add_zone" /\ task[t].name \in zones
       THEN Goto(t, "reload") /\ zoneQ' = Tail(zoneQ) /\ UNCHANGED <<zones, coredns>>
       ELSE /\ WriteCorefile(NewZones(t))
            /\ coredns' = [coredns EXCEPT !.up = FALSE]
            /\ Goto(t, "restart") /\ UNCHANGED zoneQ
    /\ UNCHANGED <<domains, certVars, caddyVars, opVars, proc, events>>

\* _match_process_to_zones: with nothing to serve there is no process.
CoreDnsStarted(t) ==
    /\ Runs(t) /\ task[t].pc = "restart"
    /\ coredns' = [up |-> zones # {}, zones |-> zones]
    /\ zoneQ' = Tail(zoneQ) /\ Goto(t, "reload")
    /\ UNCHANGED <<domains, zones, certVars, caddyVars, opVars, proc, events>>

-----------------------------------------------------------------------------
(* reload_caddy_for_domains: the Caddyfile is written from the table and the  *)
(* disk as they are, before the wait for Caddy's lock.                        *)

\* Mutant: one who acquired a certificate changes its own site only.
NewSitesOld(t) == IF task[t].then = "idle" /\ task[t].name \in DOMAIN domains
                  THEN Put(caddyfile, task[t].name, Sites(domains, disk)[task[t].name]) ELSE Sites(domains, disk)

NewSites(t) == Sites(domains, disk)
ReloadCaddy(t) ==
    /\ Runs(t) /\ task[t].pc = "reload"
    /\ caddyfile' = NewSites(t)
    /\ caddyQ' = Append(caddyQ, t) /\ Goto(t, "caddy")
    /\ UNCHANGED <<domains, dnsVars, certVars, caddy, opVars, proc, events>>

\* "caddy run" reads the Caddyfile.
Spawned(up) == [up |-> up, sites |-> caddyfile]

\* CaddyProcess.reload.  When "caddy reload" fails, or Caddy is dead, a cold
\* restart follows, and that may fail too.
CaddyReloads(t) ==
    /\ Runs(t) /\ task[t].pc = "caddy" /\ Holds(caddyQ, t)
    /\ \/ Ok /\ caddy' = Spawned(TRUE)
       \/ Fault("caddy") /\ \E up \in BOOLEAN : caddy' = Spawned(up)
    /\ caddyQ' = Tail(caddyQ)
    /\ task' = [task EXCEPT ![t].pc = task[t].then, ![t].then = "idle"]
    /\ UNCHANGED <<domains, dnsVars, certVars, caddyfile, opVars, proc>>

-----------------------------------------------------------------------------
(* Certificates.  An acquisition publishes its tokens in every zone, under    *)
(* one name, waits for the CA, and takes them back.                           *)

\* What becomes of the one who asked: _acquire_cert or renew_cert_if_needed
Acquired(t) ==
    /\ domains' = SetCert(task[t].name, "active")
    /\ task' = [task EXCEPT ![t] =
                   IF t # "renewal" THEN [@ EXCEPT !.pc = "reload", !.try = 1]
                   ELSE [@ EXCEPT !.pc = IF task[t].then = "acquire" THEN "list" ELSE "next",
                                  !.then = "idle", !.renewed = TRUE, !.try = 1]]

\* The renewal of the primary fails the cycle, that of another is for the next.
NotAcquired(t) ==
    IF t = "renewal"
    THEN /\ task' = [task EXCEPT ![t] = IF @.then = "acquire" THEN Rest ELSE [@ EXCEPT !.pc = "next", !.try = 1]]
         /\ UNCHANGED domains
    ELSE domains' = SetCert(task[t].name, "error") /\ Goto(t, "idle")

\* ensure_cert_for
EnsureCert(t) ==
    /\ Runs(t) /\ task[t].pc = "acquire"
    /\ CASE disk[task[t].name] = "ok" -> Acquired(t) /\ UNCHANGED issueQ
         [] disk[task[t].name] # "ok" /\ ServesDns ->
              Goto(t, "order") /\ issueQ' = Append(issueQ, t) /\ UNCHANGED domains
         [] OTHER -> NotAcquired(t) /\ UNCHANGED issueQ
    /\ UNCHANGED <<dnsVars, disk, txt, caddyVars, opVars, proc, events>>

\* Mutant: acquisitions side by side.
TurnAlways(t) == \E i \in DOMAIN issueQ : issueQ[i] = t
\* _issuance_lock
Turn(t) == Holds(issueQ, t)

\* Mutant: the lock is not released by one who gives up.
GiveUpHolding(t) == NotAcquired(t) /\ UNCHANGED issueQ
\* async with: however the acquisition ends
GiveUp(t) == NotAcquired(t) /\ issueQ' = Tail(issueQ)

\* Another order, with the lock still held
TryAgain(t) ==
    /\ task[t].try < Attempts
    /\ task' = [task EXCEPT ![t].pc = "order", ![t].try = @ + 1] /\ UNCHANGED <<domains, issueQ>>

\* An attempt fails: a refusal or a timeout is tried again, another error is not.
AttemptFails(t) == Fault("ca") /\ (TryAgain(t) \/ GiveUp(t))

PublishChallenge(t) ==
    /\ Runs(t) /\ task[t].pc = "order" /\ Turn(t)
    /\ \/ Ok /\ txt' = t /\ Goto(t, "validate") /\ UNCHANGED <<domains, issueQ>>
       \/ AttemptFails(t) /\ UNCHANGED txt
    /\ UNCHANGED <<dnsVars, disk, caddyVars, opVars, proc>>

\* The CA asks CoreDNS for the tokens.
Answered(t) == coredns.up /\ task[t].name \in coredns.zones /\ txt = t

CertIssued(t) ==
    /\ Runs(t) /\ task[t].pc = "validate" /\ Answered(t)
    /\ txt' = "none"
    /\ disk' = [disk EXCEPT ![task[t].name] = "ok"]
    /\ issueQ' = Tail(issueQ)
    /\ Acquired(t)
    /\ UNCHANGED <<dnsVars, caddyVars, opVars, proc, events>>

CertRefused(t) ==
    /\ Runs(t) /\ task[t].pc = "validate"
    /\ txt' = "none"
    /\ \/ AttemptFails(t)
       \/ /\ ~Answered(t) /\ Ok
          /\ IF task[t].try < Attempts THEN TryAgain(t) ELSE GiveUp(t)
    /\ UNCHANGED <<dnsVars, disk, caddyVars, opVars, proc>>

\* renew_cert_if_needed: the stored statuses first, then the primary, ...
Synced == [n \in DOMAIN domains |-> IF domains[n].tls /\ disk[n] = "ok"
                                    THEN [domains[n] EXCEPT !.cert = "active"] ELSE domains[n]]

RenewPrimary ==
    LET p == Primary IN
    /\ Runs("renewal") /\ task["renewal"].pc = "idle"
    /\ domains' = Synced
    /\ IF domains[p].tls /\ disk[p] # "ok"
       THEN /\ task' = [task EXCEPT !["renewal"] = [Rest EXCEPT !.pc = "order", !.name = p, !.then = "acquire"]]
            /\ issueQ' = Append(issueQ, "renewal")
       ELSE task' = [task EXCEPT !["renewal"] = [Rest EXCEPT !.pc = "list", !.name = p]] /\ UNCHANGED issueQ
    /\ UNCHANGED <<dnsVars, disk, txt, caddyVars, opVars, proc, events>>

\* ... then the others of the table as it is now,
RenewList ==
    /\ Runs("renewal") /\ task["renewal"].pc = "list"
    /\ task' = [task EXCEPT !["renewal"].pc = "next",
                            !["renewal"].todo = {n \in DOMAIN domains : domains[n].tls} \ {task["renewal"].name}]
    /\ UNCHANGED <<domains, dnsVars, certVars, caddyVars, opVars, proc, events>>

\* ... and Caddy when there is something new.
RenewNext ==
    LET r == task["renewal"] IN
    /\ Runs("renewal") /\ r.pc = "next"
    /\ \/ /\ r.todo = {}
          /\ task' = [task EXCEPT !["renewal"] = IF r.renewed THEN [Rest EXCEPT !.pc = "reload"] ELSE Rest]
          /\ UNCHANGED issueQ
       \/ \E n \in r.todo :
            IF disk[n] = "ok"
            THEN task' = [task EXCEPT !["renewal"].todo = @ \ {n}] /\ UNCHANGED issueQ
            ELSE /\ task' = [task EXCEPT !["renewal"] = [r EXCEPT !.todo = @ \ {n}, !.name = n, !.pc = "order"]]
                 /\ issueQ' = Append(issueQ, "renewal")
    /\ UNCHANGED <<domains, dnsVars, disk, txt, caddyVars, opVars, proc, events>>

-----------------------------------------------------------------------------
(* Exclusive operations: the change of the primary domain, and the            *)
(* configuration of the archive                                               *)

\* start_exclusive_operation: refused at once when one is active.
StartOperation(t, kind, n) ==
    /\ Serving /\ task[t].pc = "idle" /\ ~proc.shutdown /\ Event
    /\ ~opLock /\ opLock' = TRUE
    /\ ops' = ops \cup {[kind |-> kind, name |-> n, by |-> t, pc |-> "check"]}
    /\ task' = [task EXCEPT ![t] = [Rest EXCEPT !.pc = "await", !.name = n]]
    /\ UNCHANGED <<domains, dnsVars, certVars, caddyVars, proc>>

MakePrimary(t, n) ==
    /\ n \in DOMAIN domains /\ ~domains[n].primary
    /\ domains[n].tls => disk[n] \in {"ok", "soon"}
    /\ StartOperation(t, "promote", n)

ConfigureArchive(t) == StartOperation(t, "archive", First)

\* The requester may be gone by the time the operation ends.
EndOperation(o) ==
    /\ ops' = ops \ {o} /\ opLock' = FALSE
    /\ task' = IF task[o.by].pc = "await" THEN [task EXCEPT ![o.by] = Rest] ELSE task

OperationChecks(o) ==
    /\ o.pc = "check" /\ proc.phase # "down"
    /\ IF proc.shutdown THEN EndOperation(o)
       ELSE ops' = (ops \ {o}) \cup {[o EXCEPT !.pc = "thread"]} /\ UNCHANGED <<opLock, task>>
    /\ UNCHANGED <<domains, dnsVars, certVars, caddyVars, proc, events>>

\* set_primary_domain, in one transaction, when the row is still there and no
\* app is busy
Promotable(n) == n \in DOMAIN domains /\ n # Primary
OperationWorks(o) ==
    /\ o.pc = "thread" /\ proc.phase # "down"
    /\ \/ /\ o.kind = "promote" /\ Promotable(o.name) /\ Ok
          /\ domains' = [n \in DOMAIN domains |-> [domains[n] EXCEPT !.primary = (n = o.name)]]
          /\ ops' = (ops \ {o}) \cup {[o EXCEPT !.pc = "trigger"]} /\ UNCHANGED <<opLock, task>>
       \/ /\ \/ o.kind = "archive" /\ Ok
             \/ o.kind = "promote" /\ ~Promotable(o.name) /\ Ok
             \/ o.kind = "promote" /\ (Fault("agent") \/ Fault("apps_busy"))
          /\ EndOperation(o) /\ UNCHANGED domains
    /\ UNCHANGED <<dnsVars, certVars, caddyVars, proc>>

OperationTriggers(o) ==
    /\ o.pc = "trigger" /\ proc.phase # "down"
    /\ proc' = [proc EXCEPT !.shutdown = TRUE]
    /\ EndOperation(o)
    /\ UNCHANGED <<domains, dnsVars, certVars, caddyVars, events>>

\* The request is cancelled, the operation is not: it is its task's own.
Cancel(t) ==
    /\ task[t].pc = "await" /\ Event
    /\ Goto(t, "idle")
    /\ UNCHANGED <<domains, dnsVars, certVars, caddyVars, opVars, proc>>

-----------------------------------------------------------------------------
(* The process *)

RequestRestart ==
    /\ Serving /\ ~proc.shutdown /\ Event
    /\ proc' = [proc EXCEPT !.shutdown = TRUE]
    /\ UNCHANGED <<domains, dnsVars, certVars, caddyVars, task, opVars>>

\* A cancelled coroutine leaves the lock it holds or waits for.
RenewalOf(q) == IF \E i \in DOMAIN q : q[i] = "renewal" THEN <<"renewal">> ELSE <<>>

\* Hypercorn gives requests some seconds, then cancels them.
ServeEnds ==
    /\ Serving /\ proc.shutdown
    /\ proc' = [proc EXCEPT !.phase = "draining"]
    /\ task' = [t \in Tasks |-> IF t \in Requests THEN Rest ELSE task[t]]
    /\ zoneQ' = RenewalOf(zoneQ) /\ caddyQ' = RenewalOf(caddyQ) /\ issueQ' = RenewalOf(issueQ)
    /\ txt' = IF txt \in Requests THEN "none" ELSE txt
    /\ UNCHANGED <<domains, zones, coredns, disk, caddyfile, caddy, opVars, events>>

\* Everything but the database and the files is gone.
Stopped ==
    /\ proc' = [proc EXCEPT !.phase = "down", !.shutdown = FALSE, !.renewing = FALSE]
    /\ task' = [t \in Tasks |-> Rest]
    /\ zones' = {} /\ coredns' = [up |-> FALSE, zones |-> {}] /\ txt' = "none"
    /\ caddy' = [up |-> FALSE, sites |-> <<>>]
    /\ zoneQ' = <<>> /\ issueQ' = <<>> /\ caddyQ' = <<>>
    /\ ops' = {} /\ opLock' = FALSE
    /\ UNCHANGED <<domains, disk, caddyfile>>

\* _shutdown: wait_for_operations first
Exit == proc.phase = "draining" /\ ops = {} /\ Stopped /\ Ok
Crash == proc.phase # "down" /\ Fault("crash") /\ Stopped

\* _main, up to serving.  A certificate of the primary that no browser takes must
\* be replaced first; otherwise the boot fails, and systemd tries again.
Boot ==
    /\ proc.phase = "down"
    /\ LET p == Primary
       IN  \E d \in {disk, [disk EXCEPT ![p] = IF domains[p].tls /\ ServesDns THEN "ok" ELSE @]} :
             /\ domains[p].tls => d[p] \in {"ok", "soon"}
             /\ disk' = d
             /\ caddyfile' = Sites(domains, d)
             /\ caddy' = [up |-> TRUE, sites |-> Sites(domains, d)]
    /\ zones' = Public(domains)
    /\ coredns' = [up |-> Public(domains) # {}, zones |-> Public(domains)]
    /\ proc' = [phase |-> "serving", shutdown |-> FALSE,
                renewing |-> ServesDns /\ \E n \in DOMAIN domains : domains[n].tls,
                marked |-> {n \in DOMAIN domains : domains[n].mdns}]
    /\ UNCHANGED <<domains, txt, task, zoneQ, issueQ, caddyQ, opVars, events>>

\* A child dies: it is logged, and the next change starts another.
CaddyDies ==
    /\ Serving /\ caddy.up /\ Fault("caddy") /\ caddy' = [caddy EXCEPT !.up = FALSE]
    /\ UNCHANGED <<domains, dnsVars, certVars, caddyfile, caddyQ, task, opVars, proc>>

CoreDnsDies ==
    /\ Serving /\ coredns.up /\ Fault("coredns") /\ coredns' = [coredns EXCEPT !.up = FALSE]
    /\ UNCHANGED <<domains, zones, zoneQ, certVars, caddyVars, task, opVars, proc>>

\* get_cert_status
Ages(n) ==
    /\ disk[n] \in {"ok", "soon"} /\ Event
    /\ disk' = [disk EXCEPT ![n] = IF @ = "ok" THEN "soon" ELSE "expired"]
    /\ UNCHANGED <<domains, dnsVars, txt, issueQ, caddyVars, task, opVars, proc>>

-----------------------------------------------------------------------------
\* seed_domains: the table of a fresh instance
DomainsInit ==
    /\ \E g \in Given :
         /\ g.name = First
         /\ domains = [n \in {First} |-> [tls |-> g.tls, mdns |-> g.mdns, primary |-> TRUE, cert |-> "none"]]
    /\ disk = [n \in Names |-> "none"]
    /\ zones = {} /\ coredns = [up |-> FALSE, zones |-> {}] /\ txt = "none"
    /\ caddyfile = <<>> /\ caddy = [up |-> FALSE, sites |-> <<>>]
    /\ task = [t \in Tasks |-> Rest]
    /\ zoneQ = <<>> /\ issueQ = <<>> /\ caddyQ = <<>>
    /\ ops = {} /\ opLock = FALSE
    /\ proc = [phase |-> "down", shutdown |-> FALSE, renewing |-> FALSE,
               marked |-> {n \in DOMAIN domains : domains[n].mdns}]
    /\ events = 0

TaskStep(t) ==
    \/ RemoveDelete(t) \/ ApplyZones(t) \/ CoreDnsStarted(t) \/ ReloadCaddy(t) \/ CaddyReloads(t)
    \/ EnsureCert(t) \/ PublishChallenge(t) \/ CertIssued(t) \/ CertRefused(t)

OperationStep == \E o \in ops : OperationChecks(o) \/ OperationWorks(o) \/ OperationTriggers(o)
ProcessStep == ServeEnds \/ Exit \/ Boot

DomainsNext ==
    \/ \E t \in Requests, g \in Given : AddDomain(t, g.name, g.tls, g.mdns)
    \/ \E t \in Requests, n \in Names : RemoveDomain(t, n) \/ MakePrimary(t, n)
    \/ \E t \in Requests : ConfigureArchive(t) \/ Cancel(t)
    \/ \E t \in Tasks : TaskStep(t)
    \/ RenewPrimary \/ RenewList \/ RenewNext
    \/ OperationStep
    \/ RequestRestart \/ ProcessStep \/ Crash
    \/ CaddyDies \/ CoreDnsDies \/ \E n \in Names : Ages(n)

DomainsSpec ==
    /\ DomainsInit /\ [][DomainsNext]_domainsVars
    /\ \A t \in Tasks : WF_domainsVars(TaskStep(t))
    /\ WF_domainsVars(OperationStep) /\ WF_domainsVars(ProcessStep)
    /\ WF_domainsVars(RenewPrimary \/ RenewList \/ RenewNext)

-----------------------------------------------------------------------------
(* Properties *)

\* There is one primary domain, whatever promotion, removal and restart do at the
\* same time ("closing the promotion/removal race", domains.py).
OnePrimary == \E p \in DOMAIN domains : \A n \in DOMAIN domains : domains[n].primary <=> n = p

\* While the CA is asked to look, the tokens are those of the order it looks for:
\* "a second one starting mid-flight would overwrite the first one's tokens and
\* then clear them" (provision.py).
ChallengeIntact == \A t \in Tasks : task[t].pc = "validate" => txt = t

\* When nothing is under way, CoreDNS (unless it died) serves a zone for every
\* domain of the table but those marked mDNS, and for no other name but one that
\* was marked while the router ran (a boot serves these too, and nothing takes
\* them out); Caddy (unless it died) serves the sites of the table, each with the
\* certificate of the disk or the internal CA: no change made meanwhile was
\* dropped (domains.py, interface.py: "the second to land drops whatever the
\* first added").
Quiet == Serving /\ \A t \in Tasks : task[t].pc = "idle"
FrontEndCurrent ==
    Quiet => /\ {n \in Public(domains) : ~domains[n].mdns} \subseteq zones
             /\ zones \subseteq Public(domains) \cup proc.marked
             /\ coredns.up => coredns.zones = zones
             /\ caddy.up => caddy.sites = Sites(domains, disk)

\* Every request comes to an end, its acquisition too, whoever else waits for or
\* has failed under the three locks ("queueing them costs nothing", provision.py).
RequestsEnd == \A t \in Requests : task[t].pc # "idle" ~> task[t].pc = "idle"
=============================================================================
