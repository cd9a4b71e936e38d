---------------------------- MODULE AccessProofs ----------------------------
(* Theorems about Boot and Access, for any number of starters, releases,   *)
(* posts, names, default apps, sessions and tokens, and for every choice of *)
(* what may go wrong and how often.                                        *)
EXTENDS Access, TLAPS

-----------------------------------------------------------------------------
(* The schema.  SchemaFits needs to know that the lock is exclusive, that   *)
(* whoever holds it read the version that is still there, and that a        *)
(* starter which is through left the schema at the release on the disk.     *)

Starting == {"idle", "waiting", "locked", "failed", "done"}

SchemaTyped ==
  /\ db \in [tables : BOOLEAN, version : Nat, from : Nat, ran : Seq(Nat)]
  /\ mig \in [Starters -> [at : Starting, current : Nat]]
  /\ code \in Nat
  /\ router = [at |-> router.at, pass |-> router.pass, todo |-> router.todo]

OneLockHolder == \A p, q \in Starters : HoldsLock(p) /\ HoldsLock(q) => p = q

ReadStillTrue ==
  \A p \in Starters : /\ HoldsLock(p) => mig[p].current = db.version /\ db.version <= code
                      /\ mig[p].at = "done" => db.version = code

SchemaInv == SchemaTyped /\ OneLockHolder /\ ReadStillTrue /\ SchemaFits

LEMMA NewestIsANumber == Newest \in Nat
<1>1. PICK r \in Releases : \A s \in Releases : s <= r
  BY BootAssumption
<1>2. Newest \in Releases
  BY <1>1 DEF Newest
<1> QED  BY <1>2, BootAssumption

LEMMA SchemaInit == Init => SchemaInv
<1> SUFFICES ASSUME Init PROVE SchemaInv
  OBVIOUS
<1>1. PICK tables \in BOOLEAN, v \in Nat : db = [tables |-> tables, version |-> v, from |-> v, ran |-> <<>>]
  <2>1. db \in Schemas
    BY DEF Init, BootInit
  <2>2. CASE db = [tables |-> FALSE, version |-> 0, from |-> 0, ran |-> <<>>]
    BY <2>2
  <2>3. CASE db = [tables |-> TRUE, version |-> 0, from |-> 0, ran |-> <<>>]
    BY <2>3
  <2>4. CASE \E v \in 1..Newest : db = [tables |-> TRUE, version |-> v, from |-> v, ran |-> <<>>]
    <3>1. 1..Newest \subseteq Nat
      BY NewestIsANumber
    <3> QED  BY <2>4, <3>1
  <2> QED  BY <2>1, <2>2, <2>3, <2>4 DEF Schemas
<1>2. mig = [p \in Starters |-> Idle] /\ code \in Releases /\ router = Down
  BY DEF Init, BootInit
<1>3. SchemaTyped
  BY <1>1, <1>2, BootAssumption DEF SchemaTyped, Idle, Starting, Down
<1>4. OneLockHolder /\ ReadStillTrue
  BY <1>2 DEF OneLockHolder, ReadStillTrue, HoldsLock, Idle
<1>5. SchemaFits
  <2>1. db.ran = <<>> /\ Len(db.ran) = 0 /\ db.version = db.from /\ db.version \in Nat
    BY <1>1
  <2>2. [i \in 1..0 |-> db.from + i] = <<>>
    OBVIOUS
  <2> QED  BY <1>2, <2>1, <2>2 DEF SchemaFits, Down
<1> QED  BY <1>3, <1>4, <1>5 DEF SchemaInv

\* Nothing but a boot step touches the schema, and no other brings a router to serve.
SchemaKept ==
  /\ UNCHANGED schemaVars
  /\ router' = [at |-> router'.at, pass |-> router'.pass, todo |-> router'.todo]
  /\ router.at \in {"down", "migrating"} => router'.at \in {"down", "migrating"}

LEMMA KeptFits ==
    ASSUME SchemaInv, SchemaKept PROVE SchemaInv'
  BY DEF SchemaInv, SchemaKept, SchemaTyped, OneLockHolder, ReadStillTrue, SchemaFits,
         HoldsLock, schemaVars

\* The history of migrations grows by the version that follows.
LEMMA RunAppended ==
    ASSUME NEW from \in Nat, NEW ran \in Seq(Nat), NEW new \in Seq(Nat),
           ran = [i \in 1..Len(ran) |-> from + i], new = Append(ran, from + Len(ran) + 1)
    PROVE  /\ new = [i \in 1..Len(new) |-> from + i]
           /\ from + Len(new) = from + Len(ran) + 1
<1>1. Len(new) = Len(ran) + 1 /\ DOMAIN new = 1..Len(new)
  OBVIOUS
<1>2. \A i \in 1..Len(new) : new[i] = from + i
  <2> TAKE i \in 1..Len(new)
  <2>1. CASE i = Len(new)
    BY <2>1, <1>1
  <2>2. CASE i \in 1..Len(ran)
    BY <2>2, <1>1
  <2> QED  BY <2>1, <2>2, <1>1
<1>3. new = [i \in 1..Len(new) |-> new[i]]
  BY <1>1
<1>4. new = [i \in 1..Len(new) |-> from + i]
  BY <1>2, <1>3
<1> QED  BY <1>1, <1>4

\* A starter that gives the lock back, or never had it, disturbs nobody.
LEMMA LetsGoFits ==
    ASSUME SchemaInv, NEW p \in Starters, NEW m \in [at : Starting, current : Nat],
           m.at # "locked", m.at = "done" => db.version = code,
           mig' = [mig EXCEPT ![p] = m], UNCHANGED <<db, code, router>>
    PROVE  SchemaInv'
  BY DEF SchemaInv, SchemaTyped, OneLockHolder, ReadStillTrue, SchemaFits, HoldsLock

LEMMA MigratingFits ==
    ASSUME SchemaInv, Migrating PROVE SchemaInv'
<1>1. SchemaTyped /\ OneLockHolder /\ ReadStillTrue /\ SchemaFits
  BY DEF SchemaInv
<1>2. ASSUME NEW p \in Starters, OpenLockFile(p) PROVE SchemaInv'
  BY <1>1, <1>2 DEF SchemaInv, OpenLockFile, SchemaTyped, OneLockHolder, ReadStillTrue, SchemaFits, HoldsLock, Starting
<1>3. ASSUME NEW p \in Starters, TakeLock(p) PROVE SchemaInv'
  <2>1. UNCHANGED <<code, router>> /\ mig[p].at = "waiting" /\ LockFree
    BY <1>3 DEF TakeLock
  <2>2. CASE /\ Refused(p, db.version)
             /\ mig' = [mig EXCEPT ![p].at = "failed"] /\ UNCHANGED db
    BY <1>1, <2>1, <2>2 DEF SchemaInv, SchemaTyped, OneLockHolder, ReadStillTrue, SchemaFits, HoldsLock, Starting
  <2>3. CASE /\ db' = [tables |-> TRUE, version |-> code, from |-> code, ran |-> <<>>]
             /\ mig' = [mig EXCEPT ![p].at = "done"]
    <3>1. SchemaTyped'
      <4>1. <<>> \in Seq(Nat)
        OBVIOUS
      <4> QED  BY <1>1, <2>1, <2>3, <4>1 DEF SchemaTyped, Starting
    <3>2. OneLockHolder' /\ ReadStillTrue'
      BY <1>1, <2>1, <2>3 DEF OneLockHolder, ReadStillTrue, HoldsLock, LockFree, SchemaTyped
    <3>3. SchemaFits'
      <4>1. [i \in 1..0 |-> code + i] = <<>> /\ Len(<<>>) = 0
        OBVIOUS
      <4> QED  BY <1>1, <2>1, <2>3, <4>1 DEF SchemaFits, SchemaTyped
    <3> QED  BY <3>1, <3>2, <3>3 DEF SchemaInv
  <2>4. CASE /\ ~Refused(p, db.version)
             /\ mig' = [mig EXCEPT ![p] = [at |-> "locked", current |-> db.version]] /\ UNCHANGED db
    BY <1>1, <2>1, <2>4 DEF SchemaInv, SchemaTyped, OneLockHolder, ReadStillTrue, SchemaFits, HoldsLock, LockFree,
                            Refused, Starting
  <2> QED  BY <1>3, <2>2, <2>3, <2>4 DEF TakeLock
<1>4. ASSUME NEW p \in Starters, ApplyMigration(p) PROVE SchemaInv'
  <2> DEFINE v == mig[p].current + 1
  <2>1. /\ HoldsLock(p) /\ mig[p].current < code /\ UNCHANGED <<code, router>>
        /\ db' = [db EXCEPT !.version = v, !.ran = Append(db.ran, v)]
        /\ mig' = [mig EXCEPT ![p].current = v]
    BY <1>4 DEF ApplyMigration
  <2>2. mig[p].current = db.version /\ db.version \in Nat /\ v \in Nat /\ v = db.version + 1 /\ v <= code
    BY <1>1, <2>1 DEF ReadStillTrue, SchemaTyped
  <2> HIDE DEF v
  <2>3. SchemaTyped'
    <3>1. Append(db.ran, v) \in Seq(Nat)
      BY <1>1, <2>2 DEF SchemaTyped
    <3> QED  BY <1>1, <2>1, <2>2, <3>1 DEF SchemaTyped, Starting
  <2>4. OneLockHolder' /\ ReadStillTrue'
    BY <1>1, <2>1, <2>2 DEF OneLockHolder, ReadStillTrue, HoldsLock, SchemaTyped
  <2>5. SchemaFits'
    <3>1. db.version # code
      BY <2>1, <2>2, <1>1 DEF SchemaTyped
    <3>2. /\ db'.ran = Append(db.ran, db.from + Len(db.ran) + 1) /\ db'.from = db.from
          /\ db'.version = db.from + Len(db.ran) + 1
      BY <1>1, <2>1, <2>2 DEF SchemaTyped, SchemaFits
    <3>3. /\ db'.ran = [i \in 1..Len(db'.ran) |-> db'.from + i]
          /\ db'.version = db'.from + Len(db'.ran)
      <4>1. db.from \in Nat /\ db.ran \in Seq(Nat) /\ db'.ran \in Seq(Nat)
        BY <1>1, <2>3 DEF SchemaTyped
      <4>2. db.ran = [i \in 1..Len(db.ran) |-> db.from + i]
        BY <1>1 DEF SchemaFits
      <4>3. /\ db'.ran = [i \in 1..Len(db'.ran) |-> db.from + i]
            /\ db.from + Len(db'.ran) = db.from + Len(db.ran) + 1
        BY <3>2, <4>1, <4>2, RunAppended
      <4> QED  BY <3>2, <4>3
    <3> QED  BY <1>1, <2>1, <3>1, <3>3 DEF SchemaFits
  <2> QED  BY <2>3, <2>4, <2>5 DEF SchemaInv
<1>5. ASSUME NEW p \in Starters, MigrationFails(p) PROVE SchemaInv'
  <2> DEFINE m == [mig[p] EXCEPT !.at = "failed"]
  <2>1. m \in [at : Starting, current : Nat] /\ m.at = "failed"
    BY <1>1 DEF SchemaTyped, Starting
  <2>2. mig' = [mig EXCEPT ![p] = m] /\ UNCHANGED <<db, code, router>>
    BY <1>5 DEF MigrationFails
  <2> HIDE DEF m
  <2> QED  BY <2>1, <2>2, LetsGoFits
<1>6. ASSUME NEW p \in Starters, ReleaseLock(p) PROVE SchemaInv'
  <2> DEFINE m == [mig[p] EXCEPT !.at = "done"]
  <2>1. m \in [at : Starting, current : Nat] /\ m.at = "done"
    BY <1>1 DEF SchemaTyped, Starting
  <2>2. mig' = [mig EXCEPT ![p] = m] /\ UNCHANGED <<db, code, router>> /\ db.version = code
    BY <1>1, <1>6 DEF ReleaseLock, ReadStillTrue, SchemaTyped
  <2> HIDE DEF m
  <2> QED  BY <2>1, <2>2, LetsGoFits
<1>7. ASSUME NEW p \in Starters, StarterExits(p) PROVE SchemaInv'
  <2>1. Idle \in [at : Starting, current : Nat] /\ Idle.at = "idle"
    BY DEF Idle, Starting
  <2>2. mig' = [mig EXCEPT ![p] = Idle] /\ UNCHANGED <<db, code, router>>
    BY <1>7 DEF StarterExits
  <2> QED  BY <2>1, <2>2, LetsGoFits
<1>8. ASSUME NEW r \in Releases, SwitchRelease(r) PROVE SchemaInv'
  BY <1>1, <1>8, BootAssumption DEF SwitchRelease, SchemaInv, SchemaTyped, OneLockHolder, ReadStillTrue, SchemaFits, HoldsLock
<1> QED  BY <1>2, <1>3, <1>4, <1>5, <1>6, <1>7, <1>8 DEF Migrating

\* The router's own steps: only a done migration lets it go on.
LEMMA RouterFits ==
    ASSUME SchemaInv, PowerOn \/ Migrated \/ MigrationRefused \/ Dead PROVE SchemaInv'
<1>1. SchemaTyped /\ OneLockHolder /\ ReadStillTrue /\ SchemaFits
  BY DEF SchemaInv
<1>2. "router" \in Starters
  BY BootAssumption
<1> USE DEF SchemaInv, SchemaTyped, OneLockHolder, ReadStillTrue, SchemaFits, HoldsLock, Starting, Idle, Down
<1>3. CASE PowerOn
  BY <1>1, <1>3 DEF PowerOn, schemaVars
<1>4. CASE Migrated
  BY <1>1, <1>2, <1>4 DEF Migrated, ToSeeding
<1>5. CASE MigrationRefused
  BY <1>1, <1>2, <1>5 DEF MigrationRefused
<1>6. CASE Dead
  BY <1>1, <1>2, <1>6 DEF Dead
<1> QED  BY <1>3, <1>4, <1>5, <1>6

-----------------------------------------------------------------------------
(* What first_boot.toml seeds.  That a seed never overwrites the owner needs *)
(* the order of the seeds: the owner can connect Imbue only once the url is  *)
(* there, and the url is seeded after the whole credential, so that a later  *)
(* boot, which seeds a credential all over when a part is missing, finds     *)
(* none of the owner's parts.                                                *)

Written == {"none", "seed", "own"}

\* Whoever gets to the url passes the parts of the credential first.
PartsBeforeUrl(q) ==
  \A i \in DOMAIN q : q[i] = "url" =>
    \A k \in Range(Parts) : store[k] # "none" \/ \E j \in DOMAIN q : j < i /\ q[j] = k

SeedTyped ==
  /\ store \in [Keys -> Written]
  /\ router = [at |-> router.at, pass |-> router.pass, todo |-> router.todo]
  /\ connecting \in Seq(Range(Parts))
  /\ store["claim"] # "own"

OwnersPartsComplete ==
  /\ store["url"] # "none" => StoredIdentity
  /\ (\E k \in Range(Parts) : store[k] = "own") => StoredIdentity
  /\ connecting # <<>> => router.at = "serving" /\ StoredIdentity

SeedsHarmless ==
  router.at = "seeding" =>
    /\ router.todo \in Seq(Keys)
    /\ \A k \in Range(router.todo) : store[k] # "own"
    /\ PartsBeforeUrl(router.todo)

SeedInv == SeedTyped /\ OwnersPartsComplete /\ SeedsHarmless

LEMMA TheParts ==
  /\ Range(Parts) = {"issuer", "client", "secret"}
  /\ Keys = {"domain", "url", "claim", "issuer", "client", "secret"}
  /\ Parts \in Seq(Keys) /\ Parts \in Seq(Range(Parts)) /\ Parts # <<>>
<1>1. Range(Parts) = {"issuer", "client", "secret"}
  BY DEF Range, Parts
<1>2. Keys = {"domain", "url", "claim", "issuer", "client", "secret"}
  BY <1>1 DEF Keys
<1> QED  BY <1>1, <1>2 DEF Parts

\* The range of a list and of its parts.
LEMMA RangeOfConcat ==
    ASSUME NEW S, NEW q \in Seq(S), NEW r \in Seq(S)
    PROVE  Range(q \o r) = Range(q) \cup Range(r)
<1>1. /\ DOMAIN q = 1..Len(q) /\ DOMAIN r = 1..Len(r) /\ Len(q) \in Nat /\ Len(r) \in Nat
      /\ DOMAIN (q \o r) = 1..(Len(q) + Len(r))
  OBVIOUS
<1>2. \A i \in 1..Len(q) : (q \o r)[i] = q[i]
  OBVIOUS
<1>3. \A i \in 1..Len(r) : (q \o r)[Len(q) + i] = r[i]
  OBVIOUS
<1>4. ASSUME NEW i \in DOMAIN (q \o r) PROVE (q \o r)[i] \in Range(q) \cup Range(r)
  <2>1. CASE i <= Len(q)
    BY <2>1, <1>1, <1>2 DEF Range
  <2>2. CASE i > Len(q)
    <3>1. i - Len(q) \in 1..Len(r) /\ i = Len(q) + (i - Len(q))
      BY <2>2, <1>1
    <3> QED  BY <3>1, <1>1, <1>3 DEF Range
  <2> QED  BY <2>1, <2>2, <1>1
<1>5. ASSUME NEW i \in DOMAIN q PROVE q[i] \in Range(q \o r)
  BY <1>1, <1>2 DEF Range
<1>6. ASSUME NEW i \in DOMAIN r PROVE r[i] \in Range(q \o r)
  BY <1>1, <1>3 DEF Range
<1> QED  BY <1>4, <1>5, <1>6 DEF Range

LEMMA RangeOfTail ==
    ASSUME NEW S, NEW q \in Seq(S), q # <<>>
    PROVE  /\ Head(q) \in Range(q) /\ Head(q) \in S /\ Tail(q) \in Seq(S)
           /\ \A x \in Range(q) : x = Head(q) \/ x \in Range(Tail(q))
           /\ Range(Tail(q)) \subseteq Range(q)
<1>1. /\ DOMAIN q = 1..Len(q) /\ Len(q) \in Nat \ {0} /\ Head(q) = q[1] /\ Tail(q) \in Seq(S)
      /\ DOMAIN Tail(q) = 1..(Len(q) - 1)
      /\ \A i \in 1..(Len(q) - 1) : Tail(q)[i] = q[i + 1]
  OBVIOUS
<1>2. ASSUME NEW i \in DOMAIN q, i # 1 PROVE q[i] \in Range(Tail(q))
  <2>1. i - 1 \in 1..(Len(q) - 1) /\ (i - 1) + 1 = i
    BY <1>1, <1>2
  <2> QED  BY <2>1, <1>1 DEF Range
<1>3. Range(Tail(q)) \subseteq Range(q)
  BY <1>1 DEF Range
<1> QED  BY <1>1, <1>2, <1>3 DEF Range

\* What seed_first_boot decides to write when it starts.
LEMMA SeedListHarmless ==
    ASSUME SeedTyped, OwnersPartsComplete
    PROVE  /\ SeedList \in Seq(Keys)
           /\ \A k \in Range(SeedList) : store[k] # "own"
           /\ PartsBeforeUrl(SeedList)
           /\ ClaimWanted => "claim" \in Range(SeedList)
<1> DEFINE domain == IF Wanted("domain") THEN <<"domain">> ELSE <<>>
           parts  == IF source = "toml" /\ ~StoredIdentity THEN Parts ELSE <<>>
           url    == IF Wanted("url") THEN <<"url">> ELSE <<>>
           claim  == IF ClaimWanted THEN <<"claim">> ELSE <<>>
<1>1. /\ domain \in Seq(Keys) /\ parts \in Seq(Keys) /\ url \in Seq(Keys) /\ claim \in Seq(Keys)
      /\ (domain \o parts) \in Seq(Keys) /\ ((domain \o parts) \o url) \in Seq(Keys)
      /\ (((domain \o parts) \o url) \o claim) \in Seq(Keys)
  <2>1. \A k \in Keys : <<k>> \in Seq(Keys)
    OBVIOUS
  <2>2. <<>> \in Seq(Keys)
    OBVIOUS
  <2>3. domain \in Seq(Keys) /\ url \in Seq(Keys) /\ claim \in Seq(Keys) /\ parts \in Seq(Keys)
    BY <2>1, <2>2, TheParts
  <2> HIDE DEF domain, parts, url, claim
  <2> QED  BY <2>3
<1>2. SeedList = ((domain \o parts) \o url) \o claim
  BY DEF SeedList
<1>3. /\ \A k \in Range(domain) : k = "domain" /\ Wanted(k)
      /\ \A k \in Range(url) : k = "url" /\ Wanted(k)
      /\ \A k \in Range(claim) : k = "claim"
      /\ ClaimWanted => "claim" \in Range(claim)
      /\ Range(parts) = IF source = "toml" /\ ~StoredIdentity THEN Range(Parts) ELSE {}
  BY DEF Range
<1>4. Range(SeedList) = Range(domain) \cup Range(parts) \cup Range(url) \cup Range(claim)
  <2> HIDE DEF domain, parts, url, claim
  <2> DEFINE two   == domain \o parts
             three == two \o url
  <2>0. two \in Seq(Keys) /\ three \in Seq(Keys) /\ SeedList = three \o claim
    BY <1>1, <1>2
  <2>1. Range(two) = Range(domain) \cup Range(parts)
    BY <1>1, RangeOfConcat
  <2> HIDE DEF two
  <2>2. Range(three) = Range(two) \cup Range(url)
    BY <1>1, <2>0, RangeOfConcat
  <2> HIDE DEF three
  <2>3. Range(SeedList) = Range(three) \cup Range(claim)
    BY <1>1, <2>0, RangeOfConcat
  <2> QED  BY <2>1, <2>2, <2>3
<1>5. \A k \in Range(SeedList) : store[k] # "own"
  BY <1>3, <1>4 DEF SeedTyped, OwnersPartsComplete, Wanted
<1>6. PartsBeforeUrl(SeedList)
  <2> SUFFICES ASSUME NEW i \in DOMAIN SeedList, SeedList[i] = "url", ~StoredIdentity,
                      NEW k \in Range(Parts)
               PROVE  \E j \in DOMAIN SeedList : j < i /\ SeedList[j] = k
    BY DEF PartsBeforeUrl, StoredIdentity
  <2>1. "url" \in Range(url) /\ source = "toml"
    <3>1. "url" \in Range(SeedList)
      BY DEF Range
    <3>2. "url" \notin Range(domain) /\ "url" \notin Range(parts) /\ "url" \notin Range(claim)
      BY <1>3, TheParts
    <3>3. "url" \in Range(url)
      BY <1>4, <3>1, <3>2
    <3> QED  BY <3>3, <1>3 DEF Wanted
  <2>2. parts = Parts
    BY <2>1
  <2> HIDE DEF domain, parts, url, claim
  <2> DEFINE front == domain \o parts
             back  == url \o claim
  <2>3. /\ front \in Seq(Keys) /\ back \in Seq(Keys) /\ SeedList = front \o back
        /\ Range(front) = Range(domain) \cup Range(parts)
    BY <1>1, <1>2, RangeOfConcat
  <2>4. PICK j \in DOMAIN front : front[j] = k
    BY <2>2, <2>3 DEF Range
  <2>5. "url" \notin Range(front)
    BY <2>3, <1>3, TheParts
  <2> HIDE DEF front, back
  <2>6. /\ DOMAIN front = 1..Len(front) /\ Len(front) \in Nat /\ Len(back) \in Nat
        /\ DOMAIN SeedList = 1..(Len(front) + Len(back))
        /\ \A n \in 1..Len(front) : SeedList[n] = front[n]
    BY <2>3
  <2>7. i > Len(front)
    BY <2>5, <2>6 DEF Range
  <2> QED  BY <2>4, <2>6, <2>7
<1> QED
  <2> HIDE DEF domain, parts, url, claim
  <2> QED  BY <1>1, <1>2, <1>3, <1>4, <1>5, <1>6

\* After one of them is written, the rest still is.
LEMMA SeedOneHarmless ==
    ASSUME SeedTyped, OwnersPartsComplete, SeedsHarmless, SeedOne
    PROVE  SeedTyped' /\ OwnersPartsComplete' /\ SeedsHarmless'
<1> DEFINE k == Head(router.todo)
<1>1. /\ router.at = "seeding" /\ router.todo # <<>> /\ router.todo \in Seq(Keys)
      /\ \A x \in Range(router.todo) : store[x] # "own"
      /\ PartsBeforeUrl(router.todo)
  BY DEF SeedOne, SeedsHarmless
<1>2. /\ k \in Keys /\ k \in Range(router.todo) /\ Tail(router.todo) \in Seq(Keys)
      /\ Range(Tail(router.todo)) \subseteq Range(router.todo)
  BY <1>1, RangeOfTail
<1>3. /\ store' = [store EXCEPT ![k] = "seed"] /\ connecting' = connecting
      /\ router' = [at |-> "seeding", pass |-> router.pass, todo |-> Tail(router.todo)]
  BY <1>1 DEF SeedOne, SeedTyped
<1> HIDE DEF k
<1>4. SeedTyped'
  BY <1>2, <1>3 DEF SeedTyped, Written
<1>5. /\ StoredIdentity => StoredIdentity'
      /\ \A x \in Keys : store'[x] = "own" => store[x] = "own"
      /\ \A x \in Keys : store[x] # "none" => store'[x] # "none"
  BY <1>2, <1>3, TheParts DEF SeedTyped, StoredIdentity
<1>6. OwnersPartsComplete'
  <2>1. CASE k = "url"
    <3>1. DOMAIN router.todo = 1..Len(router.todo) /\ 1 \in DOMAIN router.todo /\ router.todo[1] = k
      BY <1>1 DEF k
    <3>2. StoredIdentity
      BY <1>1, <2>1, <3>1 DEF PartsBeforeUrl, StoredIdentity
    <3> QED  BY <1>1, <1>3, <1>5, <3>2 DEF OwnersPartsComplete
  <2>2. CASE k # "url"
    <3>1. store'["url"] = store["url"]
      BY <1>3, <2>2, TheParts DEF SeedTyped
    <3> QED  BY <1>1, <1>3, <1>5, <3>1, TheParts DEF OwnersPartsComplete
  <2> QED  BY <2>1, <2>2
<1>7. PartsBeforeUrl(router.todo)'
  <2> SUFFICES ASSUME NEW i \in DOMAIN Tail(router.todo), Tail(router.todo)[i] = "url",
                      NEW x \in Range(Parts), store'[x] = "none"
               PROVE  \E j \in DOMAIN Tail(router.todo) : j < i /\ Tail(router.todo)[j] = x
    BY <1>3 DEF PartsBeforeUrl
  <2>1. /\ DOMAIN router.todo = 1..Len(router.todo) /\ Len(router.todo) \in Nat \ {0}
        /\ DOMAIN Tail(router.todo) = 1..(Len(router.todo) - 1)
        /\ \A n \in 1..(Len(router.todo) - 1) : Tail(router.todo)[n] = router.todo[n + 1]
        /\ router.todo[1] = k
    BY <1>1 DEF k
  <2>2. PICK j \in DOMAIN router.todo : j < i + 1 /\ router.todo[j] = x
    <3>1. i + 1 \in DOMAIN router.todo /\ router.todo[i + 1] = "url"
      BY <2>1
    <3>2. store[x] = "none"
      BY <1>5, TheParts
    <3> QED  BY <1>1, <3>1, <3>2 DEF PartsBeforeUrl
  <2>3. j # 1
    BY <1>2, <1>3, <2>1, <2>2 DEF SeedTyped
  <2>4. j - 1 \in DOMAIN Tail(router.todo) /\ Tail(router.todo)[j - 1] = x /\ j - 1 < i
    <3>1. j - 1 \in 1..(Len(router.todo) - 1) /\ (j - 1) + 1 = j /\ j - 1 < i
      BY <2>1, <2>2, <2>3
    <3> QED  BY <3>1, <2>1, <2>2
  <2> QED  BY <2>4
<1>8. SeedsHarmless'
  <2>1. \A x \in Range(router'.todo) : store'[x] # "own"
    BY <1>1, <1>2, <1>3 DEF SeedTyped
  <2> QED  BY <1>2, <1>3, <1>7, <2>1 DEF SeedsHarmless
<1> QED  BY <1>4, <1>6, <1>8

-----------------------------------------------------------------------------
(* The steps, sorted by what they do to the router, its seeds and its owner. *)

Untouched == UNCHANGED <<store, source, connecting, users, posts, router>>

Posting(p) ==
  \/ \E n \in Names, good \in BOOLEAN : SendPost(p, n, good)
  \/ Refuse(p) \/ SetupEnds(p)

LEMMA StepCases ==
    ASSUME Next
    PROVE  \/ Untouched /\ (Migrating \/ UNCHANGED schemaVars)
           \/ PowerOn \/ Migrated \/ MigrationRefused \/ Dead \/ SeedOne \/ Seeded
           \/ \E p \in Posts : Posting(p) \/ SetupCommit(p) \/ SetupDropClaim(p)
           \/ SetupServed \/ InstallDefault \/ Retried
           \/ ChangeDomain \/ ConnectImbue \/ StorePart
<1>1. CASE BootSteps
  <2>1. CASE Migrating
    <3>1. Untouched
      BY <2>1 DEF Migrating, Untouched, OpenLockFile, TakeLock, ApplyMigration, MigrationFails,
                  ReleaseLock, StarterExits, SwitchRelease, ownerVars, seedVars
    <3> QED  BY <2>1, <3>1
  <2>2. CASE ComingUp
    BY <2>2 DEF ComingUp
  <2>3. CASE Claiming
    BY <2>3 DEF Claiming, Posting
  <2>4. CASE DeployingDefaults
    <3>1. ASSUME WriteSentinel \/ \E d \in Specs : Network(d)
          PROVE  Untouched /\ UNCHANGED schemaVars
      BY <3>1 DEF WriteSentinel, Network, Untouched, ownerVars, seedVars
    <3> QED  BY <2>4, <3>1 DEF DeployingDefaults
  <2>5. CASE Owning
    <3>1. ASSUME NEW d \in Specs, Toggle(d) PROVE Untouched /\ UNCHANGED schemaVars
      BY <3>1 DEF Toggle, Untouched, ownerVars, seedVars
    <3> QED  BY <2>5, <3>1 DEF Owning
  <2> QED  BY <1>1, <2>1, <2>2, <2>3, <2>4, <2>5 DEF BootSteps
<1>2. CASE Gone
  BY <1>2 DEF Gone, Crash, Restart
<1>3. CASE Sessions
  <2>1. ASSUME NEW s \in Sids, Login(s) \/ Logout(s) \/ Lapse(s)
        PROVE  Untouched /\ UNCHANGED schemaVars
    BY <2>1 DEF Login, Logout, Lapse, Untouched, bootVars, ownerVars, seedVars
  <2> QED  BY <1>3, <2>1 DEF Sessions, Claim, ClaimAnswered, Posting
<1>4. CASE Tokens
  <2>1. Untouched /\ UNCHANGED schemaVars
    BY <1>4 DEF Tokens, CreateToken, ListTokens, DeleteToken, Untouched, bootVars, ownerVars, seedVars
  <2> QED  BY <2>1
<1> QED  BY <1>1, <1>2, <1>3, <1>4 DEF Next

\* All but the migrations and the router's first steps keep the schema.
LEMMA SchemaStep ==
    ASSUME SchemaInv, [Next]_vars PROVE SchemaInv'
<1>1. router = [at |-> router.at, pass |-> router.pass, todo |-> router.todo]
  BY DEF SchemaInv, SchemaTyped
<1>2. CASE Untouched /\ UNCHANGED schemaVars
  BY <1>1, <1>2, KeptFits DEF SchemaKept, Untouched
<1>3. CASE UNCHANGED vars
  <2>1. Untouched /\ UNCHANGED schemaVars
    BY <1>3 DEF vars, bootVars, Untouched, ownerVars, seedVars
  <2> QED  BY <1>2, <2>1
<1>4. CASE SeedOne \/ Seeded
  BY <1>1, <1>4, KeptFits DEF SchemaKept, SeedOne, Seeded, ToRetrying
<1>5. ASSUME NEW p \in Posts, Posting(p) \/ SetupCommit(p) \/ SetupDropClaim(p)
      PROVE  SchemaInv'
  BY <1>1, <1>5, KeptFits DEF SchemaKept, Posting, SendPost, Refuse, SetupEnds, SetupCommit, SetupDropClaim
<1>6. CASE SetupServed \/ InstallDefault \/ Retried
  BY <1>1, <1>6, KeptFits DEF SchemaKept, SetupServed, InstallDefault, Retried, ToRetrying, ToSeeding
<1>7. CASE ChangeDomain \/ ConnectImbue \/ StorePart
  BY <1>1, <1>7, KeptFits DEF SchemaKept, ChangeDomain, ConnectImbue, StorePart
<1> QED  BY <1>2, <1>3, <1>4, <1>5, <1>6, <1>7, StepCases, MigratingFits, RouterFits

\* However many processes start at once and wherever one is killed, every
\* migration ran exactly once, in order, and the router serves the schema of its
\* own release (_apply_under_lock).
THEOREM SchemaCorrect == Spec => []SchemaFits
<1>1. SchemaInv /\ [Next]_vars => SchemaInv'
  BY SchemaStep
<1>2. SchemaInv => SchemaFits
  BY DEF SchemaInv
<1> QED  BY SchemaInit, <1>1, <1>2, PTL DEF Spec

-----------------------------------------------------------------------------
(* The claim.  The token's row is there for as long as nobody has claimed    *)
(* the instance, and with an owner it survives only between two commits of   *)
(* one handler, or until the process ends: the setup app does not come back. *)

Post == [at : {"form", "claimed", "deploying", "answered"}, name : Names, token : BOOLEAN]

PostsInSetup == \A p \in Posts : posts[p].at # "none" => router.at = "setup"

ClaimTyped == posts \in [Posts -> Post \cup {NoPost}] /\ users \in Seq(Names)

ClaimTokenSpent ==
  /\ \A p \in Posts : posts[p].at \in {"claimed", "deploying", "answered"} => users # <<>>
  /\ router.at = "setup" /\ users # <<>> /\ store["claim"] = "seed"
        => \E p \in Posts : posts[p].at = "claimed"

ClaimTokenKept ==
  users = <<>> => /\ source # "nowhere"
                  /\ router.at = "seeding" /\ store["claim"] # "seed" => "claim" \in Range(router.todo)

ClaimInv == /\ PostsInSetup /\ ClaimTyped /\ ClaimTokenSpent /\ ClaimTokenKept
            /\ OneOwner /\ SetupStaysOpen

-----------------------------------------------------------------------------
(* A seed never overwrites what the owner set.                              *)

LEMMA SeedInit == Init => SeedInv
<1> SUFFICES ASSUME Init PROVE SeedInv
  OBVIOUS
<1>1. /\ store = [k \in Keys |-> IF k = "domain" /\ source = "file" THEN "own" ELSE "none"]
      /\ router = Down /\ connecting = <<>>
  BY DEF Init, BootInit
<1>2. <<>> \in Seq(Range(Parts))
  OBVIOUS
<1>3. SeedTyped
  BY <1>1, <1>2, TheParts DEF SeedTyped, Written, Down
<1>4. OwnersPartsComplete
  BY <1>1, TheParts DEF OwnersPartsComplete
<1>5. SeedsHarmless
  BY <1>1 DEF SeedsHarmless, Down
<1> QED  BY <1>3, <1>4, <1>5 DEF SeedInv

\* A step that writes no setting, and does not begin to seed, does no harm.
SeedKept ==
  /\ UNCHANGED <<store, connecting>>
  /\ router' = [at |-> router'.at, pass |-> router'.pass, todo |-> router'.todo]
  /\ router'.at = "seeding" => router' = router
  /\ router.at = "serving" => router'.at = "serving"

LEMMA KeptHarmless ==
    ASSUME SeedInv, SeedKept PROVE SeedInv'
<1>1. SeedTyped' /\ OwnersPartsComplete'
  BY DEF SeedInv, SeedKept, SeedTyped, OwnersPartsComplete, StoredIdentity
<1>2. SeedsHarmless'
  BY DEF SeedInv, SeedKept, SeedsHarmless, PartsBeforeUrl
<1> QED  BY <1>1, <1>2 DEF SeedInv

LEMMA ToSeedingHarmless ==
    ASSUME SeedInv, NEW pass, ToSeeding(pass), router.at # "serving", UNCHANGED <<store, connecting>>
    PROVE  SeedInv'
<1>1. router' = [at |-> "seeding", pass |-> pass, todo |-> SeedList]
  BY DEF ToSeeding
<1>2. SeedTyped' /\ OwnersPartsComplete'
  BY <1>1 DEF SeedInv, SeedTyped, OwnersPartsComplete, StoredIdentity
<1>3. PartsBeforeUrl(router.todo)'
  BY <1>1, SeedListHarmless DEF SeedInv, PartsBeforeUrl
<1>4. SeedsHarmless'
  BY <1>1, <1>3, SeedListHarmless DEF SeedInv, SeedsHarmless
<1> QED  BY <1>2, <1>4 DEF SeedInv

\* The owner's writes: all the parts of a credential, one after the other.
LEMMA OwningHarmless ==
    ASSUME SeedInv, ChangeDomain \/ ConnectImbue \/ StorePart PROVE SeedInv'
<1> USE DEF SeedInv
<1>1. SeedTyped /\ OwnersPartsComplete
  OBVIOUS
<1>2. CASE ChangeDomain
  <2>1. SeedTyped'
    BY <1>1, <1>2, TheParts DEF ChangeDomain, SeedTyped, Written
  <2>2. OwnersPartsComplete'
    BY <1>1, <1>2, TheParts DEF ChangeDomain, SeedTyped, OwnersPartsComplete, StoredIdentity
  <2>3. SeedsHarmless'
    BY <1>2 DEF ChangeDomain, SeedsHarmless
  <2> QED  BY <2>1, <2>2, <2>3
<1>3. CASE ConnectImbue
  <2>1. SeedTyped'
    BY <1>1, <1>3, TheParts DEF ConnectImbue, SeedTyped
  <2>2. OwnersPartsComplete'
    BY <1>1, <1>3 DEF ConnectImbue, OwnersPartsComplete, StoredIdentity
  <2>3. SeedsHarmless'
    BY <1>3 DEF ConnectImbue, SeedsHarmless
  <2> QED  BY <2>1, <2>2, <2>3
<1>4. CASE StorePart
  <2> DEFINE k == Head(connecting)
  <2>1. /\ k \in Range(Parts) /\ Tail(connecting) \in Seq(Range(Parts))
        /\ store' = [store EXCEPT ![k] = "own"] /\ connecting' = Tail(connecting)
        /\ router' = router /\ router.at = "serving" /\ StoredIdentity
    BY <1>1, <1>4, RangeOfTail DEF StorePart, SeedTyped, OwnersPartsComplete
  <2> HIDE DEF k
  <2>2. SeedTyped'
    BY <1>1, <2>1, TheParts DEF SeedTyped, Written
  <2>3. OwnersPartsComplete'
    BY <1>1, <2>1, TheParts DEF SeedTyped, OwnersPartsComplete, StoredIdentity
  <2>4. SeedsHarmless'
    BY <2>1 DEF SeedsHarmless
  <2> QED  BY <2>2, <2>3, <2>4
<1> QED  BY <1>2, <1>3, <1>4

\* The two steps that go back to nothing: the end of the process, and of the claim.
LEMMA UndoneHarmless ==
    ASSUME SeedInv, PostsInSetup, Dead \/ \E p \in Posts : SetupDropClaim(p) PROVE SeedInv'
<1> USE DEF SeedInv
<1>1. SeedTyped /\ OwnersPartsComplete /\ SeedsHarmless
  OBVIOUS
<1>2. CASE Dead
  <2>1. <<>> \in Seq(Range(Parts))
    OBVIOUS
  <2> QED  BY <1>1, <1>2, <2>1 DEF Dead, Down, SeedTyped, OwnersPartsComplete, SeedsHarmless, StoredIdentity
<1>3. ASSUME NEW p \in Posts, SetupDropClaim(p) PROVE SeedInv'
  <2>1. /\ router.at = "setup"
        /\ store' = [store EXCEPT !["claim"] = "none"] /\ connecting' = connecting
        /\ router'.at = router.at
        /\ router' = [at |-> router'.at, pass |-> router'.pass, todo |-> router'.todo]
    BY <1>1, <1>3 DEF SetupDropClaim, SeedTyped, PostsInSetup
  <2>2. SeedTyped'
    BY <1>1, <2>1, TheParts DEF SeedTyped, Written
  <2>3. OwnersPartsComplete'
    BY <1>1, <2>1, TheParts DEF SeedTyped, OwnersPartsComplete, StoredIdentity
  <2>4. SeedsHarmless'
    BY <1>3, <2>1 DEF SeedsHarmless
  <2> QED  BY <2>2, <2>3, <2>4
<1> QED  BY <1>2, <1>3

LEMMA SeedStep ==
    ASSUME SeedInv, PostsInSetup, [Next]_vars PROVE SeedInv'
<1>1. /\ router = [at |-> router.at, pass |-> router.pass, todo |-> router.todo]
      /\ SeedTyped /\ OwnersPartsComplete /\ SeedsHarmless
  BY DEF SeedInv, SeedTyped
<1>2. CASE Untouched
  BY <1>1, <1>2, KeptHarmless DEF SeedKept, Untouched
<1>3. CASE UNCHANGED vars
  BY <1>2, <1>3 DEF vars, bootVars, Untouched, ownerVars, seedVars
<1>4. CASE PowerOn \/ MigrationRefused \/ Seeded
  BY <1>1, <1>4, KeptHarmless
     DEF SeedKept, PowerOn, MigrationRefused, Down, Seeded, ToRetrying, seedVars
<1>5. ASSUME NEW p \in Posts, Posting(p) \/ SetupCommit(p) PROVE SeedInv'
  BY <1>1, <1>5, KeptHarmless
     DEF SeedKept, Posting, SendPost, Refuse, SetupEnds, SetupCommit, seedVars
<1>6. CASE SetupServed
  BY <1>1, <1>6, KeptHarmless DEF SeedKept, SetupServed, ToRetrying, seedVars
<1>7. CASE InstallDefault
  <2>1. router.at # "seeding"
    BY <1>7 DEF InstallDefault, Deploying, PostsInSetup
  <2> QED  BY <1>1, <1>7, <2>1, KeptHarmless DEF SeedKept, InstallDefault, seedVars
<1>8. CASE Migrated \/ Retried
  BY <1>1, <1>8, ToSeedingHarmless DEF Migrated, Retried, seedVars
<1>9. CASE SeedOne
  BY <1>1, <1>9, SeedOneHarmless DEF SeedInv
<1> QED  BY <1>2, <1>3, <1>4, <1>5, <1>6, <1>7, <1>8, <1>9, StepCases, OwningHarmless, UndoneHarmless

-----------------------------------------------------------------------------
(* One claim makes one owner, and an instance without one can be claimed.   *)

LEMMA ClaimInit == Init => ClaimInv
<1> SUFFICES ASSUME Init PROVE ClaimInv
  OBVIOUS
<1>1. /\ posts = [p \in Posts |-> NoPost] /\ users = <<>> /\ source \in {"toml", "file"}
      /\ router.at = "down"
  BY DEF Init, BootInit, Down
<1>2. <<>> \in Seq(Names) /\ Len(<<>>) = 0
  OBVIOUS
<1>3. PostsInSetup /\ ClaimTyped /\ ClaimTokenSpent
  BY <1>1, <1>2 DEF PostsInSetup, ClaimTyped, ClaimTokenSpent, NoPost
<1> QED  BY <1>1, <1>2, <1>3 DEF ClaimInv, ClaimTokenKept, OneOwner, SetupStaysOpen

\* Outside the setup app, users and posts do not change.
ClaimKept ==
  /\ UNCHANGED <<users, posts, source>>
  /\ store'["claim"] = store["claim"]
  /\ router.at = "setup" => router'.at = "setup"
  /\ router'.at = "setup" => router.at = "setup"
  /\ router'.at = "seeding" => router' = router

LEMMA KeptClaim ==
    ASSUME ClaimInv, ClaimKept PROVE ClaimInv'
<1>1. PostsInSetup' /\ ClaimTyped' /\ ClaimTokenSpent'
  BY DEF ClaimInv, ClaimKept, PostsInSetup, ClaimTyped, ClaimTokenSpent
<1>2. ClaimTokenKept' /\ OneOwner' /\ SetupStaysOpen'
  BY DEF ClaimInv, ClaimKept, ClaimTokenKept, OneOwner, SetupStaysOpen
<1> QED  BY <1>1, <1>2 DEF ClaimInv

\* The router comes up or goes down: nobody is posting.
LEMMA RouterClaim ==
    ASSUME SeedInv, ClaimInv, PowerOn \/ Migrated \/ MigrationRefused \/ Dead \/ Retried
    PROVE  ClaimInv'
<1> USE DEF ClaimInv
<1>1. PostsInSetup /\ ClaimTyped /\ ClaimTokenSpent /\ ClaimTokenKept /\ OneOwner
  OBVIOUS
<1>2. UNCHANGED <<users, source, store>> /\ (posts' = posts \/ posts' = [p \in Posts |-> NoPost])
  BY DEF PowerOn, Migrated, MigrationRefused, Dead, Retried, ownerVars, seedVars
<1>3. /\ router'.at # "setup"
      /\ router'.at = "seeding" => router'.todo = SeedList
  BY DEF SeedInv, SeedTyped, PowerOn, Migrated, MigrationRefused, Dead, Retried, ToSeeding, Down
<1>4. \A p \in Posts : posts'[p].at = "none"
  <2>1. CASE Dead
    BY <2>1 DEF Dead, NoPost
  <2>2. CASE PowerOn \/ Migrated \/ MigrationRefused \/ Retried
    BY <1>1, <2>2 DEF PowerOn, Migrated, MigrationRefused, Retried, PostsInSetup, ownerVars
  <2> QED  BY <2>1, <2>2
<1>5. PostsInSetup' /\ ClaimTyped' /\ ClaimTokenSpent'
  BY <1>1, <1>2, <1>3, <1>4 DEF PostsInSetup, ClaimTyped, ClaimTokenSpent
<1>6. ClaimTokenKept'
  <2>1. users = <<>> /\ store["claim"] # "seed" => "claim" \in Range(SeedList)
    <3>1. store["claim"] \in Written \ {"own"}
      BY TheParts DEF SeedInv, SeedTyped
    <3> QED  BY <1>1, <3>1, SeedListHarmless DEF SeedInv, ClaimTokenKept, ClaimWanted, Written
  <2> QED  BY <1>1, <1>2, <1>3, <2>1 DEF ClaimTokenKept
<1> QED  BY <1>1, <1>2, <1>3, <1>5, <1>6 DEF OneOwner, SetupStaysOpen

\* One seed, and the end of seeding: the setup app opens with the token there.
LEMMA SeedingClaim ==
    ASSUME SeedInv, ClaimInv, SeedOne \/ Seeded PROVE ClaimInv'
<1> USE DEF ClaimInv
<1>1. /\ PostsInSetup /\ ClaimTyped /\ ClaimTokenSpent /\ ClaimTokenKept /\ OneOwner
      /\ SeedTyped /\ SeedsHarmless
  BY DEF SeedInv
<1>2. router.at = "seeding" /\ UNCHANGED <<users, posts, source>>
  BY DEF SeedOne, Seeded, ownerVars, seedVars
<1>3. \A p \in Posts : posts'[p].at = "none"
  BY <1>1, <1>2 DEF PostsInSetup
<1>4. PostsInSetup' /\ ClaimTyped' /\ OneOwner'
  BY <1>1, <1>2, <1>3 DEF PostsInSetup, ClaimTyped, OneOwner
<1>5. CASE SeedOne
  <2> DEFINE k == Head(router.todo)
  <2>1. /\ k \in Keys /\ \A x \in Range(router.todo) : x = k \/ x \in Range(Tail(router.todo))
        /\ store' = [store EXCEPT ![k] = "seed"]
        /\ router'.at = "seeding" /\ router'.todo = Tail(router.todo)
    BY <1>1, <1>2, <1>5, RangeOfTail DEF SeedOne, SeedTyped, SeedsHarmless
  <2> HIDE DEF k
  <2>2. store'["claim"] = IF k = "claim" THEN "seed" ELSE store["claim"]
    BY <1>1, <2>1, TheParts DEF SeedTyped
  <2>3. ClaimTokenSpent' /\ ClaimTokenKept' /\ SetupStaysOpen'
    BY <1>1, <1>2, <1>3, <2>1, <2>2 DEF ClaimTokenSpent, ClaimTokenKept, SetupStaysOpen
  <2> QED  BY <1>4, <2>3
<1>6. CASE Seeded
  <2>1. /\ UNCHANGED store /\ router'.at \in {"serving", "setup", "retrying"}
        /\ router'.at = "setup" => users = <<>>
        /\ router.todo = <<>>
    BY <1>1, <1>6 DEF Seeded, SeedTyped, ToRetrying, seedVars
  <2>2. "claim" \notin Range(<<>>)
    BY DEF Range
  <2> QED  BY <1>1, <1>2, <1>3, <1>4, <2>1, <2>2 DEF ClaimTokenSpent, ClaimTokenKept, SetupStaysOpen
<1> QED  BY <1>5, <1>6

\* The setup handler: while it works nobody else is accepted, and after it the
\* token is gone.
LEMMA HandlerClaim ==
    ASSUME SeedInv, ClaimInv,
           SetupServed \/ \E p \in Posts : Posting(p) \/ SetupCommit(p) \/ SetupDropClaim(p)
    PROVE  ClaimInv'
<1> USE DEF ClaimInv
<1>1. /\ PostsInSetup /\ ClaimTyped /\ ClaimTokenSpent /\ ClaimTokenKept /\ OneOwner /\ SetupStaysOpen
      /\ SeedTyped
  BY DEF SeedInv
<1>2. ASSUME NEW p \in Posts, Posting(p) PROVE ClaimInv'
  <2>1. UNCHANGED <<users, router, store, source>>
    BY <1>2 DEF Posting, SendPost, Refuse, SetupEnds, seedVars
  <2> DEFINE Becomes(new) ==
        /\ new \in Post \cup {NoPost} /\ posts' = [posts EXCEPT ![p] = new]
        /\ posts[p].at # "claimed" /\ new.at # "claimed"
        /\ new.at # "none" => router.at = "setup"
        /\ new.at \in {"claimed", "deploying", "answered"} => users # <<>>
  <2>2. \E new : Becomes(new)
    <3>1. ASSUME NEW n \in Names, NEW good \in BOOLEAN, SendPost(p, n, good)
          PROVE  Becomes([at |-> "form", name |-> n, token |-> good])
      BY <3>1 DEF SendPost, Post
    <3>2. ASSUME Refuse(p) PROVE Becomes(NoPost)
      BY <3>2 DEF Refuse, NoPost
    <3>3. ASSUME SetupEnds(p) PROVE Becomes([posts[p] EXCEPT !.at = "answered"])
      <4>1. /\ posts[p] \in Post /\ posts[p].at = "deploying" /\ router.at = "setup" /\ users # <<>>
            /\ posts' = [posts EXCEPT ![p] = [posts[p] EXCEPT !.at = "answered"]]
        BY <1>1, <3>3 DEF SetupEnds, ClaimTyped, NoPost, PostsInSetup, ClaimTokenSpent
      <4> QED  BY <4>1 DEF Post
    <3> HIDE DEF Becomes
    <3> QED  BY <1>2, <3>1, <3>2, <3>3 DEF Posting
  <2>3. PICK new : Becomes(new)
    BY <2>2
  <2>4. PostsInSetup' /\ ClaimTyped'
    BY <1>1, <2>1, <2>3 DEF PostsInSetup, ClaimTyped
  <2>5. ClaimTokenSpent' /\ ClaimTokenKept' /\ OneOwner' /\ SetupStaysOpen'
    BY <1>1, <2>1, <2>3 DEF ClaimTyped, ClaimTokenSpent, ClaimTokenKept, OneOwner, SetupStaysOpen
  <2> QED  BY <2>4, <2>5
<1>3. ASSUME NEW p \in Posts, SetupCommit(p) PROVE ClaimInv'
  <2> DEFINE new == [posts[p] EXCEPT !.at = "claimed"]
  <2>1. /\ UNCHANGED <<router, store, source>> /\ router.at = "setup" /\ Free /\ posts[p].at = "form"
        /\ ClaimRequired => store["claim"] = "seed"
        /\ users' = Append(users, posts[p].name) /\ posts' = [posts EXCEPT ![p] = new]
    BY <1>3 DEF SetupCommit, Accepted, Entitled, Verified, seedVars
  <2>2. new \in Post /\ new.at = "claimed" /\ posts[p].name \in Names
    <3>1. posts[p] \in Post
      BY <1>1, <2>1 DEF ClaimTyped, NoPost
    <3> QED  BY <3>1 DEF Post
  <2> HIDE DEF new
  <2>3. users' \in Seq(Names) /\ Len(users') = Len(users) + 1 /\ users' # <<>>
    BY <1>1, <2>1, <2>2 DEF ClaimTyped
  <2>4. ClaimRequired => users = <<>>
    BY <1>1, <2>1 DEF ClaimTokenSpent, Free, Working
  <2>5. OneOwner'
    BY <2>3, <2>4 DEF OneOwner
  <2>6. PostsInSetup' /\ ClaimTyped' /\ ClaimTokenSpent'
    BY <1>1, <2>1, <2>2, <2>3 DEF PostsInSetup, ClaimTyped, ClaimTokenSpent
  <2> QED  BY <1>1, <2>1, <2>3, <2>5, <2>6 DEF ClaimTokenKept, SetupStaysOpen
<1>4. ASSUME NEW p \in Posts, SetupDropClaim(p) PROVE ClaimInv'
  <2> DEFINE new == [posts[p] EXCEPT !.at = "deploying"]
  <2>1. /\ posts[p].at = "claimed" /\ posts' = [posts EXCEPT ![p] = new] /\ UNCHANGED users
        /\ store' = [store EXCEPT !["claim"] = "none"] /\ router'.at = router.at
    BY <1>1, <1>4 DEF SetupDropClaim, SeedTyped
  <2>2. new \in Post /\ new.at = "deploying" /\ users # <<>> /\ router.at = "setup"
    BY <1>1, <2>1 DEF ClaimTyped, Post, NoPost, ClaimTokenSpent, PostsInSetup
  <2> HIDE DEF new
  <2>3. store'["claim"] = "none"
    BY <1>1, <2>1, TheParts DEF SeedTyped
  <2>4. PostsInSetup' /\ ClaimTyped' /\ ClaimTokenSpent'
    BY <1>1, <2>1, <2>2, <2>3 DEF PostsInSetup, ClaimTyped, ClaimTokenSpent
  <2> QED  BY <1>1, <2>1, <2>2, <2>4 DEF ClaimTokenKept, SetupStaysOpen, OneOwner
<1>5. CASE SetupServed
  <2>1. /\ posts' = [p \in Posts |-> NoPost] /\ router'.at = "retrying"
        /\ UNCHANGED <<users, store, source>>
    BY <1>5 DEF SetupServed, ToRetrying, seedVars
  <2>2. PostsInSetup' /\ ClaimTyped' /\ ClaimTokenSpent'
    BY <1>1, <2>1 DEF PostsInSetup, ClaimTyped, ClaimTokenSpent, NoPost
  <2> QED  BY <1>1, <2>1, <2>2 DEF ClaimTokenKept, SetupStaysOpen, OneOwner
<1> QED  BY <1>2, <1>3, <1>4, <1>5

LEMMA ClaimStep ==
    ASSUME SeedInv, ClaimInv, [Next]_vars PROVE ClaimInv'
<1>1. SeedTyped /\ OwnersPartsComplete /\ PostsInSetup
  BY DEF SeedInv, ClaimInv
<1>2. CASE Untouched
  BY <1>2, KeptClaim DEF ClaimKept, Untouched
<1>3. CASE UNCHANGED vars
  BY <1>2, <1>3 DEF vars, bootVars, Untouched, ownerVars, seedVars
<1>4. CASE InstallDefault
  <2>1. router.at # "seeding" /\ router'.at = router.at
    BY <1>1, <1>4 DEF InstallDefault, Deploying, PostsInSetup, SeedTyped
  <2> QED  BY <1>4, <2>1, KeptClaim DEF ClaimKept, InstallDefault, ownerVars, seedVars
<1>5. CASE ChangeDomain \/ ConnectImbue
  <2>1. store'["claim"] = store["claim"]
    BY <1>1, <1>5, TheParts DEF ChangeDomain, ConnectImbue, SeedTyped
  <2> QED  BY <1>5, <2>1, KeptClaim DEF ClaimKept, ChangeDomain, ConnectImbue, ownerVars
<1>6. CASE StorePart
  <2>1. Head(connecting) \in Range(Parts)
    BY <1>1, <1>6, RangeOfTail DEF StorePart, SeedTyped
  <2>2. store'["claim"] = store["claim"]
    BY <1>1, <1>6, <2>1, TheParts DEF StorePart, SeedTyped
  <2> QED  BY <1>6, <2>2, KeptClaim DEF ClaimKept, StorePart, ownerVars
<1> QED  BY <1>2, <1>3, <1>4, <1>5, <1>6, StepCases, RouterClaim, SeedingClaim, HandlerClaim

LEMMA BootInv == Spec => [](SeedInv /\ ClaimInv)
<1>1. SeedInv /\ ClaimInv /\ [Next]_vars => SeedInv' /\ ClaimInv'
  BY SeedStep, ClaimStep DEF ClaimInv
<1> QED  BY SeedInit, ClaimInit, <1>1, PTL DEF Spec

\* One claim token makes one owner, even if several POSTs of /setup were waiting
\* for their forms when the first was accepted (setup_post).
THEOREM OneClaimOneOwner == Spec => []OneOwner
<1>1. ClaimInv => OneOwner
  BY DEF ClaimInv
<1> QED  BY BootInv, <1>1, PTL

\* An instance without an owner can be claimed, whatever boot was cut short after
\* whichever commit (seed_first_boot, setup_post).
THEOREM ClaimableUntilClaimed == Spec => []SetupStaysOpen
<1>1. ClaimInv => SetupStaysOpen
  BY DEF ClaimInv
<1> QED  BY BootInv, <1>1, PTL

\* A first_boot.toml left on the disk never clobbers what the owner set later
\* (_seed_imbue_identity, seed_domains).
THEOREM SeedsNeverOverwrite == Spec => OwnerChoicesSurvive
<1>1. ASSUME SeedInv, ClaimInv, [Next]_vars, NEW k \in Keys, store[k] = "own"
      PROVE  store'[k] = "own"
  <2>1. /\ store \in [Keys -> Written] /\ store["claim"] # "own" /\ SeedTyped /\ SeedsHarmless
    BY <1>1 DEF SeedInv, SeedTyped
  <2>2. CASE UNCHANGED store
    BY <1>1, <2>2
  <2>3. CASE SeedOne
    <3>1. Head(router.todo) \in Range(router.todo) /\ \A x \in Range(router.todo) : store[x] # "own"
      BY <2>1, <2>3, RangeOfTail DEF SeedOne, SeedsHarmless
    <3> QED  BY <1>1, <2>1, <2>3, <3>1 DEF SeedOne
  <2>4. CASE ChangeDomain \/ StorePart \/ \E p \in Posts : SetupDropClaim(p)
    BY <1>1, <2>1, <2>4 DEF ChangeDomain, StorePart, SetupDropClaim
  <2>5. ASSUME NEW p \in Posts, Posting(p) \/ SetupCommit(p) PROVE UNCHANGED store
    BY <2>5 DEF Posting, SendPost, Refuse, SetupEnds, SetupCommit, seedVars
  <2>6. CASE \/ PowerOn \/ Migrated \/ MigrationRefused \/ Dead \/ Seeded
             \/ SetupServed \/ InstallDefault \/ Retried \/ ConnectImbue
    BY <1>1, <2>6 DEF PowerOn, Migrated, MigrationRefused, Dead, Seeded, SetupServed, InstallDefault,
                      Retried, ConnectImbue, seedVars
  <2>7. CASE UNCHANGED vars
    BY <2>2, <2>7 DEF vars, bootVars, seedVars
  <2> QED  BY <1>1, <2>2, <2>3, <2>4, <2>5, <2>6, <2>7, StepCases DEF Untouched
<1>2. SeedInv /\ ClaimInv /\ [Next]_vars => [\A k \in Keys : store[k] = "own" => store'[k] = "own"]_vars
  BY <1>1
<1> QED  BY BootInv, <1>2, PTL DEF Spec, OwnerChoicesSurvive

-----------------------------------------------------------------------------
(* Sessions: row, cookie and belief agree over everything the router does.   *)

SessionInv ==
  /\ \A s \in cookie : s \notin lapsed => s \in session
  /\ session \cap loggedOut = {}

\* A browser is signed in exactly as long as its person believes: from the answer
\* that set the cookie, over restarts and other people's logins, to its logout or
\* its time (create_session, revoke_session, validate_session_token).
THEOREM SessionsAreHonest == Spec => []SessionsHonest
<1>1. Init => SessionInv
  BY DEF Init, SessionInv
<1>2. ASSUME SessionInv, [Next]_vars PROVE SessionInv'
  <2> USE <1>2 DEF SessionInv
  <2>1. CASE UNCHANGED sessionVars
    BY <2>1 DEF sessionVars
  <2>2. ASSUME NEW p \in Posts, NEW s \in Sids, Claim(p, s) PROVE SessionInv'
    BY <2>2 DEF Claim, NewSession, Swept
  <2>3. ASSUME NEW p \in Posts, ClaimAnswered(p) PROVE SessionInv'
    BY <2>3 DEF ClaimAnswered
  <2>4. ASSUME NEW s \in Sids, Login(s) PROVE SessionInv'
    BY <2>4 DEF Login, NewSession, Swept
  <2>5. ASSUME NEW s \in Sids, Logout(s) PROVE SessionInv'
    BY <2>5 DEF Logout, Revoked
  <2>6. ASSUME NEW s \in Sids, Lapse(s) PROVE SessionInv'
    BY <2>6 DEF Lapse
  <2>7. CASE Tokens \/ Gone \/ (BootSteps /\ UNCHANGED <<sessionVars, tokenVars>>) \/ UNCHANGED vars
    <3>1. UNCHANGED sessionVars
      BY <2>7 DEF Tokens, CreateToken, ListTokens, DeleteToken, Gone, sessionVars, vars
    <3> QED  BY <2>1, <3>1
  <2> QED  BY <2>2, <2>3, <2>4, <2>5, <2>6, <2>7 DEF Next, Sessions
<1>3. SessionInv => SessionsHonest
  BY DEF SessionInv, SessionsHonest, LetIn
<1> QED  BY <1>1, <1>2, <1>3, PTL DEF Spec

=============================================================================
