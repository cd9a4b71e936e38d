------------------------------ MODULE Consent ------------------------------
(***************************************************************************)
(* What the owner of an instance is promised about its apps, with none of  *)
(* the machinery: an app runs only what the owner agreed to, and a service *)
(* stays with the app that serves it until the owner moves it or that app  *)
(* stops providing it, with one exception, Overtake.  Install implements   *)
(* this.                                                                   *)
(***************************************************************************)
EXTENDS Naturals

CONSTANTS Apps, NoApp, Services

VARIABLES
  void,      \* the apps about which nothing is promised at the moment
  may,       \* may[a]: the versions of a that may run
  runs,      \* runs[a]: the version of a that runs, or 0
  offers,    \* the pairs <<s, a>> such that a provides s
  provider,  \* provider[s]: the app that serves s, or NoApp
  age        \* age[a]: when a came, or 0; less is older

vars == <<void, may, runs, offers, provider, age>>

Init ==
  /\ void = {} /\ may = [a \in Apps |-> {}] /\ runs = [a \in Apps |-> 0]
  /\ offers = {} /\ provider = [s \in Services |-> NoApp] /\ age = [a \in Apps |-> 0]

\* Consent, once given, stays; nothing starts or stops by it.  The promise about an
\* app may lapse, and be taken up again.
Agree ==
  /\ \A a \in Apps : may[a] \subseteq may'[a]
  /\ UNCHANGED <<runs, offers, provider, age>>

Run(a) ==
  /\ \E v \in may[a] : runs' = [runs EXCEPT ![a] = v]
  /\ UNCHANGED <<void, may, offers, provider, age>>

RunAnything(a) ==
  /\ a \in void
  /\ runs' = [runs EXCEPT ![a] = runs'[a]]
  /\ UNCHANGED <<void, may, offers, provider, age>>

Stop(a) ==
  /\ runs' = [runs EXCEPT ![a] = 0]
  /\ UNCHANGED <<void, may, offers, provider, age>>

\* An app comes only once, as the newest.
Comes(a) ==
  /\ age[a] = 0 /\ \A b \in Apps : age[b] < age'[a]
  /\ age' = [age EXCEPT ![a] = age'[a]]

\* App a begins to provide services or ceases to (an install, an update, a
\* removal): what others provide stays as it is.
Provide(a) ==
  /\ runs' \in {runs, [runs EXCEPT ![a] = 0]}
  /\ UNCHANGED age \/ Comes(a)
  /\ {q \in offers' : q[2] # a} = {q \in offers : q[2] # a}
  /\ UNCHANGED may

\* What others serve stays as it is, too.
Rightly(a, s) ==
  \/ provider'[s] = provider[s]
  \/ provider[s] = NoApp /\ provider'[s] = a
  \/ provider[s] = a /\ <<s, a>> \notin offers'

Offer(a) == Provide(a) /\ \A s \in Services : Rightly(a, s)

\* The exception: a begins to provide a service that a newer app serves, and has it
\* from then on.  "The app that has provided the service the longest" keeps it, by
\* the documentation; the code goes by which app was installed first.
Overtaken(a, s) == provider'[s] = a /\ <<s, a>> \notin offers /\ age'[a] < age[provider[s]]

Overtake(a) ==
  /\ Provide(a)
  /\ \E s \in Services : Overtaken(a, s)
  /\ \A s \in Services : Rightly(a, s) \/ Overtaken(a, s)

\* The owner moves one service, or leaves the choice to the system.
Choose(s) ==
  /\ provider'[s] = NoApp \/ <<s, provider'[s]>> \in offers
  /\ provider' = [provider EXCEPT ![s] = provider'[s]]
  /\ UNCHANGED <<void, may, runs, offers, age>>

Next ==
  \/ Agree
  \/ \E a \in Apps : Run(a) \/ RunAnything(a) \/ Stop(a) \/ Offer(a) \/ Overtake(a)
  \/ \E s \in Services : Choose(s)

Spec == Init /\ [][Next]_vars
=============================================================================
