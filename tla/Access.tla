------------------------------- MODULE Access -------------------------------
(***************************************************************************)
(* Who is let in: the sessions of browsers and the API tokens of scripts   *)
(* (core/auth/auth.py, web/routes/pages/login.py, the token routes of      *)
(* web/routes/api/system.py), over everything that Boot does to the router *)
(* that serves them.                                                       *)
(*                                                                         *)
(* A session exists as a row, as the cookie of the browser it was answered *)
(* to, and as what the person at that browser believes.  The three are not *)
(* changed together.                                                       *)
(***************************************************************************)
EXTENDS Boot

CONSTANTS
  Sids,         \* session tokens: random, never minted twice
  MaxTokens     \* how many API tokens are created

ASSUME AccessAssumption == MaxTokens \in Nat

VARIABLES
  session,    \* the rows of `sessions`, by token
  lapsed,     \* sessions past their expires_at
  cookie,     \* tokens that some browser holds as its cookie
  loggedOut,  \* tokens whose browser was answered a logout (history)
  token,      \* the rows of `api_tokens`: the row id, and which secret it is for
  created,    \* how many were created: each has a secret of its own
  page        \* the list of tokens some page of the owner shows

sessionVars == <<session, lapsed, cookie, loggedOut>>
tokenVars   == <<token, created, page>>
vars        == <<bootVars, sessionVars, tokenVars>>

Serving == router.at = "serving"

-----------------------------------------------------------------------------
(* Sessions *)

\* Mutant: the sweep takes every session there is.
SweptAll == session

\* What create_session sweeps: the rows past their time.
Swept == lapsed

NewSession(s) ==
  /\ s \in Sids \ (session \cup lapsed \cup cookie \cup loggedOut)
  /\ session' = (session \ Swept) \cup {s}

\* authenticate(): the row is there, and its time has not come.
LetIn(s) == s \in session /\ s \notin lapsed

\* The session of the owner's first visit is committed with the owner, and its
\* cookie is set by the answer.
Claim(p, s) ==
  /\ SetupCommit(p) /\ NewSession(s)
  /\ UNCHANGED <<lapsed, cookie, loggedOut, tokenVars>>

ClaimAnswered(p) ==
  /\ SetupEnds(p)
  /\ cookie' = cookie \cup session
  /\ UNCHANGED <<session, lapsed, loggedOut, tokenVars>>

\* login_post, with the right password; it reads nothing before its form has come.
Login(s) ==
  /\ Serving /\ NewSession(s)
  /\ cookie' = cookie \cup {s}
  /\ UNCHANGED <<bootVars, lapsed, loggedOut, tokenVars>>

\* logout: needs no valid session, only the cookie.
Revoked(s) == {s}

Logout(s) ==
  /\ Serving /\ s \in cookie
  /\ session' = session \ Revoked(s)
  /\ cookie' = cookie \ {s}
  /\ loggedOut' = loggedOut \cup {s}
  /\ UNCHANGED <<bootVars, lapsed, tokenVars>>

Lapse(s) ==
  /\ s \in session \ lapsed
  /\ lapsed' = lapsed \cup {s}
  /\ UNCHANGED <<bootVars, session, cookie, loggedOut, tokenVars>>

-----------------------------------------------------------------------------
(* API tokens *)

\* AUTOINCREMENT: no row id comes twice.
NextId == created + 1

CreateToken(s) ==
  /\ Serving /\ LetIn(s) /\ created < MaxTokens
  /\ token' = token \cup {[id |-> NextId, secret |-> created + 1]}
  /\ created' = created + 1
  /\ UNCHANGED <<bootVars, sessionVars, page>>

ListTokens(s) ==
  /\ Serving /\ LetIn(s)
  /\ page' = token
  /\ UNCHANGED <<bootVars, sessionVars, token, created>>

\* The page asks to delete by row id.
DeleteToken(s, shown) ==
  /\ Serving /\ LetIn(s) /\ shown \in page
  /\ token' = {t \in token : t.id # shown.id}
  /\ UNCHANGED <<bootVars, sessionVars, created, page>>

-----------------------------------------------------------------------------

Gone == (Crash \/ Restart) /\ UNCHANGED <<session, lapsed, cookie, loggedOut, tokenVars>>

Init ==
  /\ BootInit
  /\ session = {} /\ lapsed = {} /\ cookie = {} /\ loggedOut = {}
  /\ token = {} /\ created = 0 /\ page = {} 

Sessions ==
  \/ \E p \in Posts, s \in Sids : Claim(p, s)
  \/ \E p \in Posts : ClaimAnswered(p)
  \/ \E s \in Sids : Login(s) \/ Logout(s) \/ Lapse(s)

Tokens ==
  \E s \in Sids : \/ CreateToken(s) \/ ListTokens(s)
                  \/ \E shown \in page : DeleteToken(s, shown)

Next == (BootSteps /\ UNCHANGED <<sessionVars, tokenVars>>) \/ Gone \/ Sessions \/ Tokens

Spec == Init /\ [][Next]_vars

-----------------------------------------------------------------------------
(* What should be true.                                                    *)

\* However many processes start at once and wherever one is killed, every
\* migration ran exactly once, in order, and the stamp says which
\* (_apply_under_lock); and nothing is served on a schema of another release.
SchemaFits ==
  /\ db.ran = [i \in 1..Len(db.ran) |-> db.from + i]
  /\ db.version = db.from + Len(db.ran)
  /\ router.at \notin {"down", "migrating"} => db.version = code

\* One claim token makes one owner, even if two POSTs of /setup were waiting
\* for their forms when the first was accepted (setup_post).
OneOwner == ClaimRequired => Len(users) <= 1

\* An instance without an owner can be claimed, whatever boot was cut short
\* after whichever commit (seed_first_boot, setup_post).
SetupStaysOpen == router.at = "setup" /\ users = <<>> => store["claim"] = "seed"

\* A first_boot.toml left on the disk never clobbers what the owner set later
\* (docstring of _seed_imbue_identity; seed_domains).
OwnerChoicesSurvive == [][\A k \in Keys : store[k] = "own" => store'[k] = "own"]_vars

\* A browser is signed in exactly as long as its person believes: from the
\* answer that set the cookie, over restarts and other people's logins, to its
\* logout or its time (create_session, revoke_session, validate_session_token).
SessionsHonest ==
  /\ \A s \in cookie : LetIn(s) <=> s \notin lapsed
  /\ \A s \in loggedOut : ~LetIn(s)

=============================================================================
