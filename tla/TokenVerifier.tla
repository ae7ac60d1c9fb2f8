---------------------------- MODULE TokenVerifier ----------------------------
(***************************************************************************)
(* apps/app-apis/src/middleware/auth.ts: the gate before every banking     *)
(* route.  Its verifier is jose's createRemoteJWKSet with its defaults: the *)
(* key set is cached for a while, fetched again when a token names a key it *)
(* lacks, but not so soon after the last fetch, and all requests that wait  *)
(* share one fetch, which times out.                                       *)
(***************************************************************************)
EXTENDS AuthApi

CONSTANTS
  CacheMaxAge,   \* 10 minutes, in ticks
  Cooldown,      \* 30 seconds, in ticks
  FetchTimeout   \* 5 seconds, in ticks

ASSUME VerifierAssumption ==
  CacheMaxAge \in Nat \ {0} /\ Cooldown \in Nat \ {0} /\ FetchTimeout \in Nat

VARIABLES
  cache,      \* the key of the cached key set
  fetchedAt,  \* when it arrived
  fetch       \* the fetch under way

verifierVars == <<cache, fetchedAt, fetch>>

NoFetch == [stage |-> "none", key |-> NoKey, at |-> 0]

VerifierTypeOK ==
  /\ cache \in Keys \cup {NoKey}
  /\ fetchedAt \in 0 .. clock
  /\ fetch \in [stage : {"none", "sent", "answered"}, key : Keys \cup {NoKey}, at : 0 .. clock]
  /\ fetch.stage = "answered" <=> fetch.key # NoKey
  /\ \A c \in Clients : pc[c] = "fetch" => fetch.stage # "none"

VerifierInit == cache = NoKey /\ fetchedAt = 0 /\ fetch = NoFetch

\* Mutant: a cached key set is good for ever.
FreshForEver == cache # NoKey

Fresh == cache # NoKey /\ clock < fetchedAt + CacheMaxAge

\* Mutant: a fresh key set is not fetched again.
CoolingDownWhileFresh == cache # NoKey

CoolingDown == cache # NoKey /\ clock < fetchedAt + Cooldown

\* A request to a route that is not public reaches requireAuth.
Request(c) ==
  /\ pc[c] \in Outcomes /\ clock < MaxTime
  /\ pc' = [pc EXCEPT ![c] = "verify"]
  /\ UNCHANGED <<clock, processVars, users, call, token, verifierVars>>

Verdict(t, k) == IF Verified(t, k) THEN "accepted" ELSE "refused"

\* Wait for the fetch under way, or for a new one.
Reload(c) ==
  /\ pc' = [pc EXCEPT ![c] = "fetch"]
  /\ fetch' = IF fetch.stage = "none" THEN [NoFetch EXCEPT !.stage = "sent", !.at = clock]
              ELSE fetch

\* requireAuth and verify, up to an await: no bearer token; a key of the cached
\* set, or an unknown one while the set cools down; or a fetch.
Verify(c) ==
  /\ pc[c] = "verify"
  /\ LET t == token[c] IN
     \/ /\ t = NoToken
        /\ pc' = [pc EXCEPT ![c] = "refused"]
        /\ UNCHANGED fetch
     \/ /\ t # NoToken
        /\ Fresh /\ (t.kid = cache \/ CoolingDown)
        /\ pc' = [pc EXCEPT ![c] = Verdict(t, cache)]
        /\ UNCHANGED fetch
     \/ /\ t # NoToken
        /\ ~ (Fresh /\ (t.kid = cache \/ CoolingDown))
        /\ Reload(c)
  /\ UNCHANGED <<clock, processVars, users, call, token, cache, fetchedAt>>

\* GET /.well-known/jwks.json.  A request under way is answered while the server
\* drains.
AnswerJwks ==
  /\ fetch.stage = "sent" /\ auth # "down"
  /\ fetch' = [fetch EXCEPT !.stage = "answered", !.key = key]
  /\ UNCHANGED <<clock, processVars, users, pc, call, token, cache, fetchedAt>>

\* The requests that waited for the fetch are decided.
Resume(outcome(_)) ==
  pc' = [c \in Clients |-> IF pc[c] = "fetch" THEN outcome(c) ELSE pc[c]]

\* The key set arrives.  A key it lacks is not fetched again: it cools down.
FetchArrives ==
  /\ fetch.stage = "answered"
  /\ cache' = fetch.key /\ fetchedAt' = clock /\ fetch' = NoFetch
  /\ Resume(LAMBDA c : Verdict(token[c], fetch.key))
  /\ UNCHANGED <<clock, processVars, users, call, token>>

\* Mutant: a failed fetch is cleared, but nobody who waits is told.
FetchFailsSilently ==
  /\ fetch.stage # "none"
  /\ fetch' = NoFetch
  /\ UNCHANGED <<clock, processVars, users, pc, call, token, cache, fetchedAt>>

\* The fetch fails, by its timeout at the latest: everyone who waits is refused.
FetchFails ==
  /\ fetch.stage # "none"
  /\ fetch' = NoFetch
  /\ Resume(LAMBDA c : "refused")
  /\ UNCHANGED <<clock, processVars, users, call, token, cache, fetchedAt>>

\* The banking API restarts, with no key set.
RestartApi ==
  /\ exits < MaxExits /\ exits' = exits + 1
  /\ cache' = NoKey /\ fetchedAt' = 0 /\ fetch' = NoFetch
  /\ CutOff(ApiSteps)
  /\ UNCHANGED <<clock, auth, key, since, lastServed, users, token>>

=============================================================================
