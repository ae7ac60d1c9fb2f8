------------------------------- MODULE Access -------------------------------
(***************************************************************************)
(* Who gets in: the auth API, the banking API's verifier, the key they      *)
(* share by JWKS, and the time both go by.                                  *)
(***************************************************************************)
EXTENDS TokenVerifier

accessVars == <<authVars, verifierVars>>

AccessTypeOK == AuthTypeOK /\ VerifierTypeOK

AccessInit == AuthInit /\ VerifierInit

\* Time passes, but a fetch that is due to time out comes first.
Tick ==
  /\ IF fetch.stage = "none" THEN clock < MaxTime ELSE clock < fetch.at + FetchTimeout
  /\ clock' = clock + 1
  /\ lastServed' = IF auth = "down" THEN lastServed ELSE [lastServed EXCEPT ![key] = clock + 1]
  /\ UNCHANGED <<auth, key, since, exits, users, pc, call, token, verifierVars>>

AccessNext ==
  \/ Tick
  \/ /\ \/ \E k \in Keys \cup {NoKey} : Start(k)
        \/ Shutdown \/ Exit \/ Crash
        \/ \E e \in Emails, p \in Passwords : SeedAdminUser(e, p)
        \/ \E c \in Clients :
             \/ \E step \in {"insert", "select"}, e \in Emails, p \in Passwords : Begin(c, step, e, p)
             \/ AskMe(c)
             \/ AuthCall(c)
     /\ UNCHANGED verifierVars
  \/ \E c \in Clients : Request(c) \/ Verify(c)
  \/ AnswerJwks \/ FetchArrives \/ FetchFails \/ RestartApi

AccessSpec == AccessInit /\ [][AccessNext]_accessVars

-----------------------------------------------------------------------------

\* Somebody whose account existed when they began to log in, and who gives its
\* password, is not refused, however they or the deployment spelled the address.
OwnersSignIn ==
  [][\A c \in Clients :
       pc[c] = "compare" /\ pc'[c] = "refused" =>
         ~ \E u \in call[c].known : /\ Lower(u.email) = Lower(call[c].email)
                                    /\ u.password = call[c].password]_accessVars

\* A request that gets in carries a token that has not expired, even if it
\* waited for keys, and whose key was in service less than the age of the cache
\* and the timeout of a fetch ago: trust in a retired key runs out.
TrustRunsOut ==
  [][\A c \in Clients :
       pc[c] \in ApiSteps /\ pc'[c] = "accepted" =>
         /\ clock < token[c].exp
         /\ clock < lastServed[token[c].kid] + CacheMaxAge + FetchTimeout]_accessVars

\* A rotation heals: once a key has been in service for the cooldown and the
\* timeout of a fetch, no valid token it signed is refused, unless the fetch of
\* the keys failed.
RotationHeals ==
  [][(\E c \in Clients :
        /\ pc[c] \in ApiSteps /\ pc'[c] = "refused"
        /\ token[c] # NoToken /\ Verified(token[c], key)
        /\ clock >= since + Cooldown + FetchTimeout) => FetchFails]_accessVars

=============================================================================
