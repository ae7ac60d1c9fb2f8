---------------------------- MODULE AccessProofs ----------------------------
(***************************************************************************)
(* For every number of clients and keys and every choice of the times: how *)
(* long a retired key is trusted, how soon a new one is, and that owners   *)
(* of an account sign in.                                                  *)
(***************************************************************************)
EXTENDS Access, TLAPS

\* The auth API's calls are in a process that runs.
CallsRun == \A c \in Clients : pc[c] \in AuthSteps => auth # "down"

\* A running process serves its key now.
ServedNow == auth # "down" => key \in Keys /\ lastServed[key] = clock

\* A fetch never outlives its timeout.
FetchInTime == fetch.stage # "none" => clock <= fetch.at + FetchTimeout

\* The key of an answer was in service after the request was sent, and if it
\* has been replaced, then after that too.
AnswerServed ==
  fetch.stage = "answered" =>
    /\ fetch.at <= lastServed[fetch.key]
    /\ fetch.key # key => fetch.at <= since

\* The same of the cached key set, a fetch later.
CacheServed ==
  cache # NoKey =>
    /\ fetchedAt <= lastServed[cache] + FetchTimeout
    /\ cache # key => fetchedAt <= since + FetchTimeout

TrustInv == AccessTypeOK /\ CallsRun /\ ServedNow /\ FetchInTime /\ AnswerServed /\ CacheServed

\* The service starts in step with the verifier's cache: there are no keys yet.
LEMMA InitTrust == AccessInit => TrustInv
  BY AuthAssumption, VerifierAssumption
  DEF AccessInit, AuthInit, VerifierInit, TrustInv, AccessTypeOK, AuthTypeOK, VerifierTypeOK,
      CallsRun, ServedNow, FetchInTime, AnswerServed, CacheServed, NoFetch, AuthSteps, ApiSteps, Outcomes

\* The times and keys that the trust is about; the steps of calls leave them.
times == <<clock, auth, key, since, lastServed, cache, fetchedAt, fetch, exits>>

\* A step of the auth API's calls keeps their types and nothing else changes.
LEMMA CallSteps ==
  ASSUME TrustInv, UNCHANGED times,
         \/ \E e \in Emails, p \in Passwords : SeedAdminUser(e, p)
         \/ \E c \in Clients :
              \/ \E step \in {"insert", "select"}, e \in Emails, p \in Passwords : Begin(c, step, e, p)
              \/ AskMe(c)
              \/ AuthCall(c)
  PROVE  TrustInv'
<1> USE AuthAssumption DEF TrustInv, AccessTypeOK, AuthTypeOK
<1>1. /\ ServedNow' /\ FetchInTime' /\ AnswerServed' /\ CacheServed'
  BY DEF times, ServedNow, FetchInTime, AnswerServed, CacheServed
<1>2. ASSUME NEW e \in Emails, NEW p \in Passwords, SeedAdminUser(e, p)
      PROVE  AccessTypeOK'
  BY <1>2 DEF SeedAdminUser, times, User, VerifierTypeOK
<1>3. ASSUME NEW c \in Clients, NEW step \in {"insert", "select"}, NEW e \in Emails,
             NEW p \in Passwords, Begin(c, step, e, p)
      PROVE  AccessTypeOK'
  BY <1>3 DEF Begin, times, Call, AuthSteps, VerifierTypeOK
<1>4. ASSUME NEW c \in Clients, AskMe(c)
      PROVE  AccessTypeOK'
  BY <1>4 DEF AskMe, times, AuthSteps, VerifierTypeOK
<1>5. ASSUME NEW c \in Clients, Register(c)
      PROVE  AccessTypeOK'
  BY <1>5 DEF Register, Ends, times, Call, User, Emails, Lower, Outcomes, VerifierTypeOK
<1>6. ASSUME NEW c \in Clients, SelectUser(c)
      PROVE  AccessTypeOK'
  <2>1. PICK u \in User \cup {NoUser} : call' = [call EXCEPT ![c].row = u]
    BY <1>6 DEF SelectUser, RowsOf
  <2>2. call[c] \in Call /\ call' = [call EXCEPT ![c] = [call[c] EXCEPT !.row = u]]
    BY <1>6, <2>1 DEF SelectUser
  <2>3. [call[c] EXCEPT !.row = u] \in Call
    BY <2>2 DEF Call
  <2>4. call' \in [Clients -> Call \cup {NoCall}] /\ call'[c] \in Call
    BY <2>2, <2>3
  <2>5. QED
    BY <1>6, <2>2, <2>4 DEF SelectUser, times, AuthSteps, VerifierTypeOK
<1>7. ASSUME NEW c \in Clients, ComparePassword(c)
      PROVE  AccessTypeOK'
  <2>1. /\ call' = [call EXCEPT ![c] = NoCall]
        /\ \E o \in Outcomes : pc' = [pc EXCEPT ![c] = o]
        /\ UNCHANGED <<clock, users>>
    BY <1>7 DEF ComparePassword, Ends, Outcomes
  <2>2. CASE UNCHANGED token
    BY <2>1, <2>2 DEF times, Outcomes, VerifierTypeOK
  <2>3. CASE /\ call[c].row # NoUser
             /\ token' = [token EXCEPT ![c] = SignToken(call[c].row)]
    <3>1. call[c].row \in User
      BY <1>7, <2>3 DEF ComparePassword, Call
    <3>2. key \in Keys
      BY <1>7 DEF ComparePassword, CallsRun, ServedNow, AuthSteps
    <3>3. /\ SignToken(call[c].row) \in Token
          /\ SignToken(call[c].row).exp <= clock + Ttl
      BY <3>1, <3>2 DEF SignToken, Token, User
    <3>4. QED
      BY <2>1, <2>3, <3>3 DEF times, Outcomes, VerifierTypeOK
  <2>4. QED
    BY <1>7, <2>2, <2>3 DEF ComparePassword
<1>8. ASSUME NEW c \in Clients, Me(c)
      PROVE  AccessTypeOK'
  BY <1>8 DEF Me, Ends, times, Outcomes, VerifierTypeOK
<1>9. CallsRun'
  BY DEF CallsRun, times, SeedAdminUser, Begin, AskMe, AuthCall, Register, SelectUser,
         ComparePassword, Me, Ends, AuthSteps, Outcomes
<1>10. QED
  BY <1>1, <1>2, <1>3, <1>4, <1>5, <1>6, <1>7, <1>8, <1>9 DEF AuthCall

\* Time passes, at most to the timeout of a fetch.
LEMMA TickStep == ASSUME TrustInv, Tick PROVE TrustInv'
<1> USE AuthAssumption, VerifierAssumption DEF TrustInv, AccessTypeOK, AuthTypeOK, VerifierTypeOK
<1>1. /\ clock' = clock + 1 /\ lastServed' \in [Keys -> 0 .. clock']
      /\ \A k \in Keys : lastServed'[k] >= lastServed[k]
  BY DEF Tick, ServedNow
<1>2. AccessTypeOK'
  <2>1. \A c \in Clients : token[c] # NoToken => token[c].exp <= clock' + Ttl
    <3>1. \A c \in Clients : token[c] # NoToken => token[c].exp \in Nat
      BY DEF Token
    <3>2. QED
      BY <1>1, <3>1
  <2>2. fetch \in [stage : {"none", "sent", "answered"}, key : Keys \cup {NoKey}, at : 0 .. clock']
    BY <1>1
  <2>3. QED
    BY <1>1, <2>1, <2>2 DEF Tick, verifierVars
<1>3. CallsRun' /\ ServedNow'
  BY <1>1 DEF Tick, CallsRun, ServedNow
<1>4. FetchInTime' /\ AnswerServed' /\ CacheServed'
  BY <1>1 DEF Tick, verifierVars, FetchInTime, AnswerServed, CacheServed
<1>5. QED
  BY <1>2, <1>3, <1>4

\* The auth API starts, with its old key or another, and stops.
LEMMA ProcessSteps ==
  ASSUME TrustInv, UNCHANGED verifierVars,
         (\E k \in Keys \cup {NoKey} : Start(k)) \/ Shutdown \/ Exit \/ Crash
  PROVE  TrustInv'
<1> USE AuthAssumption, VerifierAssumption
    DEF TrustInv, AccessTypeOK, AuthTypeOK, VerifierTypeOK, verifierVars
<1>1. ASSUME NEW configured \in Keys \cup {NoKey}, Start(configured)
      PROVE  TrustInv'
  <2>1. PICK k \in Keys :
          /\ key' = k /\ since' = IF k = key THEN since ELSE clock
          /\ lastServed' = [lastServed EXCEPT ![k] = clock]
    BY <1>1 DEF Start, LoadSigningKeys
  <2>2. AccessTypeOK'
    BY <1>1, <2>1 DEF Start
  <2>3. CallsRun' /\ ServedNow'
    BY <1>1, <2>1 DEF Start, CallsRun, ServedNow
  <2>4. FetchInTime' /\ AnswerServed' /\ CacheServed'
    BY <1>1, <2>1 DEF Start, FetchInTime, AnswerServed, CacheServed
  <2>5. QED
    BY <2>2, <2>3, <2>4
<1>2. CASE Shutdown
  BY <1>2 DEF Shutdown, CallsRun, ServedNow, FetchInTime, AnswerServed, CacheServed
<1>3. CASE Exit \/ Crash
  <2>1. /\ pc' \in [Clients -> AuthSteps \cup ApiSteps \cup Outcomes]
        /\ call' \in [Clients -> Call \cup {NoCall}]
        /\ \A c \in Clients : pc'[c] \notin AuthSteps
        /\ \A c \in Clients : pc'[c] = "fetch" => pc[c] = "fetch"
    BY <1>3 DEF Exit, Crash, CutOff, AuthSteps, Outcomes
  <2>2. AccessTypeOK'
    BY <1>3, <2>1 DEF Exit, Crash, AuthSteps
  <2>3. CallsRun' /\ ServedNow' /\ FetchInTime' /\ AnswerServed' /\ CacheServed'
    BY <1>3, <2>1 DEF Exit, Crash, CallsRun, ServedNow, FetchInTime, AnswerServed, CacheServed
  <2>4. QED
    BY <2>2, <2>3
<1>4. QED
  BY <1>1, <1>2, <1>3

\* A request reaches the gate, and what the gate does with it.
LEMMA GateSteps ==
  ASSUME TrustInv, NEW c \in Clients, Request(c) \/ Verify(c)
  PROVE  TrustInv'
<1> USE AuthAssumption, VerifierAssumption
    DEF TrustInv, AccessTypeOK, AuthTypeOK, VerifierTypeOK, processVars, verifierVars
<1>1. CASE Request(c)
  BY <1>1 DEF Request, CallsRun, ServedNow, FetchInTime, AnswerServed, CacheServed,
              AuthSteps, ApiSteps, Outcomes
<1>2. CASE Verify(c) /\ UNCHANGED fetch
  <2>1. \E o \in {"accepted", "refused", "fetch"} :
          pc' = [pc EXCEPT ![c] = o] /\ (o = "fetch" => fetch.stage # "none")
    BY <1>2 DEF Verify, Verdict, Reload, NoFetch
  <2>2. QED
    BY <1>2, <2>1 DEF Verify, CallsRun, ServedNow, FetchInTime, AnswerServed, CacheServed,
                      AuthSteps, ApiSteps, Outcomes
<1>3. CASE Verify(c) /\ Reload(c) /\ fetch.stage = "none"
  <2>1. /\ fetch' = [stage |-> "sent", key |-> NoKey, at |-> clock]
        /\ pc' = [pc EXCEPT ![c] = "fetch"]
        /\ UNCHANGED <<clock, auth, key, since, lastServed, exits, users, call, token, cache, fetchedAt>>
    BY <1>3 DEF Verify, Reload, NoFetch
  <2>2. /\ fetch' \in [stage : {"none", "sent", "answered"}, key : Keys \cup {NoKey}, at : 0 .. clock]
        /\ pc' \in [Clients -> AuthSteps \cup ApiSteps \cup Outcomes]
    BY <2>1 DEF ApiSteps
  <2>3. AccessTypeOK'
    BY <2>1, <2>2
  <2>4. CallsRun' /\ ServedNow' /\ FetchInTime' /\ AnswerServed' /\ CacheServed'
    BY <2>1 DEF CallsRun, ServedNow, FetchInTime, AnswerServed, CacheServed, AuthSteps
  <2>5. QED
    BY <2>3, <2>4
<1>4. QED
  BY <1>1, <1>2, <1>3 DEF Verify, Reload

\* The key set is asked for, arrives or does not, and is lost in a restart.
LEMMA FetchSteps ==
  ASSUME TrustInv, AnswerJwks \/ FetchArrives \/ FetchFails \/ RestartApi
  PROVE  TrustInv'
<1> USE AuthAssumption, VerifierAssumption
    DEF TrustInv, AccessTypeOK, AuthTypeOK, VerifierTypeOK, processVars
<1>1. CASE AnswerJwks
  <2>1. /\ key \in Keys /\ lastServed[key] = clock
        /\ fetch' = [stage |-> "answered", key |-> key, at |-> fetch.at]
    BY <1>1 DEF AnswerJwks, ServedNow
  <2>2. QED
    BY <1>1, <2>1 DEF AnswerJwks, CallsRun, ServedNow, FetchInTime, AnswerServed, CacheServed
<1>2. CASE FetchArrives \/ FetchFails
  <2>1. /\ pc' \in [Clients -> AuthSteps \cup ApiSteps \cup Outcomes]
        /\ \A c \in Clients :
             /\ pc'[c] # "fetch"
             /\ pc'[c] = pc[c] \/ pc'[c] \in {"accepted", "refused"}
        /\ UNCHANGED <<clock, auth, key, since, lastServed, exits, users, call, token>>
        /\ fetch' = [stage |-> "none", key |-> NoKey, at |-> 0]
        /\ \/ fetch.stage = "answered" /\ cache' = fetch.key /\ fetchedAt' = clock
           \/ UNCHANGED <<cache, fetchedAt>>
    BY <1>2 DEF FetchArrives, FetchFails, Resume, Verdict, Outcomes, NoFetch
  <2>2. AccessTypeOK'
    BY <2>1
  <2>3. CallsRun' /\ ServedNow' /\ FetchInTime' /\ AnswerServed'
    BY <2>1 DEF CallsRun, ServedNow, FetchInTime, AnswerServed, AuthSteps
  <2>4. CacheServed'
    BY <2>1 DEF FetchInTime, AnswerServed, CacheServed
  <2>5. QED
    BY <2>2, <2>3, <2>4
<1>3. CASE RestartApi
  <2>1. /\ pc' \in [Clients -> AuthSteps \cup ApiSteps \cup Outcomes]
        /\ call' \in [Clients -> Call \cup {NoCall}]
        /\ \A c \in Clients :
             /\ pc'[c] # "fetch"
             /\ \/ pc'[c] = pc[c] /\ call'[c] = call[c]
                \/ pc'[c] = "cutOff"
    BY <1>3 DEF RestartApi, CutOff, ApiSteps, Outcomes
  <2>2. AccessTypeOK'
    BY <1>3, <2>1 DEF RestartApi, NoFetch
  <2>3. CallsRun' /\ ServedNow' /\ FetchInTime' /\ AnswerServed' /\ CacheServed'
    BY <1>3, <2>1 DEF RestartApi, NoFetch, CallsRun, ServedNow, FetchInTime, AnswerServed,
                      CacheServed, AuthSteps
  <2>4. QED
    BY <2>2, <2>3
<1>4. QED
  BY <1>1, <1>2, <1>3

\* Every step of the service, of the verifier and of time keeps the account of
\* who served which key when.
LEMMA NextTrust == TrustInv /\ [AccessNext]_accessVars => TrustInv'
<1> SUFFICES ASSUME TrustInv, [AccessNext]_accessVars PROVE TrustInv'
  OBVIOUS
<1>1. CASE UNCHANGED accessVars
  BY <1>1 DEF accessVars, authVars, processVars, verifierVars, TrustInv, AccessTypeOK, AuthTypeOK,
              VerifierTypeOK, CallsRun, ServedNow, FetchInTime, AnswerServed, CacheServed
<1>2. CASE /\ UNCHANGED verifierVars
           /\ \/ \E e \in Emails, p \in Passwords : SeedAdminUser(e, p)
              \/ \E c \in Clients :
                   \/ \E step \in {"insert", "select"}, e \in Emails, p \in Passwords :
                        Begin(c, step, e, p)
                   \/ AskMe(c)
                   \/ AuthCall(c)
  <2>1. UNCHANGED times
    BY <1>2 DEF times, verifierVars, processVars, SeedAdminUser, Begin, AskMe, AuthCall, Register,
                SelectUser, ComparePassword, Me
  <2>2. QED
    BY <1>2, <2>1, CallSteps
<1>3. QED
  BY <1>1, <1>2, TickStep, ProcessSteps, GateSteps, FetchSteps DEF AccessNext

\* Types are kept, and every key that is cached or on its way was in service
\* when it was asked for or later.
THEOREM AccessTypes == AccessSpec => []AccessTypeOK
<1>1. TrustInv => AccessTypeOK
  BY DEF TrustInv
<1>2. QED
  BY InitTrust, NextTrust, <1>1, PTL DEF AccessSpec

\* TrustRunsOut: whatever the clients, the keys and the times, a key that was
\* taken out of service opens no route once the age of the cache and the
\* timeout of a fetch have passed (middleware/auth.ts, createRemoteJwksVerifier).
THEOREM RetiredKeysRunOut == AccessSpec => TrustRunsOut
<1> DEFINE Opens(c) == pc[c] \in ApiSteps /\ pc'[c] = "accepted"
           InTrust(c) == /\ clock < token[c].exp
                         /\ clock < lastServed[token[c].kid] + CacheMaxAge + FetchTimeout
<1>1. ASSUME TrustInv, [AccessNext]_accessVars, NEW c \in Clients, Opens(c)
      PROVE  InTrust(c)
  <2> USE AuthAssumption, VerifierAssumption
      DEF TrustInv, AccessTypeOK, AuthTypeOK, VerifierTypeOK
  <2>1. \/ Verify(c) /\ Fresh /\ Verified(token[c], cache)
        \/ FetchArrives /\ Verified(token[c], fetch.key)
    BY <1>1 DEF AccessNext, accessVars, authVars, processVars, verifierVars, ApiSteps, Outcomes,
                AuthSteps, Tick, Start, Shutdown, Exit, Crash, CutOff, SeedAdminUser, Begin, AskMe,
                AuthCall, Register, SelectUser, ComparePassword, Me, Ends, Request, Verify, Reload,
                Verdict, AnswerJwks, FetchArrives, FetchFails, Resume, RestartApi
  <2>2. CASE Verify(c) /\ Fresh /\ Verified(token[c], cache)
    BY <1>1, <2>2 DEF Fresh, Verified, CacheServed
  <2>3. CASE FetchArrives /\ Verified(token[c], fetch.key)
    BY <1>1, <2>3 DEF FetchArrives, Verified, FetchInTime, AnswerServed
  <2>4. QED
    BY <2>1, <2>2, <2>3
<1>2. TrustInv /\ [AccessNext]_accessVars
        => [\A c \in Clients : pc[c] \in ApiSteps /\ pc'[c] = "accepted" =>
              /\ clock < token[c].exp
              /\ clock < lastServed[token[c].kid] + CacheMaxAge + FetchTimeout]_accessVars
  BY <1>1
<1>3. QED
  BY <1>2, InitTrust, NextTrust, PTL DEF AccessSpec, TrustRunsOut

\* RotationHeals: whatever the clients, the keys and the times, a new key opens
\* every route once the cooldown and the timeout of a fetch have passed, unless
\* its fetch fails.
THEOREM RotationsHeal == AccessSpec => RotationHeals
<1>1. ASSUME TrustInv, [AccessNext]_accessVars, ~ FetchFails,
             NEW c \in Clients, pc[c] \in ApiSteps, pc'[c] = "refused",
             token[c] # NoToken, Verified(token[c], key)
      PROVE  clock < since + Cooldown + FetchTimeout
  <2> USE AuthAssumption, VerifierAssumption
      DEF TrustInv, AccessTypeOK, AuthTypeOK, VerifierTypeOK
  <2>1. \/ cache # key /\ CoolingDown
        \/ fetch.stage = "answered" /\ fetch.key # key
    BY <1>1 DEF AccessNext, accessVars, authVars, processVars, verifierVars, ApiSteps, Outcomes,
                AuthSteps, Tick, Start, Shutdown, Exit, Crash, CutOff, SeedAdminUser, Begin, AskMe,
                AuthCall, Register, SelectUser, ComparePassword, Me, Ends, Request, Verify, Reload,
                Verdict, Verified, AnswerJwks, FetchArrives, Resume, RestartApi
  <2>2. CASE cache # key /\ CoolingDown
    BY <1>1, <2>2 DEF CoolingDown, CacheServed
  <2>3. CASE fetch.stage = "answered" /\ fetch.key # key
    BY <1>1, <2>3 DEF FetchInTime, AnswerServed
  <2>4. QED
    BY <2>1, <2>2, <2>3
<1>2. TrustInv /\ [AccessNext]_accessVars
        => [(\E c \in Clients :
               /\ pc[c] \in ApiSteps /\ pc'[c] = "refused"
               /\ token[c] # NoToken /\ Verified(token[c], key)
               /\ clock >= since + Cooldown + FetchTimeout) => FetchFails]_accessVars
  <2>1. ASSUME TrustInv PROVE /\ clock \in Nat /\ since \in Nat
    BY <2>1 DEF TrustInv, AccessTypeOK, AuthTypeOK
  <2>2. QED
    BY <1>1, <2>1, VerifierAssumption
<1>3. QED
  BY <1>2, InitTrust, NextTrust, PTL DEF AccessSpec, RotationHeals

-----------------------------------------------------------------------------
(* Owners sign in.                                                         *)

\* One row for a mailbox: the unique index on lower(email).
OneRow == \A u, w \in users : Lower(u.email) = Lower(w.email) => u = w

\* Users stay, so whom a login knew when it began is still there.
LogsIn(c) == pc[c] \in {"select", "compare"}
KnownStay == \A c \in Clients : LogsIn(c) => call[c].known \subseteq users

\* A login that compares has read the row of its mailbox, if the owner was
\* there before it began.
RowFound ==
  \A c \in Clients : pc[c] = "compare" =>
    \A u \in call[c].known :
      Lower(u.email) = Lower(call[c].email) => call[c].row = u

OwnersInv == OneRow /\ KnownStay /\ RowFound

\* A row enters only where the index has none, whoever writes it.
LEMMA RowEnters ==
  ASSUME OneRow, NEW email, NEW u, Lower(u.email) = Lower(email), ~ Taken(email),
         users' = users \cup {u}
  PROVE  OneRow'
  BY DEF OneRow, Taken

\* A client that is not at a login afterwards spoils nobody's.
LEMMA LeavesLogin ==
  ASSUME AccessTypeOK, OwnersInv, NEW c \in Clients, NEW step, step \notin {"select", "compare"},
         pc' = [pc EXCEPT ![c] = step],
         \A d \in Clients \ {c} : call'[d] = call[d],
         users \subseteq users'
  PROVE  KnownStay' /\ RowFound'
  BY DEF AccessTypeOK, AuthTypeOK, OwnersInv, KnownStay, RowFound, LogsIn

\* Nor does one that is cut off, or whose request to the banking API is decided.
LEMMA OthersLogin ==
  ASSUME AccessTypeOK, OwnersInv, UNCHANGED users,
         \A c \in Clients : \/ pc'[c] = pc[c] /\ call'[c] = call[c]
                            \/ pc'[c] \notin {"select", "compare"}
  PROVE  OwnersInv'
  BY DEF AccessTypeOK, AuthTypeOK, OwnersInv, OneRow, KnownStay, RowFound, LogsIn

\* Nobody owns an account and nobody logs in when the system starts.
LEMMA InitOwners == AccessInit => OwnersInv
  BY DEF AccessInit, AuthInit, OwnersInv, OneRow, KnownStay, RowFound, LogsIn

\* Every step keeps one row for a mailbox, and the row that a login has read.
LEMMA NextOwners == AccessTypeOK /\ OwnersInv /\ [AccessNext]_accessVars => OwnersInv'
<1> SUFFICES ASSUME AccessTypeOK, OwnersInv, [AccessNext]_accessVars PROVE OwnersInv'
  OBVIOUS
<1> USE DEF AccessTypeOK, AuthTypeOK
<1>1. ASSUME NEW e \in Emails, NEW p \in Passwords, SeedAdminUser(e, p) PROVE OwnersInv'
  <2>1. OneRow'
    <3> DEFINE u == [email |-> e, password |-> p]
    <3>1. Lower(u.email) = Lower(e) /\ users' = users \cup {u} /\ ~ Taken(e)
      BY <1>1 DEF SeedAdminUser
    <3>2. QED
      BY <3>1, RowEnters DEF OwnersInv
  <2>2. KnownStay' /\ RowFound'
    BY <1>1 DEF SeedAdminUser, OwnersInv, KnownStay, RowFound, LogsIn
  <2>3. QED
    BY <2>1, <2>2 DEF OwnersInv
<1>2. ASSUME NEW c \in Clients, NEW step \in {"insert", "select"}, NEW e \in Emails,
             NEW p \in Passwords, Begin(c, step, e, p)
      PROVE  OwnersInv'
  BY <1>2 DEF Begin, OwnersInv, OneRow, KnownStay, RowFound, LogsIn
<1>3. ASSUME NEW c \in Clients, Register(c) PROVE OwnersInv'
  <2>1. CASE Taken(call[c].email)
    BY <1>3, <2>1, LeavesLogin DEF Register, Ends, OwnersInv, OneRow
  <2>2. CASE ~ Taken(call[c].email)
    <3> DEFINE u == [email |-> Lower(call[c].email), password |-> call[c].password]
    <3>1. users' = users \cup {u} /\ Ends(c, "created")
      BY <1>3, <2>2 DEF Register
    <3>2. Lower(u.email) = Lower(call[c].email)
      BY DEF Lower
    <3>3. OneRow'
      BY <2>2, <3>1, <3>2, RowEnters DEF OwnersInv
    <3>4. KnownStay' /\ RowFound'
      BY <3>1, LeavesLogin DEF Ends
    <3>5. QED
      BY <3>3, <3>4 DEF OwnersInv
  <2>3. QED
    BY <2>1, <2>2
<1>4. ASSUME NEW c \in Clients, SelectUser(c) PROVE OwnersInv'
  <2>1. OneRow' /\ KnownStay'
    BY <1>4 DEF SelectUser, OwnersInv, OneRow, KnownStay, LogsIn, Call
  <2>2. call[c] \in Call /\ call[c].known \subseteq users
    BY <1>4 DEF SelectUser, OwnersInv, KnownStay, LogsIn
  <2>3. ASSUME NEW u \in call[c].known, Lower(u.email) = Lower(call[c].email)
        PROVE  call'[c].row = u
    <3>1. u \in RowsOf(call[c].email) /\ \A w \in RowsOf(call[c].email) : w = u
      BY <2>2, <2>3 DEF RowsOf, OwnersInv, OneRow
    <3>2. QED
      BY <1>4, <2>2, <3>1 DEF SelectUser, Call
  <2>4. RowFound'
    BY <1>4, <2>2, <2>3 DEF SelectUser, OwnersInv, RowFound, Call
  <2>5. QED
    BY <2>1, <2>4 DEF OwnersInv
<1>5. ASSUME NEW c \in Clients, ComparePassword(c) \/ Me(c) PROVE OwnersInv'
  BY <1>5, LeavesLogin DEF ComparePassword, Me, Ends, OwnersInv, OneRow
<1>6. ASSUME NEW c \in Clients, AskMe(c) \/ Request(c) \/ Verify(c) PROVE OwnersInv'
  BY <1>6, OthersLogin DEF AskMe, Request, Verify, Reload, Verdict
<1>7. CASE \/ Tick \/ Exit \/ Crash \/ Shutdown \/ AnswerJwks \/ FetchArrives \/ FetchFails
           \/ RestartApi \/ UNCHANGED accessVars \/ \E k \in Keys \cup {NoKey} : Start(k)
  BY <1>7, OthersLogin
  DEF Tick, Exit, Crash, Shutdown, CutOff, AnswerJwks, FetchArrives, FetchFails, Resume, Verdict,
      RestartApi, Start, accessVars, authVars, verifierVars
<1>8. QED
  BY <1>1, <1>2, <1>3, <1>4, <1>5, <1>6, <1>7 DEF AccessNext, AuthCall

\* OwnersSignIn: whoever had an account before they began to log in, and gives
\* its password, is not refused, however the address is spelled and whoever
\* registers meanwhile (verifyCredentials, users_email_uq).
THEOREM OwnersAlwaysSignIn == AccessSpec => OwnersSignIn
<1>1. ASSUME AccessTypeOK, OwnersInv, [AccessNext]_accessVars,
             NEW c \in Clients, pc[c] = "compare", pc'[c] = "refused",
             NEW u \in call[c].known, Lower(u.email) = Lower(call[c].email),
             u.password = call[c].password
      PROVE  FALSE
  <2>1. ComparePassword(c)
    <3> USE DEF AccessTypeOK, AuthTypeOK
    <3>1. ~ UNCHANGED pc /\ pc[c] \notin Outcomes
      BY <1>1 DEF Outcomes
    <3>2. ASSUME NEW d \in Clients, \/ Register(d) \/ SelectUser(d) \/ Me(d)
                                   \/ Request(d) \/ Verify(d) \/ AskMe(d)
          PROVE  FALSE
      BY <1>1, <3>1, <3>2 DEF Register, SelectUser, Me, Ends, Request, Verify, Reload, AskMe
    <3>3. ASSUME NEW d \in Clients, ComparePassword(d) PROVE d = c
      BY <1>1, <3>3 DEF ComparePassword, Ends
    <3>4. ASSUME NEW d \in Clients, NEW step, NEW e, NEW p, Begin(d, step, e, p) PROVE FALSE
      BY <1>1, <3>1, <3>4 DEF Begin
    <3>5. ~ (Exit \/ Crash \/ RestartApi \/ FetchArrives \/ FetchFails)
      BY <1>1 DEF Exit, Crash, RestartApi, CutOff, FetchArrives, FetchFails, Resume
    <3>6. \/ Exit \/ Crash \/ RestartApi \/ FetchArrives \/ FetchFails
          \/ \E d \in Clients :
               \/ \E step \in {"insert", "select"}, e \in Emails, p \in Passwords :
                    Begin(d, step, e, p)
               \/ Register(d) \/ SelectUser(d) \/ Me(d) \/ ComparePassword(d)
               \/ Request(d) \/ Verify(d) \/ AskMe(d)
      BY <1>1, <3>1
      DEF AccessNext, AuthCall, accessVars, authVars, Tick, Start, Shutdown, SeedAdminUser, AnswerJwks
    <3>7. QED
      BY <3>2, <3>3, <3>4, <3>5, <3>6
  <2>2. call[c].row = u /\ u \in User
    BY <1>1 DEF OwnersInv, RowFound, KnownStay, LogsIn, AccessTypeOK, AuthTypeOK
  <2>3. pc'[c] = "signedIn"
    BY <1>1, <2>1, <2>2, NoUserAssumption
    DEF ComparePassword, Ends, AccessTypeOK, AuthTypeOK
  <2>4. QED
    BY <1>1, <2>3
<1>2. AccessTypeOK /\ OwnersInv /\ [AccessNext]_accessVars
        => [\A c \in Clients :
              pc[c] = "compare" /\ pc'[c] = "refused" =>
                ~ \E u \in call[c].known : /\ Lower(u.email) = Lower(call[c].email)
                                           /\ u.password = call[c].password]_accessVars
  BY <1>1
<1>3. QED
  BY <1>2, AccessTypes, InitOwners, NextOwners, PTL DEF AccessSpec, OwnersSignIn

=============================================================================
