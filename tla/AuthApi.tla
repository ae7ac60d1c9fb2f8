------------------------------- MODULE AuthApi -------------------------------
(***************************************************************************)
(* apps/auth-api: the users table, the process with its signing key, and   *)
(* the calls that register, log in and ask who is behind a token.  A call  *)
(* awaits bcrypt and the database, so calls interleave, and a stop of the  *)
(* process cuts them off.  A password stands for its hash.                 *)
(***************************************************************************)
EXTENDS Integers, FiniteSets

CONSTANTS
  Clients,     \* callers, of this service and of the banking API
  Mailboxes,
  Passwords,
  Keys,        \* key pairs; a JWKS names one by its thumbprint
  NoKey, NoUser, NoToken, NoCall,
  Ttl,         \* JWT_TTL_SECONDS, in ticks of the clock
  Production,  \* NODE_ENV = production
  MaxTime,     \* bound: no call begins later
  MaxExits     \* bound: stops of a process

ASSUME AuthAssumption ==
  /\ NoKey \notin Keys
  /\ Ttl \in Nat \ {0} /\ MaxTime \in Nat /\ MaxExits \in Nat
  /\ Production \in BOOLEAN

VARIABLES
  clock,
  auth,        \* the process
  key,         \* the signing key it runs, or ran last
  since,       \* when that key came into service
  lastServed,  \* history, per key: when it was last in service; 0 for never
  users,
  pc,          \* per client, where its call is
  call,        \* per client, what it asked and what was read for it
  token,       \* per client, the token it got last
  exits

processVars == <<auth, key, since, lastServed, exits>>
authVars == <<clock, processVars, users, pc, call, token>>

\* An address as somebody typed it, and as it is compared.
Emails == Mailboxes \X {"lower", "mixed"}
Lower(email) == <<email[1], "lower">>

User == [email : Emails, password : Passwords]

ASSUME NoUserAssumption == NoUser \notin User

Token == [sub : Emails, kid : Keys, exp : Nat]
Call == [email : Emails, password : Passwords, row : User \cup {NoUser}, known : SUBSET User]

AuthSteps == {"insert", "select", "compare", "me"}
ApiSteps == {"verify", "fetch"}
Outcomes == {"idle", "created", "conflict", "signedIn", "accepted", "refused", "cutOff"}

AuthTypeOK ==
  /\ clock \in Nat \ {0} /\ since \in 0 .. clock
  /\ key \in Keys \cup {NoKey}
  /\ auth \in {"up", "draining", "down"}
  /\ lastServed \in [Keys -> 0 .. clock]
  /\ users \subseteq User
  /\ pc \in [Clients -> AuthSteps \cup ApiSteps \cup Outcomes]
  /\ call \in [Clients -> Call \cup {NoCall}]
  /\ token \in [Clients -> Token \cup {NoToken}]
  /\ \A c \in Clients :
       /\ pc[c] \in {"insert", "select", "compare"} => call[c] \in Call
       /\ token[c] # NoToken => token[c].exp <= clock + Ttl
  /\ exits \in 0 .. MaxExits

AuthInit ==
  /\ clock = 1
  /\ auth = "down"
  /\ key = NoKey /\ since = 0
  /\ lastServed = [k \in Keys |-> 0]
  /\ users = {}
  /\ pc = [c \in Clients |-> "idle"]
  /\ call = [c \in Clients |-> NoCall]
  /\ token = [c \in Clients |-> NoToken]
  /\ exits = 0

-----------------------------------------------------------------------------
(* The process and its key.                                                *)

\* loadSigningKeys, with what JWT_PRIVATE_KEY_FILE or JWT_PRIVATE_KEY holds: that
\* key; without one a fresh key pair, which production refuses.
LoadSigningKeys(configured) ==
  IF configured # NoKey THEN {configured}
  ELSE {k \in Keys : ~ Production /\ lastServed[k] = 0}

\* A key is rotated by starting the process with another one.
Start(configured) ==
  /\ auth = "down"
  /\ \E k \in LoadSigningKeys(configured) :
       /\ key' = k
       /\ since' = IF k = key THEN since ELSE clock
       /\ lastServed' = [lastServed EXCEPT ![k] = clock]
  /\ auth' = "up"
  /\ UNCHANGED <<clock, exits, users, pc, call, token>>

\* SIGTERM: the server takes no new connections and lets its calls finish.
Shutdown ==
  /\ auth = "up" /\ exits < MaxExits
  /\ auth' = "draining" /\ exits' = exits + 1
  /\ UNCHANGED <<clock, key, since, lastServed, users, pc, call, token>>

\* The calls at steps S are gone: the connection breaks.
CutOff(S) ==
  /\ pc' = [c \in Clients |-> IF pc[c] \in S THEN "cutOff" ELSE pc[c]]
  /\ call' = [c \in Clients |-> IF pc[c] \in S THEN NoCall ELSE call[c]]

\* The server has closed, or the hard exit cuts off what still runs.
Exit ==
  /\ auth = "draining"
  /\ auth' = "down"
  /\ CutOff(AuthSteps)
  /\ UNCHANGED <<clock, key, since, lastServed, exits, users, token>>

Crash ==
  /\ auth = "up" /\ exits < MaxExits
  /\ auth' = "down" /\ exits' = exits + 1
  /\ CutOff(AuthSteps)
  /\ UNCHANGED <<clock, key, since, lastServed, users, token>>

-----------------------------------------------------------------------------
(* Users.                                                                  *)

\* users_email_uq: one row for each lower(email).
Taken(email) == \E u \in users : Lower(u.email) = Lower(email)

\* seedAdminUser, at a deployment: the address of ADMIN_EMAIL as it is, unless
\* the index has it.
SeedAdminUser(email, password) ==
  /\ ~ Taken(email)
  /\ users' = users \cup {[email |-> email, password |-> password]}
  /\ UNCHANGED <<clock, processVars, pc, call, token>>

\* A client calls register or login.
Begin(c, step, email, password) ==
  /\ pc[c] \in Outcomes /\ auth = "up" /\ clock < MaxTime
  /\ pc' = [pc EXCEPT ![c] = step]
  /\ call' = [call EXCEPT ![c] =
       [email |-> email, password |-> password, row |-> NoUser, known |-> users]]
  /\ UNCHANGED <<clock, processVars, users, token>>

Ends(c, outcome) ==
  /\ pc' = [pc EXCEPT ![c] = outcome]
  /\ call' = [call EXCEPT ![c] = NoCall]

\* register, once the password is hashed: insert, or 409 EMAIL_TAKEN.
Register(c) ==
  /\ pc[c] = "insert"
  /\ IF Taken(call[c].email)
       THEN Ends(c, "conflict") /\ UNCHANGED users
       ELSE /\ users' = users \cup {[email |-> Lower(call[c].email), password |-> call[c].password]}
            /\ Ends(c, "created")
  /\ UNCHANGED <<clock, processVars, token>>

\* Mutant: the stored address is compared as it is.
RowsOfTyped(email) == {u \in users : u.email = Lower(email)}

\* The rows that an address finds.
RowsOf(email) == {u \in users : Lower(u.email) = Lower(email)}

\* verifyCredentials reads the first row that matches, if any.
SelectUser(c) ==
  /\ pc[c] = "select"
  /\ LET rows == RowsOf(call[c].email) IN
     \E u \in IF rows = {} THEN {NoUser} ELSE rows :
       call' = [call EXCEPT ![c].row = u]
  /\ pc' = [pc EXCEPT ![c] = "compare"]
  /\ UNCHANGED <<clock, processVars, users, token>>

SignToken(user) == [sub |-> user.email, kid |-> key, exp |-> clock + Ttl]

\* bcrypt.compare with the row's hash, or with a dummy; then the token.
ComparePassword(c) ==
  /\ pc[c] = "compare"
  /\ LET user == call[c].row IN
     IF user # NoUser /\ user.password = call[c].password
       THEN token' = [token EXCEPT ![c] = SignToken(user)] /\ Ends(c, "signedIn")
       ELSE UNCHANGED token /\ Ends(c, "refused")
  /\ UNCHANGED <<clock, processVars, users>>

-----------------------------------------------------------------------------
(* GET /auth/me.                                                           *)

AskMe(c) ==
  /\ pc[c] \in Outcomes /\ auth = "up" /\ clock < MaxTime
  /\ token[c] # NoToken
  /\ pc' = [pc EXCEPT ![c] = "me"]
  /\ UNCHANGED <<clock, processVars, users, call, token>>

\* jwtVerify under one key: its signature, and its time.
Verified(t, k) == t.kid = k /\ clock < t.exp

\* getById; the address stands for the id.
UserExists(sub) == \E u \in users : u.email = sub

\* verifyToken with the service's own key, then getById.
Me(c) ==
  /\ pc[c] = "me"
  /\ Ends(c, IF Verified(token[c], key) /\ UserExists(token[c].sub)
               THEN "accepted" ELSE "refused")
  /\ UNCHANGED <<clock, processVars, users, token>>

AuthCall(c) == Register(c) \/ SelectUser(c) \/ ComparePassword(c) \/ Me(c)

=============================================================================
