------------------------------ MODULE DocsRouter ------------------------------
(***************************************************************************)
(* createDocsRouter (packages/shared/src/openapi/docs-router.ts): the      *)
(* document a service answers with, merged with those of other services,   *)
(* which start, fail and are deployed anew while requests are under way.   *)
(***************************************************************************)
EXTENDS OpenApiMerge

CONSTANTS
  Services,    \* what mergeSpecUrls can name
  UrlLists,    \* values of mergeSpecUrls
  Requests,
  Locals,      \* documents the service may build from its routes
  Specs,       \* per service, the documents it may answer with
  MaxDeploys,  \* bound: services deployed anew, or this one started again
  Depth        \* bound: references followed from a route

ASSUME DocsAssumption ==
  /\ UrlLists \subseteq Seq(Services)
  /\ DOMAIN Specs = Services
  /\ \A doc \in Locals \cup UNION {Specs[u] : u \in Services} : IsDocument(doc)
  /\ MaxDeploys \in Nat /\ Depth \in Nat

VARIABLES
  mergeSpecUrls,
  localDocument,
  cache,
  request,       \* per request: where it is, what was fetched and the answer
  spec,          \* per service, its present document
  served,        \* history: per service, the documents it has had
  deploys

docsVars == <<mergeSpecUrls, localDocument, cache, request, spec, served, deploys>>

Urls  == ToSet(mergeSpecUrls)
NoDoc == [document |-> "none"]
NoRequest == [pc |-> "idle", remotes |-> << >>, answer |-> NoDoc]

DocsTypeOK ==
  /\ \A r \in Requests :
       /\ request[r].pc \in {"idle", "fetch", "done"}
       /\ request[r].pc = "idle" => request[r] = NoRequest
       /\ request[r].pc = "done" <=> request[r].answer # NoDoc
       /\ DOMAIN request[r].remotes \subseteq Urls
       /\ \A u \in DOMAIN request[r].remotes : request[r].remotes[u] \in served[u] \cup {NoDoc}
  /\ \A u \in Services : spec[u] \in served[u] /\ served[u] \subseteq Specs[u]
  /\ deploys \in 0 .. MaxDeploys

DocsInit ==
  /\ mergeSpecUrls \in UrlLists
  /\ localDocument \in Locals
  /\ cache = NoDoc
  /\ request = [r \in Requests |-> NoRequest]
  /\ spec \in [Services -> UNION {Specs[u] : u \in Services}]
  /\ \A u \in Services : spec[u] \in Specs[u]
  /\ served = [u \in Services |-> {spec[u]}]
  /\ deploys = 0

-----------------------------------------------------------------------------
(* getDocument.                                                            *)

Answer(r, doc) == request' = [request EXCEPT ![r].pc = "done", ![r].answer = doc]
RequestFrame == UNCHANGED <<mergeSpecUrls, localDocument, spec, served, deploys>>

\* Up to the await: nothing to merge, already cached, or every source is asked.
GetDocument(r) ==
  /\ request[r].pc = "idle"
  /\ CASE mergeSpecUrls = << >>                   -> Answer(r, localDocument)
       [] mergeSpecUrls # << >> /\ cache # NoDoc -> Answer(r, cache)
       [] OTHER                                   -> request' = [request EXCEPT ![r].pc = "fetch"]
  /\ UNCHANGED cache /\ RequestFrame

\* fetchSpec: the document a service has now, or nothing when it does not answer
\* or answers with an error.
FetchSpec(r, u) ==
  /\ request[r].pc = "fetch" /\ u \in Urls \ DOMAIN request[r].remotes
  /\ \E doc \in {spec[u], NoDoc} :
       request' = [request EXCEPT ![r].remotes = Extended(@, [v \in {u} |-> doc])]
  /\ UNCHANGED cache /\ RequestFrame

\* What was fetched, in the order of the urls.
Present(remotes, urls) ==
  LET present[i \in 0 .. Len(urls)] ==
        IF i = 0 THEN << >>
        ELSE IF remotes[urls[i]] = NoDoc THEN present[i - 1]
        ELSE Append(present[i - 1], remotes[urls[i]])
  IN  present[Len(urls)]

Fetched(r) == Present(request[r].remotes, mergeSpecUrls)

\* Mutant: what is merged is cached.
CachesAnyway(r) == TRUE

\* Cached only once every source answered.
EveryAnswered(r) == \A u \in Urls : request[r].remotes[u] # NoDoc

MergeDocuments(r) ==
  /\ request[r].pc = "fetch" /\ DOMAIN request[r].remotes = Urls
  /\ LET merged == mergeOpenApiDocuments(localDocument, Fetched(r)) IN
       /\ Answer(r, merged)
       /\ cache' = IF EveryAnswered(r) THEN merged ELSE cache
  /\ RequestFrame

\* Mutant: the next request finds what this one fetched.
CloseKeepsRemotes(r) ==
  /\ request[r].pc = "done"
  /\ request' = [request EXCEPT ![r].pc = "idle", ![r].answer = NoDoc]
  /\ UNCHANGED cache /\ RequestFrame

Close(r) ==
  /\ request[r].pc = "done"
  /\ request' = [request EXCEPT ![r] = NoRequest]
  /\ UNCHANGED cache /\ RequestFrame

-----------------------------------------------------------------------------
(* The services.                                                           *)

\* One of the others is deployed with other routes.
Deploy(u) ==
  /\ u \in Urls
  /\ deploys < MaxDeploys /\ deploys' = deploys + 1
  /\ \E doc \in Specs[u] \ {spec[u]} :
       /\ spec' = [spec EXCEPT ![u] = doc]
       /\ served' = [served EXCEPT ![u] = @ \cup {doc}]
  /\ UNCHANGED <<mergeSpecUrls, localDocument, cache, request>>

\* This one is started again.
Restart ==
  /\ deploys < MaxDeploys /\ deploys' = deploys + 1
  /\ cache' = NoDoc
  /\ request' = [r \in Requests |-> NoRequest]
  /\ UNCHANGED <<mergeSpecUrls, localDocument, spec, served>>

DocsNext ==
  \/ \E r \in Requests :
       \/ GetDocument(r) \/ MergeDocuments(r) \/ Close(r)
       \/ \E u \in Services : FetchSpec(r, u)
  \/ \E u \in Services : Deploy(u)
  \/ Restart

DocsSpec == DocsInit /\ [][DocsNext]_docsVars

-----------------------------------------------------------------------------

\* A request none of whose sources fails is answered with the routes of all of
\* them, whatever other requests met before: one that failed is retried on the
\* next request, so services that start later still show up (docs-router.ts:15).
AnswersAreWhole ==
  \A r \in Requests :
    request[r].pc = "done" /\ NoDoc \notin Range(request[r].remotes) =>
      \A u \in Urls : \E doc \in served[u] :
        DOMAIN doc.paths \subseteq DOMAIN request[r].answer.paths

\* The document that extra i was merged into.
Before(r, i) == mergeOpenApiDocuments(localDocument, SubSeq(Fetched(r), 1, i - 1))

\* From the node one gets to a schema that merged has word for word, and that
\* refers to one in which they differ.
SharedOnTheWay(merged, extra, node) ==
  \E i \in 1 .. Depth :
    LET schema == Chain(extra, node, Depth)[i] IN
    /\ schema.ref \in Conflicts(merged, extra)
    /\ Chain(extra, node, Depth)[i - 1].ref \in DOMAIN merged.schemas \ Conflicts(merged, extra)

\* In the merged document, as if the routes belonged to a single app
\* (merge.ts:82-86), no reference is lost, this service's routes mean what they
\* mean in its own document, and so do the others', except through a schema that
\* two documents share while they differ in what it refers to.
RoutesKeepTheirMeaning ==
  \A r \in Requests : request[r].pc = "done" /\ DOMAIN request[r].remotes = Urls =>
    LET doc == request[r].answer IN
    /\ Closed(doc)
    /\ \A p \in DOMAIN localDocument.paths :
         Meaning(doc, doc.paths[p], Depth) = Meaning(localDocument, localDocument.paths[p], Depth)
    /\ \A i \in DOMAIN Fetched(r) : LET extra == Fetched(r)[i] IN
         \A p \in DOMAIN extra.paths \ DOMAIN Before(r, i).paths :
           \/ SharedOnTheWay(Before(r, i), extra, extra.paths[p])
           \/ Meaning(doc, doc.paths[p], Depth) = Meaning(extra, extra.paths[p], Depth)

=============================================================================
