----------------------------- MODULE OpenApiMerge -----------------------------
(***************************************************************************)
(* packages/shared/src/openapi/merge.ts: several OpenAPI documents made    *)
(* into one.                                                               *)
(*                                                                         *)
(* The item of a path and a schema are nodes: their text, and the schema   *)
(* they refer to.  One reference is enough, since each is rewritten by     *)
(* itself.  Of the sections of components only schemas are referred to by  *)
(* $ref in the documents the services build (registry.ts).  A name is a    *)
(* sequence, and name_2 is the name with a 2 behind.                       *)
(***************************************************************************)
EXTENDS Integers, Sequences, SequencesExt

Node(text, ref) == [text |-> text, ref |-> ref]

NoName    == << >>   \* of a node without a reference: no name is empty
IsName(x) == x # NoName /\ Len(x) \in Nat /\ x = [i \in 1 .. Len(x) |-> x[i]]

-----------------------------------------------------------------------------
(* The names of extra that stand for something else in merged.             *)

Conflicts(merged, extra) ==
  {x \in DOMAIN merged.schemas \cap DOMAIN extra.schemas :
     merged.schemas[x] # extra.schemas[x]}

\* Mutant: the new name is free in the target alone.
FreeInTarget(name, merged, extra) ==
  LET taken == DOMAIN merged.schemas
  IN  Append(name, Min({n \in 2 .. Cardinality(taken) + 2 : Append(name, n) \notin taken}))

\* The first name_2, name_3, ... that neither document has.
FreeName(name, merged, extra) ==
  LET taken == DOMAIN merged.schemas \cup DOMAIN extra.schemas
  IN  Append(name, Min({n \in 2 .. Cardinality(taken) + 2 : Append(name, n) \notin taken}))

\* The name that name of extra has in the merged document.
FinalName(name, merged, extra) ==
  IF name \in Conflicts(merged, extra) THEN FreeName(name, merged, extra) ELSE name

\* rewriteRefs: over all of extra, before any of it is taken over.
Rewritten(node, merged, extra) ==
  [node EXCEPT !.ref = FinalName(@, merged, extra)]

\* Where both have a path or a name, the target keeps its own.
Extended(target, source) ==
  [x \in DOMAIN target \cup DOMAIN source |-> IF x \in DOMAIN target THEN target[x] ELSE source[x]]

\* One document more.
MergeDocument(merged, extra) ==
  LET Final(x)   == FinalName(x, merged, extra)
      Rewrite(n) == Rewritten(n, merged, extra)
      finals     == {Final(x) : x \in DOMAIN extra.schemas}
      Source(y)  == CHOOSE x \in DOMAIN extra.schemas : Final(x) = y
  IN
  [paths   |-> Extended(merged.paths, [p \in DOMAIN extra.paths |-> Rewrite(extra.paths[p])]),
   schemas |-> Extended(merged.schemas, [y \in finals |-> Rewrite(extra.schemas[Source(y)])])]

mergeOpenApiDocuments(base, extras) ==
  LET merged[i \in 0 .. Len(extras)] ==
        IF i = 0 THEN base ELSE MergeDocument(merged[i - 1], extras[i])
  IN  merged[Len(extras)]

-----------------------------------------------------------------------------
(* What a reader of a document understands, to check the merge against.    *)

\* The node a reference leads to.
Follow(doc, node) ==
  IF node.ref \in DOMAIN doc.schemas THEN doc.schemas[node.ref]
  ELSE Node(IF node.ref = NoName THEN "end" ELSE "missing", NoName)

\* The nodes a reader sees who follows the references, up to n of them.
Chain(doc, node, n) ==
  LET at[i \in 0 .. n] == IF i = 0 THEN node ELSE Follow(doc, at[i - 1]) IN at

\* What they say.
Meaning(doc, node, n) == LET at == Chain(doc, node, n) IN [i \in 0 .. n |-> at[i].text]

\* Every reference leads somewhere.
Closed(doc) ==
  \A f \in {doc.paths, doc.schemas} : \A x \in DOMAIN f :
    f[x].ref \in DOMAIN doc.schemas \cup {NoName}

IsDocument(doc) ==
  /\ DOMAIN doc = {"paths", "schemas"}
  /\ IsFiniteSet(DOMAIN doc.schemas) /\ \A x \in DOMAIN doc.schemas : IsName(x)
  /\ \A f \in {doc.paths, doc.schemas} : \A x \in DOMAIN f : f[x] = Node(f[x].text, f[x].ref)
  /\ Closed(doc)

=============================================================================
