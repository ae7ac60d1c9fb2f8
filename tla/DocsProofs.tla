------------------------------ MODULE DocsProofs ------------------------------
(***************************************************************************)
(* Proofs about DocsRouter for any number of services, requests and        *)
(* deployments and any documents in which no reference is dangling: an     *)
(* answer has the routes of all the sources that answered, no reference in *)
(* it is lost, and its routes mean what they mean in their own documents.  *)
(***************************************************************************)
EXTENDS DocsRouter, FiniteSetTheorems, SequenceTheorems, WellFoundedInduction, TLAPS

-----------------------------------------------------------------------------
(* Numbers.                                                                *)

\* A set of naturals has a least element, which Min chooses.
LEMMA MinIn ==
  ASSUME NEW S, S \subseteq Nat, S # {}
  PROVE  Min(S) \in S /\ \A y \in S : Min(S) <= y
  <1> DEFINE Less == OpToRel(<, Nat)
  <1>1. \E x \in S : \A y \in S : ~ (<<y, x>> \in Less)
    <2>1. IsWellFoundedOn(Less, Nat)
      BY NatLessThanWellFounded
    <2> HIDE DEF Less
    <2> QED
      BY <2>1, WFMin
  <1>2. \E x \in S : \A y \in S : x <= y
    <2>1. PICK x \in S : \A y \in S : ~ (<<y, x>> \in Less)
      BY <1>1
    <2>2. \A y \in S : ~ (y < x)
      BY <2>1 DEF OpToRel
    <2> QED
      BY <2>2
  <1> QED
    BY <1>2 DEF Min

\* Induction up to a number.
LEMMA UpTo ==
  ASSUME NEW N \in Nat, NEW S, 0 \in S,
         \A n \in 0 .. N - 1 : n \in S => n + 1 \in S
  PROVE  N \in S
  <1> DEFINE Bad == {n \in 0 .. N : n \notin S}
  <1>1. SUFFICES ASSUME Bad # {} PROVE FALSE
    OBVIOUS
  <1>2. PICK n \in Bad : \A k \in Bad : n <= k
    <2>1. Bad \subseteq Nat
      OBVIOUS
    <2> HIDE DEF Bad
    <2> QED
      BY <1>1, <2>1, MinIn
  <1>3. n - 1 \in 0 .. N - 1 /\ n - 1 \notin Bad
    BY <1>2
  <1>4. n - 1 \in S
    BY <1>3
  <1>5. (n - 1) + 1 \in S
    BY <1>3, <1>4
  <1> QED
    BY <1>2, <1>5

-----------------------------------------------------------------------------
(* Names.                                                                  *)

\* Every sequence but the empty one is a name.
LEMMA SequenceIsName ==
  ASSUME NEW A, NEW s \in Seq(A), s # << >>
  PROVE  IsName(s)
  <1>1. Len(s) \in Nat /\ s \in [1 .. Len(s) -> A]
    BY LenProperties
  <1>2. s = [i \in 1 .. Len(s) |-> s[i]]
    BY <1>1
  <1> QED
    BY <1>1, <1>2 DEF IsName, NoName

\* A name with a number behind is a name, and tells both.
LEMMA Numbered ==
  ASSUME NEW x, IsName(x), NEW n \in Nat
  PROVE  IsName(Append(x, n))
  <1> DEFINE A == {x[i] : i \in 1 .. Len(x)} \cup Nat
  <1>1. x \in Seq(A) /\ Len(x) \in Nat
    BY DEF IsName
  <1>2. Append(x, n) \in Seq(A) /\ Append(x, n) # << >>
    BY <1>1, AppendProperties
  <1> QED
    BY <1>2, SequenceIsName

\* What is numbered can be told from it.
LEMMA NumbersTell ==
  ASSUME NEW x, IsName(x), NEW y, IsName(y), NEW n \in Nat, NEW k \in Nat,
         Append(x, n) = Append(y, k)
  PROVE  x = y /\ n = k
  <1> DEFINE A == {x[i] : i \in 1 .. Len(x)} \cup {y[i] : i \in 1 .. Len(y)} \cup Nat
  <1>1. x \in Seq(A) /\ y \in Seq(A)
    BY DEF IsName
  <1> HIDE DEF A
  <1>2. n \in A /\ k \in A
    BY DEF A
  <1> QED
    BY <1>1, <1>2, AppendInjective

-----------------------------------------------------------------------------
(* One document more.                                                      *)

\* There is a free name among as many as there are names taken, and one more.
LEMMA NameIsFree ==
  ASSUME NEW M, NEW X, IsDocument(M), IsDocument(X), NEW x \in DOMAIN X.schemas
  PROVE  /\ \E k \in Nat : FreeName(x, M, X) = Append(x, k)
         /\ FreeName(x, M, X) \notin DOMAIN M.schemas \cup DOMAIN X.schemas
  <1> DEFINE taken == DOMAIN M.schemas \cup DOMAIN X.schemas
             c     == Cardinality(taken)
             free  == {n \in 2 .. c + 2 : Append(x, n) \notin taken}
  <1>1. IsFiniteSet(taken) /\ c \in Nat
    BY FS_Union, FS_CardinalityType DEF IsDocument
  <1>2. IsName(x)
    BY DEF IsDocument
  <1>3. FreeName(x, M, X) = Append(x, Min(free))
    BY DEF FreeName
  <1> HIDE DEF c, taken
  <1>4. free # {}
    <2>1. SUFFICES ASSUME \A n \in 2 .. c + 2 : Append(x, n) \in taken PROVE FALSE
      OBVIOUS
    <2> DEFINE f == [n \in 2 .. c + 2 |-> Append(x, n)]
    <2>2. f \in [2 .. c + 2 -> taken]
      BY <2>1
    <2>3. IsFiniteSet(2 .. c + 2) /\ Cardinality(2 .. c + 2) = c + 1
      BY <1>1, FS_Interval
    <2>4. Cardinality(taken) < Cardinality(2 .. c + 2)
      BY <1>1, <2>3 DEF c
    <2> HIDE DEF f
    <2>5. PICK n, k \in 2 .. c + 2 : n # k /\ f[n] = f[k]
      BY <1>1, <2>2, <2>3, <2>4, FS_PigeonHole
    <2>6. Append(x, n) = Append(x, k)
      BY <2>5 DEF f
    <2> QED
      BY <1>1, <1>2, <2>5, <2>6, NumbersTell
  <1>5. Min(free) \in free
    <2>1. free \subseteq Nat
      BY <1>1
    <2> HIDE DEF free
    <2> QED
      BY <1>4, <2>1, MinIn
  <1>6. \A n \in free : n \in Nat /\ Append(x, n) \notin taken
    BY <1>1
  <1> HIDE DEF free
  <1> QED
    BY <1>3, <1>5, <1>6 DEF taken

\* The name of a schema of X in the merged document: its own, or one that neither
\* document has.
LEMMA FinalNames ==
  ASSUME NEW M, NEW X, IsDocument(M), IsDocument(X), NEW x \in DOMAIN X.schemas
  PROVE  /\ IsName(FinalName(x, M, X))
         /\ IF x \in Conflicts(M, X)
              THEN /\ \E k \in Nat : FinalName(x, M, X) = Append(x, k)
                   /\ FinalName(x, M, X) \notin DOMAIN M.schemas \cup DOMAIN X.schemas
              ELSE /\ FinalName(x, M, X) = x
                   /\ x \in DOMAIN M.schemas => M.schemas[x] = X.schemas[x]
  <1>1. IsName(x)
    BY DEF IsDocument
  <1>2. CASE x \in Conflicts(M, X)
    <2>1. FinalName(x, M, X) = FreeName(x, M, X)
      BY <1>2 DEF FinalName
    <2>2. PICK k \in Nat : FreeName(x, M, X) = Append(x, k)
      BY NameIsFree
    <2>3. IsName(Append(x, k))
      BY <1>1, Numbered
    <2>4. FreeName(x, M, X) \notin DOMAIN M.schemas \cup DOMAIN X.schemas
      BY NameIsFree
    <2> QED
      BY <1>2, <2>1, <2>2, <2>3, <2>4
  <1>3. CASE x \notin Conflicts(M, X)
    BY <1>1, <1>3 DEF FinalName, Conflicts
  <1> QED
    BY <1>2, <1>3

\* Different schemas have different names.
LEMMA FinalNamesTell ==
  ASSUME NEW M, NEW X, IsDocument(M), IsDocument(X),
         NEW x \in DOMAIN X.schemas, NEW y \in DOMAIN X.schemas,
         FinalName(x, M, X) = FinalName(y, M, X)
  PROVE  x = y
  <1>1. IsName(x) /\ IsName(y)
    BY DEF IsDocument
  <1>2. CASE x \in Conflicts(M, X) /\ y \in Conflicts(M, X)
    <2>1. PICK k \in Nat : FinalName(x, M, X) = Append(x, k)
      BY <1>2, FinalNames
    <2>2. PICK n \in Nat : FinalName(y, M, X) = Append(y, n)
      BY <1>2, FinalNames
    <2> QED
      BY <1>1, <2>1, <2>2, NumbersTell
  <1>3. CASE x \notin Conflicts(M, X) \/ y \notin Conflicts(M, X)
    BY <1>3, FinalNames
  <1> QED
    BY <1>2, <1>3

\* A node without a reference stays one.
LEMMA NoNameStays ==
  ASSUME NEW M, NEW X, IsDocument(M), IsDocument(X)
  PROVE  FinalName(NoName, M, X) = NoName
  BY DEF FinalName, Conflicts, IsDocument, IsName

\* What the merged document has of the schemas.
LEMMA MergedSchemas ==
  ASSUME NEW M, NEW X, IsDocument(M), IsDocument(X), NEW R, R = MergeDocument(M, X)
  PROVE  /\ DOMAIN R.schemas =
              DOMAIN M.schemas \cup {FinalName(x, M, X) : x \in DOMAIN X.schemas}
         /\ \A y \in DOMAIN M.schemas : R.schemas[y] = M.schemas[y]
         /\ \A x \in DOMAIN X.schemas : FinalName(x, M, X) \notin DOMAIN M.schemas =>
              R.schemas[FinalName(x, M, X)] = Rewritten(X.schemas[x], M, X)
  <1> DEFINE Final(x)  == FinalName(x, M, X)
             finals    == {Final(x) : x \in DOMAIN X.schemas}
             Source(y) == CHOOSE x \in DOMAIN X.schemas : Final(x) = y
             g         == [y \in finals |-> Rewritten(X.schemas[Source(y)], M, X)]
  <1>1. R.schemas = Extended(M.schemas, g)
    BY DEF MergeDocument
  <1>2. DOMAIN g = finals
    OBVIOUS
  <1>3. \A x \in DOMAIN X.schemas : g[Final(x)] = Rewritten(X.schemas[x], M, X)
    <2>1. TAKE x \in DOMAIN X.schemas
    <2>2. Source(Final(x)) \in DOMAIN X.schemas /\ Final(Source(Final(x))) = Final(x)
      OBVIOUS
    <2>3. Source(Final(x)) = x
      <3> HIDE DEF Source
      <3> QED
        BY <2>2, FinalNamesTell
    <2>4. Final(x) \in finals
      OBVIOUS
    <2> HIDE DEF Source, finals, Final
    <2> QED
      BY <2>3, <2>4
  <1>4. \A x \in DOMAIN X.schemas : Final(x) \in finals
    OBVIOUS
  <1> HIDE DEF g
  <1> QED
    <2>1. /\ DOMAIN R.schemas = DOMAIN M.schemas \cup DOMAIN g
          /\ \A y \in DOMAIN M.schemas : R.schemas[y] = M.schemas[y]
          /\ \A y \in DOMAIN g \ DOMAIN M.schemas : R.schemas[y] = g[y]
      BY <1>1 DEF Extended
    <2>2. \A x \in DOMAIN X.schemas : Final(x) \notin DOMAIN M.schemas =>
            R.schemas[Final(x)] = Rewritten(X.schemas[x], M, X)
      BY <1>2, <1>3, <1>4, <2>1
    <2> QED
      BY <1>2, <2>1, <2>2

\* What it has of the paths.
LEMMA MergedPaths ==
  ASSUME NEW M, NEW X, NEW R, R = MergeDocument(M, X)
  PROVE  /\ DOMAIN R.paths = DOMAIN M.paths \cup DOMAIN X.paths
         /\ \A p \in DOMAIN M.paths : R.paths[p] = M.paths[p]
         /\ \A p \in DOMAIN X.paths \ DOMAIN M.paths :
              R.paths[p] = Rewritten(X.paths[p], M, X)
  <1> DEFINE g == [p \in DOMAIN X.paths |-> Rewritten(X.paths[p], M, X)]
  <1>1. R.paths = Extended(M.paths, g)
    BY DEF MergeDocument
  <1>2. DOMAIN g = DOMAIN X.paths /\ \A p \in DOMAIN X.paths : g[p] = Rewritten(X.paths[p], M, X)
    OBVIOUS
  <1> HIDE DEF g
  <1> QED
    <2>1. /\ DOMAIN R.paths = DOMAIN M.paths \cup DOMAIN g
          /\ \A p \in DOMAIN M.paths : R.paths[p] = M.paths[p]
          /\ \A p \in DOMAIN g \ DOMAIN M.paths : R.paths[p] = g[p]
      BY <1>1 DEF Extended
    <2> QED
      BY <1>2, <2>1

\* A node is a text and a reference, and so it is rewritten.
LEMMA RewrittenNode ==
  ASSUME NEW M, NEW X, NEW n, n = Node(n.text, n.ref)
  PROVE  Rewritten(n, M, X) = Node(n.text, FinalName(n.ref, M, X))
  <1>1. n = [text |-> n.text, ref |-> n.ref]
    BY DEF Node
  <1> QED
    BY <1>1 DEF Rewritten, Node

\* What a document that is merged into another still has there.
Keeps(D, R) ==
  /\ DOMAIN D.schemas \subseteq DOMAIN R.schemas
  /\ \A x \in DOMAIN D.schemas : R.schemas[x] = D.schemas[x]
  /\ DOMAIN D.paths \subseteq DOMAIN R.paths
  /\ \A p \in DOMAIN D.paths : R.paths[p] = D.paths[p]

\* Merging another document in loses nothing.
LEMMA MergeKeeps ==
  ASSUME NEW M, NEW X, IsDocument(M), IsDocument(X), NEW R, R = MergeDocument(M, X)
  PROVE  Keeps(M, R)
  BY MergedSchemas, MergedPaths DEF Keeps

\* The parts of a document.
LEMMA DocumentParts ==
  ASSUME NEW D, IsDocument(D)
  PROVE  /\ \A x \in DOMAIN D.schemas :
              /\ IsName(x)
              /\ D.schemas[x] = Node(D.schemas[x].text, D.schemas[x].ref)
              /\ D.schemas[x].ref \in DOMAIN D.schemas \cup {NoName}
         /\ \A p \in DOMAIN D.paths :
              /\ D.paths[p] = Node(D.paths[p].text, D.paths[p].ref)
              /\ D.paths[p].ref \in DOMAIN D.schemas \cup {NoName}
  BY DEF IsDocument, Closed

\* A node of a document that is merged refers to a schema of the merged one.
LEMMA RewrittenIsClosed ==
  ASSUME NEW M, NEW X, IsDocument(M), IsDocument(X), NEW R, R = MergeDocument(M, X),
         NEW n, n = Node(n.text, n.ref), n.ref \in DOMAIN X.schemas \cup {NoName},
         NEW w, w = Rewritten(n, M, X)
  PROVE  w = Node(w.text, w.ref) /\ w.ref \in DOMAIN R.schemas \cup {NoName}
  <1>1. w = Node(n.text, FinalName(n.ref, M, X))
    BY RewrittenNode
  <1>2. w.text = n.text /\ w.ref = FinalName(n.ref, M, X)
    BY <1>1 DEF Node
  <1>3. FinalName(n.ref, M, X) \in DOMAIN R.schemas \cup {NoName}
    BY NoNameStays, MergedSchemas
  <1> QED
    BY <1>1, <1>2, <1>3

\* A document and one merged into it are a document.
LEMMA MergedIsDocument ==
  ASSUME NEW M, NEW X, IsDocument(M), IsDocument(X), NEW R, R = MergeDocument(M, X)
  PROVE  IsDocument(R)
  <1> DEFINE finals == {FinalName(x, M, X) : x \in DOMAIN X.schemas}
  <1>1. DOMAIN R = {"paths", "schemas"}
    BY DEF MergeDocument
  <1>2. IsFiniteSet(DOMAIN R.schemas)
    <2> DEFINE f == [x \in DOMAIN X.schemas |-> FinalName(x, M, X)]
    <2>1. f \in Surjection(DOMAIN X.schemas, finals)
      BY DEF Surjection
    <2>2. IsFiniteSet(finals)
      <3> HIDE DEF f, finals
      <3> QED
        BY <2>1, FS_Surjection DEF IsDocument
    <2>3. IsFiniteSet(DOMAIN M.schemas)
      BY DEF IsDocument
    <2>4. DOMAIN R.schemas = DOMAIN M.schemas \cup finals
      BY MergedSchemas
    <2> HIDE DEF finals
    <2> QED
      BY <2>2, <2>3, <2>4, FS_Union
  <1>3. \A y \in DOMAIN R.schemas :
          \/ y \in DOMAIN M.schemas /\ R.schemas[y] = M.schemas[y]
          \/ \E x \in DOMAIN X.schemas : /\ y = FinalName(x, M, X)
                                         /\ R.schemas[y] = Rewritten(X.schemas[x], M, X)
    BY MergedSchemas
  <1>4. \A p \in DOMAIN R.paths :
          \/ p \in DOMAIN M.paths /\ R.paths[p] = M.paths[p]
          \/ p \in DOMAIN X.paths /\ R.paths[p] = Rewritten(X.paths[p], M, X)
    BY MergedPaths
  <1>5. DOMAIN M.schemas \subseteq DOMAIN R.schemas
    BY MergedSchemas
  <1>6. \A y \in DOMAIN R.schemas :
          /\ IsName(y)
          /\ R.schemas[y] = Node(R.schemas[y].text, R.schemas[y].ref)
          /\ R.schemas[y].ref \in DOMAIN R.schemas \cup {NoName}
    <2>1. TAKE y \in DOMAIN R.schemas
    <2>2. CASE y \in DOMAIN M.schemas /\ R.schemas[y] = M.schemas[y]
      BY <1>5, <2>2, DocumentParts
    <2>3. ASSUME NEW x \in DOMAIN X.schemas, y = FinalName(x, M, X),
                 R.schemas[y] = Rewritten(X.schemas[x], M, X)
          PROVE  /\ IsName(y)
                 /\ R.schemas[y] = Node(R.schemas[y].text, R.schemas[y].ref)
                 /\ R.schemas[y].ref \in DOMAIN R.schemas \cup {NoName}
      <3>1. IsName(y)
        BY <2>3, FinalNames
      <3>2. /\ X.schemas[x] = Node(X.schemas[x].text, X.schemas[x].ref)
            /\ X.schemas[x].ref \in DOMAIN X.schemas \cup {NoName}
        BY DocumentParts
      <3> QED
        BY <2>3, <3>1, <3>2, RewrittenIsClosed
    <2> QED
      BY <1>3, <2>2, <2>3
  <1>7. \A p \in DOMAIN R.paths :
          /\ R.paths[p] = Node(R.paths[p].text, R.paths[p].ref)
          /\ R.paths[p].ref \in DOMAIN R.schemas \cup {NoName}
    <2>1. TAKE p \in DOMAIN R.paths
    <2>2. CASE p \in DOMAIN M.paths /\ R.paths[p] = M.paths[p]
      BY <1>5, <2>2, DocumentParts
    <2>3. CASE p \in DOMAIN X.paths /\ R.paths[p] = Rewritten(X.paths[p], M, X)
      <3>1. /\ X.paths[p] = Node(X.paths[p].text, X.paths[p].ref)
            /\ X.paths[p].ref \in DOMAIN X.schemas \cup {NoName}
        BY <2>3, DocumentParts
      <3> QED
        BY <2>3, <3>1, RewrittenIsClosed
    <2> QED
      BY <1>4, <2>2, <2>3
  <1> QED
    BY <1>1, <1>2, <1>6, <1>7 DEF IsDocument, Closed

-----------------------------------------------------------------------------
(* What a reader sees who follows the references.                          *)

\* The chain is what its recursion says.
LEMMA ChainSteps ==
  ASSUME NEW doc, NEW node, NEW n \in Nat
  PROVE  /\ Chain(doc, node, n)[0] = node
         /\ \A i \in 1 .. n : Chain(doc, node, n)[i] = Follow(doc, Chain(doc, node, n)[i - 1])
  <1> DEFINE Steps(f, k) == f = [i \in 0 .. k |-> IF i = 0 THEN node ELSE Follow(doc, f[i - 1])]
             Good == {k \in Nat : \E f : Steps(f, k)}
  <1>1. 0 \in Good
    <2> DEFINE f == [i \in 0 .. 0 |-> node]
    <2>1. f = [i \in 0 .. 0 |-> IF i = 0 THEN node ELSE Follow(doc, f[i - 1])]
      OBVIOUS
    <2> QED
      BY <2>1
  <1>2. ASSUME NEW k \in Nat, k \in Good
        PROVE  k + 1 \in Good
    <2>1. PICK f : Steps(f, k)
      BY <1>2
    <2> DEFINE g == [i \in 0 .. k + 1 |-> IF i = k + 1 THEN Follow(doc, f[k]) ELSE f[i]]
    <2>2. \A i \in 0 .. k : g[i] = f[i] /\ f[i] = IF i = 0 THEN node ELSE Follow(doc, f[i - 1])
      BY <2>1
    <2>3. g[k + 1] = Follow(doc, f[k])
      OBVIOUS
    <2>4. g = [i \in 0 .. k + 1 |-> g[i]]
      OBVIOUS
    <2> HIDE DEF g
    <2>5. \A i \in 0 .. k + 1 : g[i] = IF i = 0 THEN node ELSE Follow(doc, g[i - 1])
      <3>1. TAKE i \in 0 .. k + 1
      <3>2. CASE i = k + 1
        BY <2>2, <2>3, <3>2
      <3>3. CASE i # k + 1
        BY <2>2, <3>3
      <3> QED
        BY <3>2, <3>3
    <2>6. Steps(g, k + 1)
      BY <2>4, <2>5
    <2> QED
      BY <2>6
  <1>3. n \in Good
    <2> HIDE DEF Good
    <2> QED
      BY <1>1, <1>2, UpTo
  <1>4. \E f : Steps(f, n)
    BY <1>3
  <1>5. Steps(Chain(doc, node, n), n)
    <2>1. Chain(doc, node, n) = CHOOSE f : Steps(f, n)
      BY DEF Chain
    <2> HIDE DEF Steps
    <2> QED
      BY <1>4, <2>1
  <1> DEFINE at == Chain(doc, node, n)
  <1>6. at = [i \in 0 .. n |-> IF i = 0 THEN node ELSE Follow(doc, at[i - 1])]
    BY <1>5
  <1> HIDE DEF at
  <1>7. at[0] = node /\ \A i \in 1 .. n : at[i] = Follow(doc, at[i - 1])
    BY <1>6
  <1> QED
    BY <1>7 DEF at

\* The meaning is what the nodes of the chain say.
LEMMA MeaningSays ==
  ASSUME NEW doc, NEW node, NEW n \in Nat
  PROVE  Meaning(doc, node, n) = [i \in 0 .. n |-> Chain(doc, node, n)[i].text]
  BY DEF Meaning

\* Where a reference of a document leads.
LEMMA Followed ==
  ASSUME NEW D, IsDocument(D), NEW node, node.ref \in DOMAIN D.schemas \cup {NoName}
  PROVE  /\ Follow(D, node) = IF node.ref = NoName THEN Node("end", NoName)
                              ELSE D.schemas[node.ref]
         /\ Follow(D, node).ref \in DOMAIN D.schemas \cup {NoName}
  <1>1. NoName \notin DOMAIN D.schemas
    BY DEF IsDocument, IsName
  <1>2. CASE node.ref = NoName
    BY <1>1, <1>2 DEF Follow, Node
  <1>3. CASE node.ref # NoName
    BY <1>3, DocumentParts DEF Follow
  <1> QED
    BY <1>2, <1>3

\* The references of a chain lead somewhere.
LEMMA ChainIsClosed ==
  ASSUME NEW D, IsDocument(D), NEW node, node.ref \in DOMAIN D.schemas \cup {NoName},
         NEW n \in Nat, NEW i \in 0 .. n
  PROVE  Chain(D, node, n)[i].ref \in DOMAIN D.schemas \cup {NoName}
  <1> DEFINE at == Chain(D, node, n)
             Good == {k \in 0 .. n : at[k].ref \in DOMAIN D.schemas \cup {NoName}}
  <1>1. at[0] = node /\ \A k \in 1 .. n : at[k] = Follow(D, at[k - 1])
    BY ChainSteps
  <1> HIDE DEF at
  <1>2. 0 \in Good
    BY <1>1
  <1>3. ASSUME NEW k \in 0 .. i - 1, k \in Good
        PROVE  k + 1 \in Good
    <2>1. at[k + 1] = Follow(D, at[k])
      BY <1>1
    <2> QED
      BY <1>3, <2>1, Followed
  <1>4. i \in Good
    <2> HIDE DEF Good
    <2> QED
      BY <1>2, <1>3, UpTo
  <1> QED
    BY <1>4 DEF at

\* A document means in another that keeps it what it means by itself.
LEMMA KeptMeaning ==
  ASSUME NEW D, NEW R, IsDocument(D), IsDocument(R), Keeps(D, R),
         NEW node, node.ref \in DOMAIN D.schemas \cup {NoName}, NEW n \in Nat
  PROVE  Meaning(R, node, n) = Meaning(D, node, n)
  <1> DEFINE at   == Chain(D, node, n)
             kept == Chain(R, node, n)
             Good == {k \in 0 .. n : kept[k] = at[k]}
  <1>1. at[0] = node /\ \A k \in 1 .. n : at[k] = Follow(D, at[k - 1])
    BY ChainSteps
  <1>2. kept[0] = node /\ \A k \in 1 .. n : kept[k] = Follow(R, kept[k - 1])
    BY ChainSteps
  <1>3. \A k \in 0 .. n : at[k].ref \in DOMAIN D.schemas \cup {NoName}
    BY ChainIsClosed
  <1>4. ASSUME NEW i \in 0 .. n
        PROVE  kept[i] = at[i]
    <2> HIDE DEF at, kept
    <2>1. 0 \in Good
      BY <1>1, <1>2
    <2>2. ASSUME NEW k \in 0 .. i - 1, k \in Good
          PROVE  k + 1 \in Good
      <3>1. at[k + 1] = Follow(D, at[k]) /\ kept[k + 1] = Follow(R, at[k])
        BY <1>1, <1>2, <2>2
      <3>2. at[k].ref \in DOMAIN D.schemas \cup {NoName}
        BY <1>3
      <3>3. Follow(R, at[k]) = Follow(D, at[k])
        BY <3>2, Followed DEF Keeps
      <3> QED
        BY <3>1, <3>3
    <2>3. i \in Good
      <3> HIDE DEF Good
      <3> QED
        BY <2>1, <2>2, UpTo
    <2> QED
      BY <2>3
  <1>5. /\ Meaning(D, node, n) = [i \in 0 .. n |-> at[i].text]
        /\ Meaning(R, node, n) = [i \in 0 .. n |-> kept[i].text]
    BY MeaningSays
  <1> HIDE DEF at, kept
  <1> QED
    BY <1>4, <1>5

\* The nodes of a chain are nodes.
LEMMA ChainOfNodes ==
  ASSUME NEW D, IsDocument(D), NEW node, node = Node(node.text, node.ref),
         node.ref \in DOMAIN D.schemas \cup {NoName}, NEW n \in Nat, NEW i \in 0 .. n
  PROVE  Chain(D, node, n)[i] = Node(Chain(D, node, n)[i].text, Chain(D, node, n)[i].ref)
  <1> DEFINE at == Chain(D, node, n)
  <1>1. at[0] = node /\ \A k \in 1 .. n : at[k] = Follow(D, at[k - 1])
    BY ChainSteps
  <1>2. \A k \in 0 .. n : at[k].ref \in DOMAIN D.schemas \cup {NoName}
    BY ChainIsClosed
  <1> HIDE DEF at
  <1>3. CASE i = 0
    BY <1>1, <1>3 DEF at
  <1>4. CASE i # 0
    <2>1. at[i] = Follow(D, at[i - 1]) /\ at[i - 1].ref \in DOMAIN D.schemas \cup {NoName}
      BY <1>1, <1>2, <1>4
    <2>2. at[i] = Node("end", NoName) \/ \E x \in DOMAIN D.schemas : at[i] = D.schemas[x]
      BY <2>1, Followed
    <2>3. at[i] = Node(at[i].text, at[i].ref)
      BY <2>2, DocumentParts DEF Node
    <2> QED
      BY <2>3 DEF at
  <1> QED
    BY <1>3, <1>4

\* The step of a reader of the merged document is that of a reader of the one that
\* was added, unless it leads to a shared schema that refers to another one there.
LEMMA MergedFollow ==
  ASSUME NEW M, NEW X, IsDocument(M), IsDocument(X), NEW R, R = MergeDocument(M, X),
         NEW node, node = Node(node.text, node.ref),
         node.ref \in DOMAIN X.schemas \cup {NoName},
         ~ (/\ node.ref \in DOMAIN M.schemas \ Conflicts(M, X)
            /\ Follow(X, node).ref \in Conflicts(M, X))
  PROVE  Follow(R, Rewritten(node, M, X)) = Rewritten(Follow(X, node), M, X)
  <1> DEFINE x == node.ref
             w == Rewritten(node, M, X)
  <1>1. IsDocument(R)
    BY MergedIsDocument
  <1>2. w = Node(w.text, w.ref) /\ w.ref \in DOMAIN R.schemas \cup {NoName}
    BY RewrittenIsClosed
  <1>3. w.ref = FinalName(x, M, X)
    BY RewrittenNode DEF Node
  <1>4. CASE x = NoName
    <2>1. w.ref = NoName
      BY <1>3, <1>4, NoNameStays
    <2>2. Follow(R, w) = Node("end", NoName) /\ Follow(X, node) = Node("end", NoName)
      BY <1>1, <1>2, <1>4, <2>1, Followed
    <2>3. Rewritten(Node("end", NoName), M, X) = Node("end", NoName)
      <3> DEFINE end == Node("end", NoName)
      <3>1. end = Node(end.text, end.ref) /\ end.ref = NoName /\ end.text = "end"
        BY DEF Node
      <3> HIDE DEF end
      <3>2. Rewritten(end, M, X) = Node(end.text, FinalName(end.ref, M, X))
        BY <3>1, RewrittenNode
      <3>3. Rewritten(end, M, X) = end
        BY <3>1, <3>2, NoNameStays
      <3> QED
        BY <3>3 DEF end
    <2> QED
      BY <2>2, <2>3
  <1>5. CASE x # NoName
    <2>1. x \in DOMAIN X.schemas /\ Follow(X, node) = X.schemas[x]
      BY <1>5, Followed
    <2>2. IsName(FinalName(x, M, X))
      BY <2>1, FinalNames
    <2>3. w.ref # NoName
      BY <1>3, <2>2 DEF IsName
    <2>4. Follow(R, w) = R.schemas[FinalName(x, M, X)]
      BY <1>1, <1>2, <1>3, <2>3, Followed
    <2>5. CASE FinalName(x, M, X) \notin DOMAIN M.schemas
      BY <2>1, <2>4, <2>5, MergedSchemas
    <2>6. CASE FinalName(x, M, X) \in DOMAIN M.schemas
      <3>1. x \notin Conflicts(M, X) /\ FinalName(x, M, X) = x /\ M.schemas[x] = X.schemas[x]
        <4> HIDE DEF x
        <4>1. CASE x \in Conflicts(M, X)
          BY <2>1, <2>6, <4>1, FinalNames
        <4>2. CASE x \notin Conflicts(M, X)
          BY <2>1, <2>6, <4>2, FinalNames
        <4> QED
          BY <4>1, <4>2
      <3>2. Follow(R, w) = X.schemas[x]
        BY <2>4, <2>6, <3>1, MergedSchemas
      <3>3. X.schemas[x].ref \notin Conflicts(M, X)
        BY <2>1, <2>6, <3>1
      <3>4. X.schemas[x] = Node(X.schemas[x].text, X.schemas[x].ref)
        BY <2>1, DocumentParts
      <3>5. FinalName(X.schemas[x].ref, M, X) = X.schemas[x].ref
        BY <3>3 DEF FinalName
      <3>6. Rewritten(X.schemas[x], M, X) = X.schemas[x]
        BY <3>4, <3>5, RewrittenNode
      <3> QED
        BY <2>1, <3>2, <3>6
    <2> QED
      BY <2>5, <2>6
  <1> QED
    BY <1>4, <1>5

\* So its routes mean there what they mean in its own document.
LEMMA MergedMeaning ==
  ASSUME NEW M, NEW X, IsDocument(M), IsDocument(X), NEW R, R = MergeDocument(M, X),
         NEW node, node = Node(node.text, node.ref),
         node.ref \in DOMAIN X.schemas \cup {NoName},
         ~ SharedOnTheWay(M, X, node)
  PROVE  Meaning(R, Rewritten(node, M, X), Depth) = Meaning(X, node, Depth)
  <1> DEFINE at  == Chain(X, node, Depth)
             new == Chain(R, Rewritten(node, M, X), Depth)
             Good == {k \in 0 .. Depth : new[k] = Rewritten(at[k], M, X)}
  <1>0. Depth \in Nat
    BY DocsAssumption
  <1>1. at[0] = node /\ \A k \in 1 .. Depth : at[k] = Follow(X, at[k - 1])
    BY <1>0, ChainSteps
  <1>2. new[0] = Rewritten(node, M, X) /\ \A k \in 1 .. Depth : new[k] = Follow(R, new[k - 1])
    BY <1>0, ChainSteps
  <1>3. \A k \in 0 .. Depth : at[k].ref \in DOMAIN X.schemas \cup {NoName}
    BY <1>0, ChainIsClosed
  <1>4. \A k \in 0 .. Depth : at[k] = Node(at[k].text, at[k].ref)
    BY <1>0, ChainOfNodes
  <1>5. \A k \in 1 .. Depth : ~ (/\ at[k].ref \in Conflicts(M, X)
                                 /\ at[k - 1].ref \in DOMAIN M.schemas \ Conflicts(M, X))
    BY DEF SharedOnTheWay
  <1>6. ASSUME NEW i \in 0 .. Depth
        PROVE  new[i] = Rewritten(at[i], M, X)
    <2> HIDE DEF at, new
    <2>1. 0 \in Good
      BY <1>0, <1>1, <1>2
    <2>2. ASSUME NEW k \in 0 .. i - 1, k \in Good
          PROVE  k + 1 \in Good
      <3>1. /\ k \in 0 .. Depth /\ k + 1 \in 1 .. Depth /\ (k + 1) - 1 = k
            /\ at[k + 1] = Follow(X, at[k]) /\ new[k + 1] = Follow(R, Rewritten(at[k], M, X))
        BY <1>0, <1>1, <1>2, <2>2
      <3>2. ~ (/\ at[k].ref \in DOMAIN M.schemas \ Conflicts(M, X)
               /\ Follow(X, at[k]).ref \in Conflicts(M, X))
        BY <1>5, <3>1
      <3>3. new[k + 1] = Rewritten(at[k + 1], M, X)
        BY <1>3, <1>4, <3>1, <3>2, MergedFollow
      <3> QED
        BY <3>1, <3>3
    <2>3. i \in Good
      <3> HIDE DEF Good
      <3> QED
        BY <1>0, <2>1, <2>2, UpTo
    <2> QED
      BY <2>3
  <1>7. ASSUME NEW i \in 0 .. Depth
        PROVE  new[i].text = at[i].text
    <2> HIDE DEF at, new
    <2>1. Rewritten(at[i], M, X) = Node(at[i].text, FinalName(at[i].ref, M, X))
      BY <1>4, RewrittenNode
    <2> QED
      BY <1>6, <2>1 DEF Node
  <1>8. /\ Meaning(X, node, Depth) = [i \in 0 .. Depth |-> at[i].text]
        /\ Meaning(R, Rewritten(node, M, X), Depth) = [i \in 0 .. Depth |-> new[i].text]
    BY <1>0, MeaningSays
  <1> HIDE DEF at, new
  <1> QED
    BY <1>7, <1>8

-----------------------------------------------------------------------------
(* Several documents.                                                      *)

\* at is the document after each of the extras.
Merging(base, extras, at) ==
  /\ at[0] = base
  /\ \A i \in 1 .. Len(extras) : at[i] = MergeDocument(at[i - 1], extras[i])

\* The merge is what its recursion says.
LEMMA MergeSteps ==
  ASSUME NEW base, NEW extras, Len(extras) \in Nat
  PROVE  \E at : /\ Merging(base, extras, at)
                 /\ mergeOpenApiDocuments(base, extras) = at[Len(extras)]
  <1> DEFINE n == Len(extras)
             Steps(f, k) ==
               f = [i \in 0 .. k |-> IF i = 0 THEN base ELSE MergeDocument(f[i - 1], extras[i])]
             Good == {k \in Nat : \E f : Steps(f, k)}
  <1>1. 0 \in Good
    <2> DEFINE f == [i \in 0 .. 0 |-> base]
    <2>1. f = [i \in 0 .. 0 |-> IF i = 0 THEN base ELSE MergeDocument(f[i - 1], extras[i])]
      OBVIOUS
    <2> QED
      BY <2>1
  <1>2. ASSUME NEW k \in Nat, k \in Good
        PROVE  k + 1 \in Good
    <2>1. PICK f : Steps(f, k)
      BY <1>2
    <2> DEFINE g == [i \in 0 .. k + 1 |->
                       IF i = k + 1 THEN MergeDocument(f[k], extras[k + 1]) ELSE f[i]]
    <2>2. \A i \in 0 .. k :
            g[i] = f[i] /\ f[i] = IF i = 0 THEN base ELSE MergeDocument(f[i - 1], extras[i])
      BY <2>1
    <2>3. g[k + 1] = MergeDocument(f[k], extras[k + 1])
      OBVIOUS
    <2>4. g = [i \in 0 .. k + 1 |-> g[i]]
      OBVIOUS
    <2> HIDE DEF g
    <2>5. \A i \in 0 .. k + 1 : g[i] = IF i = 0 THEN base ELSE MergeDocument(g[i - 1], extras[i])
      <3>1. TAKE i \in 0 .. k + 1
      <3>2. CASE i = k + 1
        BY <2>2, <2>3, <3>2
      <3>3. CASE i # k + 1
        BY <2>2, <3>3
      <3> QED
        BY <3>2, <3>3
    <2>6. Steps(g, k + 1)
      BY <2>4, <2>5
    <2> QED
      BY <2>6
  <1>3. n \in Good
    <2> HIDE DEF Good
    <2> QED
      BY <1>1, <1>2, UpTo
  <1> DEFINE at == CHOOSE f : Steps(f, n)
  <1>4. Steps(at, n)
    <2>1. \E f : Steps(f, n)
      BY <1>3
    <2> HIDE DEF Steps
    <2> QED
      BY <2>1
  <1>5. mergeOpenApiDocuments(base, extras) = at[n]
    BY DEF mergeOpenApiDocuments
  <1>6. at = [i \in 0 .. n |-> IF i = 0 THEN base ELSE MergeDocument(at[i - 1], extras[i])]
    BY <1>4
  <1> HIDE DEF at
  <1>7. at[0] = base /\ \A i \in 1 .. n : at[i] = MergeDocument(at[i - 1], extras[i])
    BY <1>6
  <1> QED
    BY <1>5, <1>7 DEF Merging

\* Two merges of the same documents agree.
LEMMA MergesAgree ==
  ASSUME NEW base, NEW extras, NEW at, Merging(base, extras, at), Len(extras) \in Nat,
         NEW others, NEW also, Merging(base, others, also), Len(others) \in Nat,
         Len(others) <= Len(extras), \A i \in 1 .. Len(others) : others[i] = extras[i]
  PROVE  also[Len(others)] = at[Len(others)]
  <1> DEFINE Good == {k \in 0 .. Len(others) : also[k] = at[k]}
  <1>1. 0 \in Good
    BY DEF Merging
  <1>2. ASSUME NEW k \in 0 .. Len(others) - 1, k \in Good
        PROVE  k + 1 \in Good
    <2>1. k + 1 \in 1 .. Len(others) /\ k + 1 \in 1 .. Len(extras) /\ (k + 1) - 1 = k
      OBVIOUS
    <2>2. also[k + 1] = MergeDocument(also[k], others[k + 1])
      BY <2>1 DEF Merging
    <2>3. at[k + 1] = MergeDocument(at[k], extras[k + 1])
      BY <2>1 DEF Merging
    <2> QED
      BY <1>2, <2>1, <2>2, <2>3
  <1>3. Len(others) \in Good
    <2> HIDE DEF Good
    <2> QED
      BY <1>1, <1>2, UpTo
  <1> QED
    BY <1>3

\* What the first of the extras are merged into.
LEMMA MergePrefix ==
  ASSUME NEW base, NEW D, NEW extras \in Seq(D), NEW at, Merging(base, extras, at),
         NEW k \in 0 .. Len(extras)
  PROVE  mergeOpenApiDocuments(base, SubSeq(extras, 1, k)) = at[k]
  <1> DEFINE others == SubSeq(extras, 1, k)
  <1>1. Len(extras) \in Nat /\ Len(others) = k /\ \A i \in 1 .. k : others[i] = extras[i]
    BY LenProperties, SubSeqProperties
  <1> HIDE DEF others
  <1>2. PICK also : /\ Merging(base, others, also)
                    /\ mergeOpenApiDocuments(base, others) = also[Len(others)]
    BY <1>1, MergeSteps
  <1>3. also[Len(others)] = at[Len(others)]
    BY <1>1, <1>2, MergesAgree
  <1> QED
    BY <1>1, <1>2, <1>3 DEF others

\* Each of them is a document.
LEMMA MergingDocuments ==
  ASSUME NEW base, IsDocument(base), NEW extras, Len(extras) \in Nat,
         \A i \in 1 .. Len(extras) : IsDocument(extras[i]),
         NEW at, Merging(base, extras, at), NEW i \in 0 .. Len(extras)
  PROVE  IsDocument(at[i])
  <1> DEFINE Good == {k \in 0 .. Len(extras) : IsDocument(at[k])}
  <1>1. 0 \in Good
    BY DEF Merging
  <1>2. ASSUME NEW k \in 0 .. i - 1, k \in Good
        PROVE  k + 1 \in Good
    <2>1. k + 1 \in 1 .. Len(extras) /\ (k + 1) - 1 = k
      OBVIOUS
    <2>2. at[k + 1] = MergeDocument(at[k], extras[k + 1]) /\ IsDocument(extras[k + 1])
      BY <2>1 DEF Merging
    <2> QED
      BY <1>2, <2>1, <2>2, MergedIsDocument
  <1>3. i \in Good
    <2> HIDE DEF Good
    <2> QED
      BY <1>1, <1>2, UpTo
  <1> QED
    BY <1>3

\* A later one keeps what an earlier one has.
LEMMA MergingKeeps ==
  ASSUME NEW base, IsDocument(base), NEW extras, Len(extras) \in Nat,
         \A i \in 1 .. Len(extras) : IsDocument(extras[i]),
         NEW at, Merging(base, extras, at), NEW i \in 0 .. Len(extras), NEW j \in i .. Len(extras)
  PROVE  Keeps(at[i], at[j])
  <1> DEFINE Good == {k \in 0 .. Len(extras) - i : Keeps(at[i], at[i + k])}
  <1>1. 0 \in Good
    BY DEF Keeps
  <1>2. ASSUME NEW k \in 0 .. (j - i) - 1, k \in Good
        PROVE  k + 1 \in Good
    <2> DEFINE m == i + k
    <2>1. /\ m \in 0 .. Len(extras) /\ m + 1 \in 1 .. Len(extras) /\ (m + 1) - 1 = m
          /\ i + (k + 1) = m + 1 /\ k + 1 \in 0 .. Len(extras) - i
      OBVIOUS
    <2>2. Keeps(at[i], at[m])
      BY <1>2
    <2> HIDE DEF m
    <2>3. at[m + 1] = MergeDocument(at[m], extras[m + 1]) /\ IsDocument(extras[m + 1])
      BY <2>1 DEF Merging
    <2>4. Keeps(at[m], at[m + 1])
      BY <2>1, <2>3, MergingDocuments, MergeKeeps
    <2>5. Keeps(at[i], at[m + 1])
      BY <2>2, <2>4 DEF Keeps
    <2> QED
      BY <2>1, <2>5
  <1>3. j - i \in Good
    <2> HIDE DEF Good
    <2> QED
      BY <1>1, <1>2, UpTo
  <1> QED
    BY <1>3

-----------------------------------------------------------------------------
(* What was fetched.                                                       *)

\* What is present is what its recursion says.
LEMMA PresentSteps ==
  ASSUME NEW remotes, NEW urls, Len(urls) \in Nat
  PROVE  \E at : /\ at[0] = << >>
                 /\ \A i \in 1 .. Len(urls) :
                      at[i] = IF remotes[urls[i]] = NoDoc THEN at[i - 1]
                              ELSE Append(at[i - 1], remotes[urls[i]])
                 /\ Present(remotes, urls) = at[Len(urls)]
  <1> DEFINE n == Len(urls)
             Next(s, i) == IF remotes[urls[i]] = NoDoc THEN s ELSE Append(s, remotes[urls[i]])
             Steps(f, k) == f = [i \in 0 .. k |-> IF i = 0 THEN << >> ELSE Next(f[i - 1], i)]
             Good == {k \in Nat : \E f : Steps(f, k)}
  <1>1. 0 \in Good
    <2> DEFINE f == [i \in 0 .. 0 |-> << >>]
    <2>1. f = [i \in 0 .. 0 |-> IF i = 0 THEN << >> ELSE Next(f[i - 1], i)]
      OBVIOUS
    <2> QED
      BY <2>1
  <1>2. ASSUME NEW k \in Nat, k \in Good
        PROVE  k + 1 \in Good
    <2>1. PICK f : Steps(f, k)
      BY <1>2
    <2> DEFINE g == [i \in 0 .. k + 1 |-> IF i = k + 1 THEN Next(f[k], k + 1) ELSE f[i]]
    <2> HIDE DEF Next
    <2>2. \A i \in 0 .. k : g[i] = f[i] /\ f[i] = IF i = 0 THEN << >> ELSE Next(f[i - 1], i)
      BY <2>1
    <2>3. g[k + 1] = Next(f[k], k + 1)
      OBVIOUS
    <2>4. g = [i \in 0 .. k + 1 |-> g[i]]
      OBVIOUS
    <2> HIDE DEF g
    <2>5. \A i \in 0 .. k + 1 : g[i] = IF i = 0 THEN << >> ELSE Next(g[i - 1], i)
      <3>1. TAKE i \in 0 .. k + 1
      <3>2. CASE i = k + 1
        BY <2>2, <2>3, <3>2
      <3>3. CASE i # k + 1
        BY <2>2, <3>3
      <3> QED
        BY <3>2, <3>3
    <2>6. Steps(g, k + 1)
      BY <2>4, <2>5
    <2> QED
      BY <2>6
  <1>3. n \in Good
    <2> HIDE DEF Good
    <2> QED
      BY <1>1, <1>2, UpTo
  <1> DEFINE at == CHOOSE f : Steps(f, n)
  <1>4. Steps(at, n)
    <2>1. \E f : Steps(f, n)
      BY <1>3
    <2> HIDE DEF Steps
    <2> QED
      BY <2>1
  <1>5. Present(remotes, urls) = at[n]
    BY DEF Present
  <1>6. at = [i \in 0 .. n |-> IF i = 0 THEN << >> ELSE Next(at[i - 1], i)]
    BY <1>4
  <1> HIDE DEF at, Next
  <1>7. at[0] = << >> /\ \A i \in 1 .. n : at[i] = Next(at[i - 1], i)
    BY <1>6
  <1> QED
    BY <1>5, <1>7 DEF Next

\* It is what the sources that answered have sent.
LEMMA PresentHas ==
  ASSUME NEW remotes, NEW urls, Len(urls) \in Nat, NEW S,
         \A i \in 1 .. Len(urls) : remotes[urls[i]] # NoDoc => remotes[urls[i]] \in S
  PROVE  /\ Present(remotes, urls) \in Seq(S)
         /\ \A i \in 1 .. Len(urls) : remotes[urls[i]] # NoDoc =>
              \E j \in 1 .. Len(Present(remotes, urls)) :
                Present(remotes, urls)[j] = remotes[urls[i]]
  <1>1. PICK at : /\ at[0] = << >>
                  /\ \A i \in 1 .. Len(urls) :
                       at[i] = IF remotes[urls[i]] = NoDoc THEN at[i - 1]
                               ELSE Append(at[i - 1], remotes[urls[i]])
                  /\ Present(remotes, urls) = at[Len(urls)]
    BY PresentSteps
  <1> DEFINE Has(s, k) == \A i \in 1 .. k : remotes[urls[i]] # NoDoc =>
                            \E j \in 1 .. Len(s) : s[j] = remotes[urls[i]]
             Good == {k \in 0 .. Len(urls) : at[k] \in Seq(S) /\ Has(at[k], k)}
  <1>2. 0 \in Good
    <2>1. at[0] \in Seq(S)
      BY <1>1
    <2> QED
      BY <2>1
  <1>3. ASSUME NEW k \in 0 .. Len(urls) - 1, k \in Good
        PROVE  k + 1 \in Good
    <2> DEFINE s == at[k]
               t == at[k + 1]
               d == remotes[urls[k + 1]]
    <2>1. k + 1 \in 1 .. Len(urls) /\ (k + 1) - 1 = k
      OBVIOUS
    <2>2. t = IF d = NoDoc THEN s ELSE Append(s, d)
      BY <1>1, <2>1
    <2>3. s \in Seq(S) /\ Has(s, k)
      BY <1>3
    <2>4. d # NoDoc => d \in S
      BY <2>1
    <2> HIDE DEF s, t, d
    <2>5. t \in Seq(S) /\ Has(t, k) /\ (d # NoDoc => \E j \in 1 .. Len(t) : t[j] = d)
      <3>1. CASE d = NoDoc
        BY <2>2, <2>3, <3>1
      <3>2. CASE d # NoDoc
        <4>1. /\ t \in Seq(S) /\ Len(s) \in Nat /\ Len(t) = Len(s) + 1
              /\ \A j \in 1 .. Len(s) : t[j] = s[j]
              /\ t[Len(s) + 1] = d
          BY <2>2, <2>3, <2>4, <3>2, AppendProperties, LenProperties
        <4>2. Has(t, k)
          BY <2>3, <4>1
        <4>3. Len(s) + 1 \in 1 .. Len(t)
          BY <4>1
        <4> QED
          BY <4>1, <4>2, <4>3
      <3> QED
        BY <3>1, <3>2
    <2>6. Has(t, k + 1)
      <3>1. SUFFICES ASSUME NEW i \in 1 .. k + 1, remotes[urls[i]] # NoDoc
                     PROVE  \E j \in 1 .. Len(t) : t[j] = remotes[urls[i]]
        OBVIOUS
      <3>2. CASE i = k + 1
        BY <2>5, <3>1, <3>2 DEF d
      <3>3. CASE i # k + 1
        BY <2>5, <3>1, <3>3
      <3> QED
        BY <3>2, <3>3
    <2> QED
      BY <2>1, <2>5, <2>6 DEF t
  <1>4. Len(urls) \in Good
    <2> HIDE DEF Good
    <2> QED
      BY <1>2, <1>3, UpTo
  <1> QED
    BY <1>1, <1>4

-----------------------------------------------------------------------------
(* The router.                                                             *)

\* The documents there are before any merge.
Sources == Locals \cup UNION {Specs[u] : u \in Services}

\* A document has the routes of every source, as it has been at some time.
Whole(doc, urls, srv) ==
  \A u \in ToSet(urls) : \E d \in srv[u] : DOMAIN d.paths \subseteq DOMAIN doc.paths

\* What a request q has fetched and answered: nothing yet, the merge of what was
\* fetched, or what was cached.
RequestOK(q, urls, local, srv) ==
  /\ q = [pc |-> q.pc, remotes |-> q.remotes, answer |-> q.answer]
  /\ q.pc \in {"idle", "fetch", "done"}
  /\ q.pc = "idle" => q = NoRequest
  /\ DOMAIN q.remotes \subseteq ToSet(urls)
  /\ \A u \in DOMAIN q.remotes : q.remotes[u] \in srv[u] \cup {NoDoc}
  /\ IF q.pc = "done"
       THEN /\ IsDocument(q.answer)
            /\ \/ /\ DOMAIN q.remotes = ToSet(urls)
                  /\ q.answer = mergeOpenApiDocuments(local, Present(q.remotes, urls))
               \/ q.remotes = << >> /\ urls # << >> /\ Whole(q.answer, urls, srv)
       ELSE q.answer = NoDoc

ServicesInv ==
  /\ mergeSpecUrls \in Seq(Services) /\ localDocument \in Locals
  /\ DOMAIN spec = Services /\ DOMAIN served = Services
  /\ \A u \in Services : spec[u] \in served[u] /\ served[u] \subseteq Specs[u]
  /\ deploys \in 0 .. MaxDeploys

CacheInv == cache # NoDoc => IsDocument(cache) /\ Whole(cache, mergeSpecUrls, served)

RequestsInv ==
  /\ DOMAIN request = Requests
  /\ \A r \in Requests : RequestOK(request[r], mergeSpecUrls, localDocument, served)

DocsInv == ServicesInv /\ CacheInv /\ RequestsInv

\* What is merged are documents, and no document stands for none.
LEMMA SourcesAreDocuments ==
  /\ \A doc \in Sources : IsDocument(doc)
  /\ \A doc : IsDocument(doc) => doc # NoDoc
  <1>1. \A doc \in Sources : IsDocument(doc)
    BY DocsAssumption DEF Sources
  <1>2. DOMAIN NoDoc = {"document"}
    BY DEF NoDoc
  <1>3. \A doc : IsDocument(doc) => DOMAIN doc = {"paths", "schemas"}
    BY DEF IsDocument
  <1> QED
    BY <1>1, <1>2, <1>3

\* The merge of what was fetched is a document that has all of its routes.
LEMMA FetchedMerge ==
  ASSUME NEW local \in Locals, NEW urls \in Seq(Services), NEW remotes,
         \A u \in ToSet(urls) : remotes[u] \in Sources \cup {NoDoc},
         NEW F, F = Present(remotes, urls), NEW R, R = mergeOpenApiDocuments(local, F)
  PROVE  /\ IsDocument(R)
         /\ F \in Seq(Sources)
         /\ \A u \in ToSet(urls) : remotes[u] # NoDoc =>
              DOMAIN remotes[u].paths \subseteq DOMAIN R.paths
         /\ \E at : /\ Merging(local, F, at) /\ R = at[Len(F)]
                    /\ \A i \in 0 .. Len(F) : IsDocument(at[i])
                    /\ \A i \in 0 .. Len(F) : Keeps(at[i], R)
                    /\ \A i \in 1 .. Len(F) : mergeOpenApiDocuments(local, SubSeq(F, 1, i - 1)) = at[i - 1]
  <1>1. Len(urls) \in Nat /\ ToSet(urls) = {urls[i] : i \in 1 .. Len(urls)}
    BY LenProperties DEF ToSet
  <1>2. \A i \in 1 .. Len(urls) : urls[i] \in ToSet(urls)
    BY <1>1
  <1>3. \A i \in 1 .. Len(urls) : remotes[urls[i]] # NoDoc => remotes[urls[i]] \in Sources
    BY <1>2
  <1>4. /\ F \in Seq(Sources)
        /\ \A i \in 1 .. Len(urls) : remotes[urls[i]] # NoDoc =>
             \E j \in 1 .. Len(F) : F[j] = remotes[urls[i]]
    BY <1>1, <1>3, PresentHas
  <1>5. Len(F) \in Nat /\ \A i \in 1 .. Len(F) : F[i] \in Sources
    BY <1>4, LenProperties, ElementOfSeq
  <1>6. IsDocument(local) /\ \A i \in 1 .. Len(F) : IsDocument(F[i])
    BY <1>5, SourcesAreDocuments DEF Sources
  <1>7. PICK at : Merging(local, F, at) /\ R = at[Len(F)]
    BY <1>5, MergeSteps
  <1>8. \A i \in 0 .. Len(F) : IsDocument(at[i])
    BY <1>5, <1>6, <1>7, MergingDocuments
  <1>9. \A i \in 0 .. Len(F) : Keeps(at[i], R)
    <2>1. \A i \in 0 .. Len(F) : Len(F) \in i .. Len(F)
      BY <1>5
    <2> QED
      BY <1>5, <1>6, <1>7, <2>1, MergingKeeps
  <1>10. \A j \in 1 .. Len(F) : DOMAIN F[j].paths \subseteq DOMAIN R.paths
    <2>1. TAKE j \in 1 .. Len(F)
    <2>2. at[j] = MergeDocument(at[j - 1], F[j])
      BY <1>7 DEF Merging
    <2>3. DOMAIN F[j].paths \subseteq DOMAIN at[j].paths
      BY <2>2, MergedPaths
    <2>4. j \in 0 .. Len(F)
      BY <1>5
    <2> QED
      BY <1>9, <2>3, <2>4 DEF Keeps
  <1>11. \A u \in ToSet(urls) : remotes[u] # NoDoc =>
           DOMAIN remotes[u].paths \subseteq DOMAIN R.paths
    BY <1>1, <1>4, <1>10
  <1>12. \A i \in 1 .. Len(F) : mergeOpenApiDocuments(local, SubSeq(F, 1, i - 1)) = at[i - 1]
    <2>1. \A i \in 1 .. Len(F) : i - 1 \in 0 .. Len(F)
      BY <1>5
    <2> QED
      BY <1>4, <1>7, <2>1, MergePrefix
  <1>13. IsDocument(R)
    BY <1>5, <1>7, <1>8
  <1> QED
    BY <1>4, <1>7, <1>8, <1>9, <1>11, <1>12, <1>13

\* A nonempty list of sources names one.
LEMMA SomeSource ==
  ASSUME NEW urls \in Seq(Services), urls # << >>
  PROVE  ToSet(urls) # {}
  <1>1. Len(urls) \in Nat /\ Len(urls) # 0
    BY EmptySeq, LenProperties
  <1>2. 1 \in DOMAIN urls
    BY <1>1, LenProperties
  <1> QED
    BY <1>2 DEF ToSet

\* What a request has fetched are documents.
LEMMA FetchedSources ==
  ASSUME ServicesInv, NEW q, RequestOK(q, mergeSpecUrls, localDocument, served)
  PROVE  \A u \in DOMAIN q.remotes : /\ u \in Services
                                     /\ q.remotes[u] \in Sources \cup {NoDoc}
  <1>1. ToSet(mergeSpecUrls) \subseteq Services
    <2>1. \A i \in DOMAIN mergeSpecUrls : mergeSpecUrls[i] \in Services
      BY LenProperties, ElementOfSeq DEF ServicesInv
    <2> QED
      BY <2>1 DEF ToSet
  <1> QED
    BY <1>1 DEF ServicesInv, RequestOK, Sources

\* A request that has asked every source is answered with their merge.
LEMMA AnswerIsMerge ==
  ASSUME ServicesInv, NEW q, RequestOK(q, mergeSpecUrls, localDocument, served),
         q.pc = "done", DOMAIN q.remotes = Urls
  PROVE  q.answer = mergeOpenApiDocuments(localDocument, Present(q.remotes, mergeSpecUrls))
  <1>1. CASE q.remotes = << >> /\ mergeSpecUrls # << >>
    <2>1. Urls # {}
      BY <1>1, SomeSource DEF ServicesInv, Urls
    <2>2. DOMAIN q.remotes = {}
      BY <1>1
    <2> QED
      BY <2>1, <2>2
  <1>2. CASE ~ (q.remotes = << >> /\ mergeSpecUrls # << >>)
    BY <1>2 DEF RequestOK
  <1> QED
    BY <1>1, <1>2

\* With the invariant, a merge of all sources has their routes, and so has what is cached.
LEMMA InvImpliesWhole ==
  ASSUME DocsInv
  PROVE  AnswersAreWhole
  <1> SUFFICES ASSUME NEW r \in Requests, request[r].pc = "done",
                      NoDoc \notin Range(request[r].remotes), NEW u \in Urls
               PROVE  \E doc \in served[u] :
                        DOMAIN doc.paths \subseteq DOMAIN request[r].answer.paths
    BY DEF AnswersAreWhole
  <1> DEFINE q == request[r]
  <1>1. ServicesInv /\ RequestOK(q, mergeSpecUrls, localDocument, served) /\ q.pc = "done"
    BY DEF DocsInv, RequestsInv
  <1>2. \A v \in DOMAIN q.remotes : q.remotes[v] # NoDoc
    BY DEF Range
  <1> HIDE DEF q
  <1>3. CASE DOMAIN q.remotes = Urls
    <2>1. q.answer = mergeOpenApiDocuments(localDocument, Present(q.remotes, mergeSpecUrls))
      BY <1>1, <1>3, AnswerIsMerge
    <2>2. \A v \in ToSet(mergeSpecUrls) : q.remotes[v] \in Sources \cup {NoDoc}
      BY <1>1, <1>3, FetchedSources DEF Urls
    <2>3. localDocument \in Locals /\ mergeSpecUrls \in Seq(Services)
      BY <1>1 DEF ServicesInv
    <2>4. DOMAIN q.remotes[u].paths \subseteq DOMAIN q.answer.paths
      BY <1>2, <1>3, <2>1, <2>2, <2>3, FetchedMerge DEF Urls
    <2>5. q.remotes[u] \in served[u]
      BY <1>1, <1>2, <1>3 DEF RequestOK
    <2> QED
      BY <2>4, <2>5 DEF q
  <1>4. CASE Whole(q.answer, mergeSpecUrls, served)
    BY <1>4 DEF Whole, Urls, q
  <1>5. DOMAIN q.remotes = Urls \/ Whole(q.answer, mergeSpecUrls, served)
    BY <1>1 DEF RequestOK, Urls
  <1> QED
    BY <1>3, <1>4, <1>5

\* With the invariant, an answer is a merge that keeps what routes mean.
LEMMA InvImpliesMeaning ==
  ASSUME DocsInv
  PROVE  RoutesKeepTheirMeaning
  <1> SUFFICES ASSUME NEW r \in Requests, request[r].pc = "done",
                      DOMAIN request[r].remotes = Urls
               PROVE  LET doc == request[r].answer IN
                      /\ Closed(doc)
                      /\ \A p \in DOMAIN localDocument.paths :
                           Meaning(doc, doc.paths[p], Depth)
                             = Meaning(localDocument, localDocument.paths[p], Depth)
                      /\ \A i \in DOMAIN Fetched(r) : LET extra == Fetched(r)[i] IN
                           \A p \in DOMAIN extra.paths \ DOMAIN Before(r, i).paths :
                             \/ SharedOnTheWay(Before(r, i), extra, extra.paths[p])
                             \/ Meaning(doc, doc.paths[p], Depth)
                                  = Meaning(extra, extra.paths[p], Depth)
    BY DEF RoutesKeepTheirMeaning
  <1> DEFINE q == request[r]
             F == Present(q.remotes, mergeSpecUrls)
             R == q.answer
  <1>1. /\ ServicesInv /\ RequestOK(q, mergeSpecUrls, localDocument, served) /\ q.pc = "done"
        /\ DOMAIN q.remotes = Urls
    BY DEF DocsInv, RequestsInv
  <1>2. Fetched(r) = F /\ \A i : Before(r, i) = mergeOpenApiDocuments(localDocument, SubSeq(F, 1, i - 1))
    BY DEF Fetched, Before
  <1> HIDE DEF q
  <1>3. R = mergeOpenApiDocuments(localDocument, F)
    BY <1>1, AnswerIsMerge
  <1>4. \A v \in ToSet(mergeSpecUrls) : q.remotes[v] \in Sources \cup {NoDoc}
    BY <1>1, FetchedSources DEF Urls
  <1>5. localDocument \in Locals /\ mergeSpecUrls \in Seq(Services)
    BY <1>1 DEF ServicesInv
  <1> HIDE DEF F, R
  <1>6. /\ IsDocument(R) /\ F \in Seq(Sources)
        /\ \E at : /\ Merging(localDocument, F, at) /\ R = at[Len(F)]
                   /\ \A i \in 0 .. Len(F) : IsDocument(at[i])
                   /\ \A i \in 0 .. Len(F) : Keeps(at[i], R)
                   /\ \A i \in 1 .. Len(F) :
                        mergeOpenApiDocuments(localDocument, SubSeq(F, 1, i - 1)) = at[i - 1]
    BY <1>3, <1>4, <1>5, FetchedMerge DEF F
  <1>7. PICK at : /\ Merging(localDocument, F, at) /\ R = at[Len(F)]
                  /\ \A i \in 0 .. Len(F) : IsDocument(at[i])
                  /\ \A i \in 0 .. Len(F) : Keeps(at[i], R)
                  /\ \A i \in 1 .. Len(F) :
                       mergeOpenApiDocuments(localDocument, SubSeq(F, 1, i - 1)) = at[i - 1]
    BY <1>6
  <1>8. /\ Len(F) \in Nat /\ DOMAIN F = 1 .. Len(F)
        /\ \A i \in 1 .. Len(F) : IsDocument(F[i])
    BY <1>6, LenProperties, ElementOfSeq, SourcesAreDocuments
  <1>9. Depth \in Nat
    BY DocsAssumption
  <1>10. ASSUME NEW i \in 0 .. Len(F), NEW p \in DOMAIN at[i].paths
         PROVE  Meaning(R, R.paths[p], Depth) = Meaning(at[i], at[i].paths[p], Depth)
    <2>1. R.paths[p] = at[i].paths[p]
      BY <1>7 DEF Keeps
    <2>2. IsDocument(at[i]) /\ Keeps(at[i], R)
      BY <1>7
    <2>3. at[i].paths[p].ref \in DOMAIN at[i].schemas \cup {NoName}
      BY <2>2, DocumentParts
    <2>4. Meaning(R, at[i].paths[p], Depth) = Meaning(at[i], at[i].paths[p], Depth)
      BY <1>6, <1>9, <2>2, <2>3, KeptMeaning
    <2> QED
      BY <2>1, <2>4
  <1>11. \A p \in DOMAIN localDocument.paths :
           Meaning(R, R.paths[p], Depth) = Meaning(localDocument, localDocument.paths[p], Depth)
    <2>1. at[0] = localDocument /\ 0 \in 0 .. Len(F)
      BY <1>7, <1>8 DEF Merging
    <2> QED
      BY <1>10, <2>1
  <1>12. ASSUME NEW i \in 1 .. Len(F), NEW p \in DOMAIN F[i].paths \ DOMAIN at[i - 1].paths,
                ~ SharedOnTheWay(at[i - 1], F[i], F[i].paths[p])
         PROVE  Meaning(R, R.paths[p], Depth) = Meaning(F[i], F[i].paths[p], Depth)
    <2> DEFINE M    == at[i - 1]
               X    == F[i]
               node == X.paths[p]
    <2>1. IsDocument(M) /\ IsDocument(X) /\ i \in 0 .. Len(F)
      BY <1>7, <1>8
    <2>2. at[i] = MergeDocument(M, X)
      BY <1>7 DEF Merging
    <2>3. node = Node(node.text, node.ref) /\ node.ref \in DOMAIN X.schemas \cup {NoName}
      BY <2>1, DocumentParts
    <2>4. p \in DOMAIN at[i].paths /\ at[i].paths[p] = Rewritten(node, M, X)
      BY <2>2, MergedPaths
    <2>5. Meaning(at[i], Rewritten(node, M, X), Depth) = Meaning(X, node, Depth)
      <3>1. ~ SharedOnTheWay(M, X, node)
        BY <1>12
      <3> HIDE DEF M, X, node
      <3> QED
        BY <2>1, <2>2, <2>3, <3>1, MergedMeaning
    <2> QED
      BY <1>10, <2>1, <2>4, <2>5
  <1>13. Closed(R)
    BY <1>6 DEF IsDocument
  <1>14. \A i \in DOMAIN F : \A p \in DOMAIN F[i].paths \ DOMAIN Before(r, i).paths :
           \/ SharedOnTheWay(Before(r, i), F[i], F[i].paths[p])
           \/ Meaning(R, R.paths[p], Depth) = Meaning(F[i], F[i].paths[p], Depth)
    <2>1. \A i \in 1 .. Len(F) : Before(r, i) = at[i - 1]
      BY <1>2, <1>7
    <2> QED
      BY <1>8, <1>12, <2>1
  <1> QED
    BY <1>2, <1>11, <1>13, <1>14 DEF R, q

\* The type invariant is part of it.
LEMMA InvImpliesTyped ==
  ASSUME DocsInv
  PROVE  DocsTypeOK
  <1>1. ASSUME NEW r \in Requests
        PROVE  /\ request[r].pc \in {"idle", "fetch", "done"}
               /\ request[r].pc = "idle" => request[r] = NoRequest
               /\ request[r].pc = "done" <=> request[r].answer # NoDoc
               /\ DOMAIN request[r].remotes \subseteq Urls
               /\ \A u \in DOMAIN request[r].remotes :
                    request[r].remotes[u] \in served[u] \cup {NoDoc}
    <2>1. RequestOK(request[r], mergeSpecUrls, localDocument, served)
      BY DEF DocsInv, RequestsInv
    <2> QED
      BY <2>1, SourcesAreDocuments DEF RequestOK, Urls
  <1> QED
    BY <1>1 DEF DocsInv, ServicesInv, DocsTypeOK

-----------------------------------------------------------------------------
(* The steps.                                                              *)

\* With no source to ask, the merge is this service's own document.
LEMMA NothingToMerge ==
  /\ Present(<< >>, << >>) = << >>
  /\ \A local : mergeOpenApiDocuments(local, << >>) = local
  /\ ToSet(<< >>) = {}
  <1>1. Len(<< >>) = 0
    BY LenProperties
  <1>2. Present(<< >>, << >>) = << >>
    BY <1>1, PresentSteps
  <1>3. ASSUME NEW local
        PROVE  mergeOpenApiDocuments(local, << >>) = local
    BY <1>1, MergeSteps DEF Merging
  <1>4. ToSet(<< >>) = {}
    BY DEF ToSet
  <1> QED
    BY <1>2, <1>3, <1>4

\* One request changes, and what the services had stays known.
LEMMA OneRequest ==
  ASSUME RequestsInv, NEW r \in Requests, NEW q,
         RequestOK(q, mergeSpecUrls, localDocument, served),
         request' = [request EXCEPT ![r] = q], RequestFrame
  PROVE  RequestsInv'
  <1>1. DOMAIN request' = Requests
    BY DEF RequestsInv
  <1>2. ASSUME NEW s \in Requests
        PROVE  RequestOK(request'[s], mergeSpecUrls, localDocument, served)
    <2>1. CASE s = r
      BY <2>1 DEF RequestsInv
    <2>2. CASE s # r
      <3>1. request'[s] = request[s]
        BY <2>2 DEF RequestsInv
      <3> QED
        BY <3>1 DEF RequestsInv
    <2> QED
      BY <2>1, <2>2
  <1> QED
    BY <1>1, <1>2 DEF RequestsInv, RequestFrame

\* The answer of a request is one of these, and the rest of it stays.
LEMMA Answered ==
  ASSUME RequestsInv, NEW r \in Requests, NEW doc, Answer(r, doc)
  PROVE  request' = [request EXCEPT ![r] =
           [pc |-> "done", remotes |-> request[r].remotes, answer |-> doc]]
  <1> DEFINE old  == request[r]
             q    == [pc |-> "done", remotes |-> old.remotes, answer |-> old.answer]
             over == [pc |-> "done", remotes |-> old.remotes, answer |-> doc]
             f    == [request EXCEPT ![r] = q]
  <1>1. old = [pc |-> old.pc, remotes |-> old.remotes, answer |-> old.answer]
    BY DEF RequestsInv, RequestOK
  <1>2. [request EXCEPT ![r].pc = "done"] = [request EXCEPT ![r] = [old EXCEPT !.pc = "done"]]
    OBVIOUS
  <1>3. [old EXCEPT !.pc = "done"] = q
    BY <1>1
  <1>4. [request EXCEPT ![r].pc = "done"] = f
    BY <1>2, <1>3
  <1>5. request' = [f EXCEPT ![r].answer = doc]
    BY <1>4 DEF Answer
  <1>6. f[r] = q
    BY DEF RequestsInv
  <1>7. [f[r] EXCEPT !.answer = doc] = over
    BY <1>6
  <1>8. [f EXCEPT ![r].answer = doc] = [f EXCEPT ![r] = [f[r] EXCEPT !.answer = doc]]
    OBVIOUS
  <1>9. [f EXCEPT ![r] = over] = [request EXCEPT ![r] = over]
    OBVIOUS
  <1> QED
    BY <1>5, <1>7, <1>8, <1>9

\* Only the requests change.
LEMMA ServicesStay ==
  ASSUME ServicesInv, RequestFrame
  PROVE  ServicesInv'
  BY DEF ServicesInv, RequestFrame

\* What was cached or a document of this service alone is an answer.
LEMMA GetDocumentKeepsInv ==
  ASSUME DocsInv, NEW r \in Requests, GetDocument(r)
  PROVE  DocsInv'
  <1>1. request[r] = NoRequest /\ RequestOK(request[r], mergeSpecUrls, localDocument, served)
    BY DEF DocsInv, RequestsInv, RequestOK, GetDocument
  <1>2. ServicesInv' /\ CacheInv'
    BY ServicesStay DEF DocsInv, CacheInv, GetDocument, RequestFrame
  <1>3. RequestsInv /\ ServicesInv /\ RequestFrame
    BY DEF DocsInv, GetDocument
  <1>4. CASE mergeSpecUrls = << >>
    <2> DEFINE q == [pc |-> "done", remotes |-> << >>, answer |-> localDocument]
    <2>1. request' = [request EXCEPT ![r] = q]
      BY <1>1, <1>3, <1>4, Answered DEF GetDocument, NoRequest
    <2>2. IsDocument(localDocument)
      BY <1>3, SourcesAreDocuments DEF ServicesInv, Sources
    <2>3. localDocument = mergeOpenApiDocuments(localDocument, Present(<< >>, mergeSpecUrls))
      BY <1>4, NothingToMerge
    <2>4. DOMAIN << >> = ToSet(mergeSpecUrls)
      BY <1>4, NothingToMerge
    <2>5. RequestOK(q, mergeSpecUrls, localDocument, served)
      BY <2>2, <2>3, <2>4 DEF RequestOK
    <2> QED
      BY <1>2, <1>3, <2>1, <2>5, OneRequest DEF DocsInv
  <1>5. CASE mergeSpecUrls # << >> /\ cache # NoDoc
    <2> DEFINE q == [pc |-> "done", remotes |-> << >>, answer |-> cache]
    <2>1. request' = [request EXCEPT ![r] = q]
      BY <1>1, <1>3, <1>5, Answered DEF GetDocument, NoRequest
    <2>2. IsDocument(cache) /\ Whole(cache, mergeSpecUrls, served)
      BY <1>5 DEF DocsInv, CacheInv
    <2>3. RequestOK(q, mergeSpecUrls, localDocument, served)
      BY <1>5, <2>2 DEF RequestOK
    <2> QED
      BY <1>2, <1>3, <2>1, <2>3, OneRequest DEF DocsInv
  <1>6. CASE mergeSpecUrls # << >> /\ cache = NoDoc
    <2> DEFINE q == [pc |-> "fetch", remotes |-> << >>, answer |-> NoDoc]
    <2>1. request' = [request EXCEPT ![r].pc = "fetch"]
      BY <1>6 DEF GetDocument
    <2>2. request' = [request EXCEPT ![r] = q]
      <3>1. [request[r] EXCEPT !.pc = "fetch"] = q
        BY <1>1 DEF NoRequest
      <3>2. [request EXCEPT ![r].pc = "fetch"]
              = [request EXCEPT ![r] = [request[r] EXCEPT !.pc = "fetch"]]
        OBVIOUS
      <3> QED
        BY <2>1, <3>1, <3>2
    <2>3. RequestOK(q, mergeSpecUrls, localDocument, served)
      BY DEF RequestOK
    <2> QED
      BY <1>2, <1>3, <2>2, <2>3, OneRequest DEF DocsInv
  <1> QED
    BY <1>4, <1>5, <1>6

\* A source answers with a document that it has had.
LEMMA FetchSpecKeepsInv ==
  ASSUME DocsInv, NEW r \in Requests, NEW u \in Services, FetchSpec(r, u)
  PROVE  DocsInv'
  <1> DEFINE old == request[r]
  <1>1. /\ RequestOK(old, mergeSpecUrls, localDocument, served)
        /\ old.pc = "fetch" /\ u \in ToSet(mergeSpecUrls) \ DOMAIN old.remotes
    BY DEF DocsInv, RequestsInv, FetchSpec, Urls
  <1>2. ServicesInv' /\ CacheInv'
    BY ServicesStay DEF DocsInv, CacheInv, FetchSpec, RequestFrame
  <1>3. RequestsInv /\ ServicesInv /\ RequestFrame
    BY DEF DocsInv, FetchSpec
  <1>4. PICK doc \in {spec[u], NoDoc} :
          request' = [request EXCEPT ![r].remotes = Extended(@, [v \in {u} |-> doc])]
    BY DEF FetchSpec
  <1> DEFINE more == Extended(old.remotes, [v \in {u} |-> doc])
             q    == [pc |-> "fetch", remotes |-> more, answer |-> NoDoc]
  <1>5. old = [pc |-> "fetch", remotes |-> old.remotes, answer |-> NoDoc]
    BY <1>1 DEF RequestOK
  <1>6. request' = [request EXCEPT ![r] = q]
    <2>1. request' = [request EXCEPT ![r] = [old EXCEPT !.remotes = more]]
      BY <1>4
    <2>2. [old EXCEPT !.remotes = more] = q
      BY <1>5
    <2> QED
      BY <2>1, <2>2
  <1>7. /\ DOMAIN more = DOMAIN old.remotes \cup {u}
        /\ \A v \in DOMAIN more : more[v] = IF v \in DOMAIN old.remotes THEN old.remotes[v] ELSE doc
    BY DEF Extended
  <1>8. doc \in served[u] \cup {NoDoc}
    BY <1>3 DEF ServicesInv
  <1> HIDE DEF more
  <1>9. /\ DOMAIN more \subseteq ToSet(mergeSpecUrls)
        /\ \A v \in DOMAIN more : more[v] \in served[v] \cup {NoDoc}
    BY <1>1, <1>7, <1>8 DEF RequestOK
  <1>10. RequestOK(q, mergeSpecUrls, localDocument, served)
    BY <1>9 DEF RequestOK
  <1> QED
    BY <1>2, <1>3, <1>6, <1>10, OneRequest DEF DocsInv

\* The merge is a document, and whole when every source answered.
LEMMA MergeDocumentsKeepsInv ==
  ASSUME DocsInv, NEW r \in Requests, MergeDocuments(r)
  PROVE  DocsInv'
  <1> DEFINE old    == request[r]
             merged == mergeOpenApiDocuments(localDocument, Fetched(r))
             q      == [pc |-> "done", remotes |-> old.remotes, answer |-> merged]
  <1>1. /\ RequestOK(old, mergeSpecUrls, localDocument, served)
        /\ DOMAIN old.remotes = ToSet(mergeSpecUrls)
    BY DEF DocsInv, RequestsInv, MergeDocuments, Urls
  <1>2. RequestsInv /\ ServicesInv /\ RequestFrame /\ ServicesInv'
    BY ServicesStay DEF DocsInv, MergeDocuments
  <1>3. /\ Answer(r, merged)
        /\ cache' = IF EveryAnswered(r) THEN merged ELSE cache
    BY DEF MergeDocuments
  <1>4. merged = mergeOpenApiDocuments(localDocument, Present(old.remotes, mergeSpecUrls))
    BY DEF Fetched
  <1>5. EveryAnswered(r) => \A u \in ToSet(mergeSpecUrls) : old.remotes[u] # NoDoc
    BY DEF EveryAnswered, Urls
  <1>6. request' = [request EXCEPT ![r] = q]
    BY <1>2, <1>3, Answered
  <1> HIDE DEF merged, old
  <1>7. \A u \in ToSet(mergeSpecUrls) : old.remotes[u] \in Sources \cup {NoDoc}
    BY <1>1, <1>2, FetchedSources
  <1>8. localDocument \in Locals /\ mergeSpecUrls \in Seq(Services)
    BY <1>2 DEF ServicesInv
  <1>9. /\ IsDocument(merged)
        /\ \A u \in ToSet(mergeSpecUrls) : old.remotes[u] # NoDoc =>
             DOMAIN old.remotes[u].paths \subseteq DOMAIN merged.paths
    BY <1>4, <1>7, <1>8, FetchedMerge
  <1>10. RequestOK(q, mergeSpecUrls, localDocument, served)
    BY <1>1, <1>4, <1>9 DEF RequestOK
  <1>11. RequestsInv'
    BY <1>2, <1>6, <1>10, OneRequest
  <1>12. CASE EveryAnswered(r)
    <2>1. \A u \in ToSet(mergeSpecUrls) : /\ old.remotes[u] \in served[u]
                                          /\ DOMAIN old.remotes[u].paths \subseteq DOMAIN merged.paths
      BY <1>1, <1>5, <1>9, <1>12 DEF RequestOK
    <2>2. Whole(merged, mergeSpecUrls, served)
      BY <2>1 DEF Whole
    <2>3. cache' = merged
      BY <1>3, <1>12
    <2>4. CacheInv'
      BY <1>2, <1>9, <2>2, <2>3 DEF CacheInv, RequestFrame
    <2> QED
      BY <1>2, <1>11, <2>4 DEF DocsInv
  <1>13. CASE ~ EveryAnswered(r)
    <2>1. CacheInv'
      BY <1>2, <1>3, <1>13 DEF DocsInv, CacheInv, RequestFrame
    <2> QED
      BY <1>2, <1>11, <2>1 DEF DocsInv
  <1> QED
    BY <1>12, <1>13

\* Nothing has been fetched for a request that is over.
LEMMA CloseKeepsInv ==
  ASSUME DocsInv, NEW r \in Requests, Close(r)
  PROVE  DocsInv'
  <1>1. RequestOK(NoRequest, mergeSpecUrls, localDocument, served)
    BY DEF RequestOK, NoRequest
  <1>2. request' = [request EXCEPT ![r] = NoRequest] /\ RequestFrame /\ UNCHANGED cache
    BY DEF Close
  <1>3. RequestsInv'
    BY <1>1, <1>2, OneRequest DEF DocsInv
  <1>4. ServicesInv' /\ CacheInv'
    BY <1>2, ServicesStay DEF DocsInv, CacheInv, RequestFrame
  <1> QED
    BY <1>3, <1>4 DEF DocsInv

\* What a service has had remains so when it is deployed anew.
LEMMA DeployKeepsInv ==
  ASSUME DocsInv, NEW u \in Services, Deploy(u)
  PROVE  DocsInv'
  <1>1. ServicesInv /\ UNCHANGED <<mergeSpecUrls, localDocument, cache, request>>
    BY DEF DocsInv, Deploy
  <1>2. PICK doc \in Specs[u] : /\ spec' = [spec EXCEPT ![u] = doc]
                                /\ served' = [served EXCEPT ![u] = @ \cup {doc}]
    BY DEF Deploy
  <1>3. \A v \in Services : served[v] \subseteq served'[v]
    BY <1>1, <1>2 DEF ServicesInv
  <1>4. ServicesInv'
    <2>1. deploys' \in 0 .. MaxDeploys
      BY <1>1, DocsAssumption DEF ServicesInv, Deploy
    <2>2. \A v \in Services : spec'[v] \in served'[v] /\ served'[v] \subseteq Specs[v]
      BY <1>1, <1>2 DEF ServicesInv
    <2>3. DOMAIN spec' = Services /\ DOMAIN served' = Services
      BY <1>1, <1>2 DEF ServicesInv
    <2> QED
      BY <1>1, <2>1, <2>2, <2>3 DEF ServicesInv
  <1>5. ToSet(mergeSpecUrls) \subseteq Services
    <2>1. \A i \in DOMAIN mergeSpecUrls : mergeSpecUrls[i] \in Services
      BY <1>1, LenProperties, ElementOfSeq DEF ServicesInv
    <2> QED
      BY <2>1 DEF ToSet
  <1>6. ASSUME NEW d, Whole(d, mergeSpecUrls, served)
        PROVE  Whole(d, mergeSpecUrls, served')
    BY <1>3, <1>5, <1>6 DEF Whole
  <1>7. CacheInv'
    BY <1>1, <1>6 DEF DocsInv, CacheInv
  <1>8. ASSUME NEW q, RequestOK(q, mergeSpecUrls, localDocument, served)
        PROVE  RequestOK(q, mergeSpecUrls, localDocument, served')
    <2>1. \A v \in DOMAIN q.remotes : v \in Services
      BY <1>5, <1>8 DEF RequestOK
    <2>2. \A v \in DOMAIN q.remotes : q.remotes[v] \in served'[v] \cup {NoDoc}
      BY <1>3, <1>8, <2>1 DEF RequestOK
    <2> QED
      BY <1>6, <1>8, <2>2 DEF RequestOK
  <1>9. RequestsInv'
    BY <1>1, <1>8 DEF DocsInv, RequestsInv
  <1> QED
    BY <1>4, <1>7, <1>9 DEF DocsInv

\* A service that has just been started has cached nothing.
LEMMA RestartKeepsInv ==
  ASSUME DocsInv, Restart
  PROVE  DocsInv'
  <1>1. ServicesInv'
    BY DocsAssumption DEF DocsInv, ServicesInv, Restart
  <1>2. CacheInv'
    BY DEF CacheInv, Restart
  <1>3. RequestsInv'
    BY DEF RequestsInv, Restart, RequestOK, NoRequest
  <1> QED
    BY <1>1, <1>2, <1>3 DEF DocsInv

\* At the start nothing has been asked for.
LEMMA InitImpliesInv ==
  ASSUME DocsInit
  PROVE  DocsInv
  <1>1. ServicesInv
    <2>1. mergeSpecUrls \in Seq(Services) /\ localDocument \in Locals /\ deploys \in 0 .. MaxDeploys
      BY DocsAssumption DEF DocsInit
    <2>2. \A u \in Services : spec[u] \in served[u] /\ served[u] \subseteq Specs[u]
      BY DEF DocsInit
    <2> QED
      BY <2>1, <2>2 DEF DocsInit, ServicesInv
  <1>2. CacheInv
    BY DEF DocsInit, CacheInv
  <1>3. RequestsInv
    BY DEF DocsInit, RequestsInv, RequestOK, NoRequest
  <1> QED
    BY <1>1, <1>2, <1>3 DEF DocsInv

\* Every step keeps the invariant.
LEMMA NextKeepsInv ==
  ASSUME DocsInv, [DocsNext]_docsVars
  PROVE  DocsInv'
  <1>1. CASE \E r \in Requests : GetDocument(r) \/ MergeDocuments(r) \/ Close(r)
    BY <1>1, GetDocumentKeepsInv, MergeDocumentsKeepsInv, CloseKeepsInv
  <1>2. CASE \E r \in Requests, u \in Services : FetchSpec(r, u)
    BY <1>2, FetchSpecKeepsInv
  <1>3. CASE \E u \in Services : Deploy(u)
    BY <1>3, DeployKeepsInv
  <1>4. CASE Restart
    BY <1>4, RestartKeepsInv
  <1>5. CASE UNCHANGED docsVars
    BY <1>5 DEF docsVars, DocsInv, ServicesInv, CacheInv, RequestsInv
  <1> QED
    BY <1>1, <1>2, <1>3, <1>4, <1>5 DEF DocsNext

\* The invariant that the three theorems rest on.
LEMMA DocsAlwaysInv == DocsSpec => []DocsInv
  <1>1. DocsInit => DocsInv
    BY InitImpliesInv
  <1>2. DocsInv /\ [DocsNext]_docsVars => DocsInv'
    BY NextKeepsInv
  <1> QED
    BY <1>1, <1>2, PTL DEF DocsSpec

\* A request is idle, waits or is answered; what it has fetched is a document
\* that a source it was to ask has had, or none (docs-router.ts:36-66).
THEOREM DocsAlwaysTyped == DocsSpec => []DocsTypeOK
  <1>1. DocsInv => DocsTypeOK
    BY InvImpliesTyped
  <1> QED
    BY <1>1, DocsAlwaysInv, PTL

\* A request none of whose sources failed is answered with the routes of all of
\* them, whatever was cached before (docs-router.ts:15).
THEOREM AnswersAlwaysWhole == DocsSpec => []AnswersAreWhole
  <1>1. DocsInv => AnswersAreWhole
    BY InvImpliesWhole
  <1> QED
    BY <1>1, DocsAlwaysInv, PTL

\* No reference is lost in the merge, and every route means what it means in its
\* own document, but for schemas shared on the way to one that differs
\* (merge.ts:82-86).
THEOREM RoutesAlwaysMean == DocsSpec => []RoutesKeepTheirMeaning
  <1>1. DocsInv => RoutesKeepTheirMeaning
    BY InvImpliesMeaning
  <1> QED
    BY <1>1, DocsAlwaysInv, PTL

=============================================================================
