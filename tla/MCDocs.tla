-------------------------------- MODULE MCDocs --------------------------------
(* Finite instances of DocsRouter: documents with a few schemas, some of    *)
(* which have the same names.                                               *)
EXTENDS DocsRouter

S  == <<"S">>
T  == <<"T">>
S2 == <<"S", 2>>
a  == Node("a", NoName)
b  == Node("b", NoName)

\* What S may be, and T and S_2 if they are there.
Schemas ==
  {[x \in {S} \cup others |-> CASE x = S -> s [] x = T -> t [] x = S2 -> a] :
     others \in SUBSET {T, S2}, s \in {a, b, Node("a", T)}, t \in {a, b}}

\* A service has routes of its own, and one every service has.
Document(route, schemas) ==
  [paths   |-> [p \in {"health", route} |-> Node(route, S)],
   schemas |-> schemas]

Documents(route) == {d \in {Document(route, schemas) : schemas \in Schemas} : Closed(d)}

BankDocuments == Documents("customers")

ServiceDocuments ==
  [u \in {"auth", "reports"} |->
     IF u = "auth" THEN Documents("login")
     ELSE {Document("report", [x \in {S, S2} |-> IF x = S THEN Node("b", S2) ELSE Node("c", NoName)])}]

Lists == {<< >>, <<"auth">>, <<"auth", "reports">>}

Symmetry == Permutations(Requests)
=============================================================================
