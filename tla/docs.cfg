SPECIFICATION DocsSpec
CONSTANTS
  Services = {"auth", "reports"}
  UrlLists <- Lists
  Requests = {r1, r2}
  Locals <- BankDocuments
  Specs <- ServiceDocuments
  MaxDeploys = 1
  Depth = 3
SYMMETRY Symmetry
INVARIANTS
  DocsTypeOK
  AnswersAreWhole
  RoutesKeepTheirMeaning
