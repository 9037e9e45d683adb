\* The whole loader on a graph with cycles, rivals and failures.
SPECIFICATION Spec
CONSTANTS
  Docs <- MCDocs
  Root = root
  IRIs = {1, 2, 3}
  Nothing = Nothing
  Ontology <- MCOntology
  Version <- MCVersion
  Bytes <- MCBytes
  Structure <- MCStructure
  Imports <- MCImports
  Answers <- MCAnswers
  Policies = {"IGNORE", "RECORD_UNRESOLVED", "RESOLVE_STRICT"}
  Limits <- MCLimits
  MaxTries = 1
  root = root
  mid = mid
  back = back
  rival = rival
  fork = fork
  anon = anon
  twin = twin
  reread = reread
INVARIANTS ClosureIsExact DepthIsShortest DiagnosticsAddUp
\* A load ends.
CHECK_DEADLOCK FALSE
