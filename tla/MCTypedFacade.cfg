SPECIFICATION Spec
CONSTANTS
  None = None
  Category <- MCCategory
  Mentions <- MCMentions
  Kind <- MCKind
  Builtin <- MCBuiltin
  Bytes <- MCBytes
  Digest <- MCDigest
  Rescope <- MCRescope
  Inputs <- MCInputs
  Views <- MCViews
  PageSizes <- MCPageSizes
INVARIANTS FrozenAsGiven MembershipIsExact
PROPERTIES ImplementsContract 
CHECK_DEADLOCK FALSE
