SPECIFICATION Spec
CONSTANTS
  Rules <- MCRules
  Contexts <- MCContexts
  Any = "any"
INVARIANT HigherDimensionOutranks
