SPECIFICATION Spec
CHECK_DEADLOCK FALSE
CONSTANTS
  Locals <- MCLocals
  Manifest <- MCManifest
  Chain <- MCChain
  Linkage <- MCLinkage
  History <- MCHistory
  Movy = "movy"
  Zero = "0"
  NewId <- MCNewId
  Arguments <- MCArguments
INVARIANTS DependenciesDeployed NamesResolve Loadable
