SPECIFICATION Spec
CONSTANTS
  Configs <- MCConfigs
  NormOf <- MCNormOf
  Cuts = {"empty", "one"}
  Guesses <- MCGuesses
  Rules <- MCRules
  ActiveOf <- MCActiveOf
  OutputOf <- MCOutputOf
  Clashing = {"clash"}
  None = None
INVARIANT SuccessAgrees
INVARIANT OneGeneration
INVARIANT NeverClashing
INVARIANT BootLoadable
INVARIANT DuplicateIsReal
PROPERTY EditsKept
