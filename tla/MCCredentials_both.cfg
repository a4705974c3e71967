\* A secret typed out of sight goes to a place it was not typed for.
SPECIFICATION SecretsSpec
CONSTANTS
  Places = {p1, p2, p3, p4}
  None = None
  Forms <- AllForms
INVARIANTS
  NothingStrays
