SPECIFICATION SecretsSpec
CONSTANTS
  Places = {p1, p2, p3, p4}
  None = None
  Forms <- AllForms
INVARIANTS
  SecretsStayPut
