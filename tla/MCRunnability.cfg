CONSTANTS
  Calls = {c1}
  Host = "x86_64"
  Refs <- MCRefs
  Listing <- MCListing
  NoRef = NoRef
  Runtimes <- MCRuntimes
  Declares <- MCDeclares
  Extensions <- MCExtensions
  Registrations <- MCRegistrations
  MaxChanges = 2
SPECIFICATION Spec
INVARIANTS
  TypeOK
  AnswersWitnessed
CHECK_DEADLOCK FALSE
