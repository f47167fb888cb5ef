SPECIFICATION Spec
CONSTANTS
  Row <- MCRow
  Table <- MCTable
  Refs <- MCRefs
  Tenant <- MCTenant
  By <- MCBy
  Databases <- MCDatabases
  Keeper = {"keeper"}
  NoRow = "none"
  Actor = {p, q}
  MaxOps = 2
  MaxFaults = 1
  p = p
  q = q
  
PROPERTIES ErasedIsGone OthersKeepTheirs
CHECK_DEADLOCK FALSE
SYMMETRY Alike
