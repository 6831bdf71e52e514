SPECIFICATION Spec
CONSTANTS
  c1 = c1
  c2 = c2
  Clients = {c1, c2}
  None = None
  MaxUint = 15
  MaxExact = 4
  SecretLike = {2, 3}
  Menus <- AllMenus
INVARIANTS
  AcceptsExactlyRunnable
  PlansSound
  
  
