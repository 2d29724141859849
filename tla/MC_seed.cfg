SPECIFICATION Spec
CONSTANTS
  a = a
  b = b
  p = p
  q = q
  Seeds = {a, b}
  Passwords = {p, q}
  NoSeed = NoSeed
  NoPw = NoPw
  MaxBackups = 2
  MaxFaults = 2
SYMMETRY Interchangeable
INVARIANTS
  SeedNeverLost
  OldPasswordWorks
