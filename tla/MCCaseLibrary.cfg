SPECIFICATION Spec
CONSTANTS
  Tabs = {t1, t2}
  Revisions = {1, 2, 3}
  None = None
  MaxDamage = 1
SYMMETRY WindowSymmetry
INVARIANT TypeOK
PROPERTIES NoLostUpdate DamageIsKept ImplementsRegister
