SPECIFICATION Spec
CONSTANTS
  key1 = key1
  key2 = key2
  val1 = val1
  val2 = val2
  Absent = Absent
  MaxMessages = 2
  Offered <- MCOffered
  Foreign <- MCForeign
INVARIANTS
  TypeOK
  RefusedIsNeverHanded
  HandedAsPublished
