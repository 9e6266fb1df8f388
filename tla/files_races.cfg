SPECIFICATION FairSpec
CONSTANTS
  t1 = t1
  t2 = t2
  r1 = r1
  f1 = f1
  f2 = f2
  Txn = {t1, t2}
  Req = {r1}
  File = {f1, f2}
  NoTxn = NoTxn
INVARIANTS
  ApprovedHasFile
PROPERTIES
  VerdictStands
  FileFollowsTable
  EveryTransactionEnds
