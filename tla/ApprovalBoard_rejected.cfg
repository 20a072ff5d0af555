SPECIFICATION Spec
CONSTANTS
  ann = ann
  Ann = Ann
  bob = bob
  Bob = Bob
  cyd = cyd
  t1 = t1
  t2 = t2
  t3 = t3
  Identities = {ann, Ann, bob, Bob, cyd}
  Fold <- TheFold
  Requester = ann
  Kinds = {"privileged_admission", "tier3_promotion", "tier4_promotion"}
  Threads = {t1, t2}
PROPERTIES
  RejectionEndsReview
CHECK_DEADLOCK FALSE
