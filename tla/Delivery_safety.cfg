SPECIFICATION Spec
CONSTANTS
  u1 = u1
  u2 = u2
  Unit = {u1, u2}
  Plans <- TwoUnitsOrTwoGrants
  MaxGrants = 2
  MaxClaims = 2
  MaxEffects = 1
  MaxGen = 2
INVARIANTS
    DeliveryInv
    AcceptedOnDelivery
    UnresolvedIsReconcilable
    DeliveredReachesReview
PROPERTIES
    StopIsFinal
    NoAuthorityWithoutGrant
CHECK_DEADLOCK FALSE
