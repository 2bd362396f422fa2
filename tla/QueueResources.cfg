SPECIFICATION MCSpec
CONSTANTS
  Key = {q1, q2}
  Uar = {u1, u2, u3}
  Null = Null
  Kind = {"cq", "striding_rq", "regular_rq", "ibq_rq", "pp_sq"}
INVARIANTS DmaBacked BadFreeOnlyFailedCq NothingLeft GettersBacked ExclusiveOwnership
PROPERTIES GrantIsStable LostOnlyBesideTaken ImplementsService
CHECK_DEADLOCK FALSE
