SPECIFICATION QSpec
CONSTANTS
  Key = {q1, q2}
  Uar = {u1}
  Null = Null
  Kind = {"cq", "striding_rq", "regular_rq", "ibq_rq", "pp_sq"}
INVARIANT ReleasedOnce
