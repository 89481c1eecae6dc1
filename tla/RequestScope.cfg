CONSTANTS
  Nil = Nil
  Root = Root
  Tasks = {Root, t1, t2, t3, t4}
SYMMETRY Alike
SPECIFICATION ScopeSpec
INVARIANTS EnabledWhileRequestRuns OneRequestAround MemoStaysInRequest
CHECK_DEADLOCK FALSE
