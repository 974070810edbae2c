---------------------------- MODULE MCPlanBilling ----------------------------
EXTENDS PlanBilling, TLC

Symmetry == Permutations(Orgs) \cup Permutations(Customer) \cup Permutations(Session)
              \cup Permutations(Workers)
=============================================================================
