CONSTANTS
  Calls = {c1, c2}
  Refs = {p1}
  Statuses = {"ACTIVE", "SUSPENDED"}
  Rates = {1, 2, 3}
  Prices = {0, 1}
  Ops = {"setStatus", "setApiKeyActive", "archiveProject", "createProduct", "updateProduct",
         "upsertPricing", "upsertPlan", "updatePlan", "setPlanVisibility", "setPlanActive",
         "decideTemplate", "recordPlanPayment", "command"}
  MaxFaults = 1
  None = None
SYMMETRY Symmetry
SPECIFICATION Spec
INVARIANTS
  StaleOnlyThroughLateFill
  EveryRateOnRecord
  PaymentsAuditedOnce
PROPERTIES
  EditsKeepPlansConsistent
CHECK_DEADLOCK FALSE
