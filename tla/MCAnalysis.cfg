CONSTANTS
  Precision = 4
  Validations <- MCValidations
  Results <- MCResults
  Thresholds <- MCThresholds
  Targets <- MCTargets
  Budgets <- MCBudgets
  Families <- MCFamilies
SPECIFICATION Spec
INVARIANTS
  OperatingPointsAreBest
  PoliciesDebounce
  RawUnlessTooLoud
  HolmIsStepDown
CHECK_DEADLOCK FALSE
