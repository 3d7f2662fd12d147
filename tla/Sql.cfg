SPECIFICATION Spec
CONSTANTS
  Schema <- TheSchema
  Indexes <- TheIndexes
  Views <- TheViews
  Statements <- TheStatements
  Datasets <- TheDatasets
INVARIANTS ResultExact PlanKeepsRows
PROPERTIES ChangesExact RewriteShrinks
CHECK_DEADLOCK FALSE
