SPECIFICATION Spec
CONSTANTS
    Model <- MCModel
    Template <- MCTemplate
    PathOrder <- MCPathOrder
    objectRules <- MCobjectRules
    Requests <- MCRequests
    Collections <- MCCollections
    Varbinds <- MCVarbinds
    StateWrites <- MCStateWrites
    StateDeletes <- MCStateDeletes
    Repetitions = {1, 3}
    Budgets <- MCBudgets
INVARIANTS SnapshotIsDatastore ReadsAgree WalkReports EditsAreExact
PROPERTIES IfIndexStable WalkEnds
CHECK_DEADLOCK FALSE
