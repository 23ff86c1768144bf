SPECIFICATION Spec
CONSTANTS
  Orders = {o1, o2}
  NoRow = NoRow
  LastUpdate = 2
  DeletePercent = 50
  MaxChanges = 3
  MaxRates = 2
SYMMETRY Symmetry
INVARIANTS RunIsCurrent
PROPERTIES FactsAdvance OnlyGoneOrdersLeave
