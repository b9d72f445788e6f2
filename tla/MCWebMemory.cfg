CONSTANTS
  f1 = f1
  f2 = f2
  Fact = {f1, f2}
  Scenarios <- Cases
SPECIFICATION PanelSpec
INVARIANTS HiddenStays SwitchIsCurrent
PROPERTIES PanelSettles
CHECK_DEADLOCK FALSE
