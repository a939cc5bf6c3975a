SPECIFICATION MCSpec
CONSTANTS
  compass = compass  eye = eye  slot = slot  server_item = server_item  pane = pane  outside = outside
  c1 = c1  c2 = c2
  Hotbar = {compass, eye}
  SelectorSlot = compass
  ToggleSlot = eye
  Pack = {slot}
  Menu = {server_item, pane}
  Offers <- SomeOrNone
  Protocol <- ModernAndLegacy
  MaxWindowId = 3
  MaxInputs = 3
  Outside = outside
INVARIANTS WindowsAgree SelectsWhatIsShown ItemsAreInPlace
PROPERTIES EventuallyShown EventuallyGone
CHECK_DEADLOCK FALSE
