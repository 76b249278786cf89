SPECIFICATION Spec
CONSTANTS
  Sizes = {2, 3}
  Viewports = {4, 5}
  Samples = 2
  MaxViewport = 12
  Pages = {p, q}
  Nothing = Nothing
  MaxBuffer = 1
  MaxQueue = 2
CHECK_DEADLOCK FALSE
INVARIANTS
  GeometryAgrees
  ScreenIsBaseline
  ClicksHitWhatIsShown
  ScreenComplete
PROPERTIES
  OutOfBoundsOnlyInARace
