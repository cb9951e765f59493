CONSTANTS
  frame = frame
  button = button
  other = other
  gauge = gauge
  NULL = NULL
  Structure = {frame, button, other, gauge}
  Name <- MCName
  LibraryClass <- MCLibrary
  RootClass = frame
  ButtonClass = button
  ChannelValues = 2
  ChannelAt <- MCChannelAt
  Created = {"button", "gauge"}
  Spot = {here, there}
  MaxId = 8
  MaxChildren = 2
SPECIFICATION Spec
SYMMETRY Mirror
INVARIANT TypeOK
INVARIANT PickExact
INVARIANT ClassesLast
INVARIANT SunkenIsPressed
PROPERTY Click
