SPECIFICATION Spec
CONSTANTS
  MaxRows = 2
  MaxClicks = 2
  MaxFrames = 2
PROPERTIES
  BadgeSettles
