SPECIFICATION CourseSpec
CONSTANTS
  Clients = {"o1", "o2"}
  Names = {course}
  Course = course
  Nobody = Nobody
  PreOrder <- MCPreOrder
  Depth <- MCDepth
  Hitches <- MCHitches
  MaxDriven <- MCMaxDriven
  InitialLinks <- MCInitialLinks
  Touched = {"a", "h1"}
  MaxEdits = 1
INVARIANT BlockedSubtreeRests
PROPERTY DeclaredStatusStands
PROPERTY LostDriveStops
CHECK_DEADLOCK FALSE
