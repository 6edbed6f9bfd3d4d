\* A thread that saves, says on and off and marks pictures, one that shows the
\* area, and the process they start.  The area chosen is smaller than the picture,
\* so that frames of both sizes meet.  All may come to wait for one another when
\* the queues of frames and of detections are full: no check for deadlock.
CONSTANTS
  Threads = {t1, t2}
  Classifiers = {k1}
  Picture <- SmallPicture
  Areas <- SmallAreas
  MaxSaves = 1
  MaxModes = 2
SPECIFICATION FairSpec
CONSTRAINT Roles
INVARIANTS
  AreaIsSaved
PROPERTIES
  AreaComesBack
CHECK_DEADLOCK FALSE
