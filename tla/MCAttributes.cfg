CONSTANTS
  Watched <- MCWatched
  MaxArgs = 2
SPECIFICATION Spec
INVARIANT TypeOK
INVARIANT TidyIsSafe
INVARIANT Drawable
INVARIANT ReleasedWhole
 
INVARIANT ShownIsLive
