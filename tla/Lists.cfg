SPECIFICATION WalkSpec
CONSTANTS
    Rows = {1, 2, 3, 4}
    Moments = {1, 2}
    Limit = 1
INVARIANT EachRowOnce
