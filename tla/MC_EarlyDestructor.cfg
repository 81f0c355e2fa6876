SPECIFICATION WlSpec
CONSTANT WlEventBound = 1
PROPERTY DestructorJoins
CHECK_DEADLOCK FALSE
