SPECIFICATION Spec
CONSTANT Packages <- MCPackages
INVARIANT SentAsPackaged
CHECK_DEADLOCK FALSE
