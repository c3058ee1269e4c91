\* Exceptions against what main.cpp says of their handler.
SPECIFICATION Spec
INVARIANT ExceptionsAreLogged
\* The service comes to its end.
CHECK_DEADLOCK FALSE
