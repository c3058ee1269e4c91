\* Offers of up to two methods, the fourth octet a method nobody knows.
CONSTANTS
  MethodOctets = {0, 1, 2, 128}
  MaxOffer = 2
SPECIFICATION FairSpec
INVARIANTS
  AdmissionIsEarned
  AdmittedIsTold
  SilenceIsLogged
PROPERTIES
  LoanPromise
  DialogueEnds
\* The dialogue comes to its end.
CHECK_DEADLOCK FALSE
