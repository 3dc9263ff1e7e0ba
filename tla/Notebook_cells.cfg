SPECIFICATION FairSpec
CONSTANTS
  n1 = n1  n2 = n2  n3 = n3
  Nobody = Nobody
  Cells = {n1, n2}
  Safe = {n1}
  MaxStarts = 2

  
  
PROPERTIES
  CallsEnd
CHECK_DEADLOCK FALSE
