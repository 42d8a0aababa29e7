SPECIFICATION FairSpec
CONSTANTS
  Key <- TwoKeys

  
  
PROPERTIES
  AllOrNothing
  
