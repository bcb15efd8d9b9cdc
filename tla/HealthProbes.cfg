SPECIFICATION Spec
CONSTANTS
  N = 2
  LastToken = 2
PROPERTIES SuccessIsReal StatusFollowsResults
