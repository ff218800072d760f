SPECIFICATION Spec
CONSTANTS
  LateTakeovers = TRUE
  Speakers = {"speakers"}
  Headsets = {"usb"}
INVARIANT GivenBackAtTheEnd
