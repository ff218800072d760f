SPECIFICATION FairSpec
CONSTANTS
  LateTakeovers = FALSE
  Speakers = {"speakers", "hdmi"}
  Headsets = {"usb"}
INVARIANTS NoStraySink GivenBackAtTheEnd SilenceIsHeld
PROPERTIES SpeakersFollow
