SPECIFICATION NearbySpec
CONSTANTS
  MaxPowerOns = 1
  MaxChanges = 2
  MaxFails = 1
  Addrs = {a1, a2}
  Data = {full, low}
  MaxMoves = 3
INVARIANTS NoSessionUnwanted RestsAsNeededUnlessStrayed DownUnlessStrayed
PROPERTIES ScanComesBack ShowsEveryOpening
CHECK_DEADLOCK FALSE
