SPECIFICATION Spec
CONSTANTS
  N = 6
  Counterparty <- MCHubs
  K <- MCTwo
  MaxPeer <- MCCaps
  EnforceHubCap = TRUE
INVARIANT HubBounded
INVARIANT DegreeKept
