SPECIFICATION Spec
CONSTANTS
  Dev = {"tun", "wlan"}
  Con = {"vpn", "home"}
  DevKind <- MCDevKind
  ConKind <- MCConKind
  ConDev <- MCConDev
  NmState = {"global", "local"}
  MaxChanges = 3
INVARIANT TypeOK
INVARIANT DevicesMatch
INVARIANT SignalledPathsExist
INVARIANT ObjectsAgree
INVARIANT SignalsAgree
PROPERTY Converges
