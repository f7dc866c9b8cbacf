----------------------------- MODULE MCNmMirror -----------------------------
(* A tunnel, a wifi and a wired device, each with a connection, for TLC.   *)
EXTENDS NmMirror

MCDevKind ==
  LET kind == [tun |-> "other", wlan |-> "wifi", eth |-> "ethernet"]
  IN  [d \in Dev |-> kind[d]]

MCConKind ==
  LET kind == [vpn |-> "other", home |-> "wifi", lan |-> "ethernet"]
  IN  [c \in Con |-> kind[c]]

MCConDev ==
  LET dev == [vpn |-> "tun", home |-> "wlan", lan |-> "eth"]
  IN  [c \in Con |-> dev[c]]
=============================================================================
