-------------------------- MODULE MCScreenBrightness --------------------------
(* Small instances of ScreenBrightness for TLC: a backlight coarser than   *)
(* percent, and requests at and beyond both ends.                          *)
EXTENDS ScreenBrightness

MCRequested == {NaN, -5, 1, 95}
=============================================================================
