------------------------------ MODULE MCRgbLed -------------------------------
(* RgbLed for TLC: the colours of all_good, nah_mate and led_test.sh.      *)
EXTENDS RgbLed

MCColours == {[r |-> 0, g |-> 0, b |-> 255], [r |-> 255, g |-> 0, b |-> 0]}
MCSettings == <<LEDDCR0, LEDDBR, LEDDOFR>>
MCHostColour == [r |-> 0, g |-> 20, b |-> 255]
=============================================================================
