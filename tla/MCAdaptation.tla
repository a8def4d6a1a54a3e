---------------------------- MODULE MCAdaptation ----------------------------
EXTENDS Adaptation

MCFlags == {[resolution |-> r, bitrate |-> TRUE, framerate |-> r] : r \in BOOLEAN}
MCMaxQuality == [width |-> 1280, height |-> 720, fps |-> 30, bitrate |-> 2000000]
=============================================================================
