------------------------------ MODULE MCIndex ------------------------------
EXTENDS Index
CONSTANTS s1
MCSession == {s1}
MCModes == {"delayed", "semidelayed", "immediate"}
MCFlags == {"none", "seen"}
=============================================================================
