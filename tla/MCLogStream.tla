----------------------------- MODULE MCLogStream -----------------------------
EXTENDS LogStream
CONSTANTS panel1, panel2
TwoPanels == {panel1, panel2}
=============================================================================
