------------------------------ MODULE MCExclFile -----------------------------
\* Model-checking instance of ExclFile: its constants are sets of model values
\* given in MCExclFile.cfg.
EXTENDS ExclFile
==============================================================================
