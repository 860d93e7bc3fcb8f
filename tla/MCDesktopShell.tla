--------------------------- MODULE MCDesktopShell ---------------------------
EXTENDS DesktopShell
=============================================================================
