-------------------------- MODULE MCDesktopPayment --------------------------
EXTENDS DesktopPayment
=============================================================================
