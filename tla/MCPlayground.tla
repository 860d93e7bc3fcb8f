---------------------------- MODULE MCPlayground ----------------------------
EXTENDS Playground
=============================================================================
