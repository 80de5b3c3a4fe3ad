-------------------------- MODULE MCControlledService --------------------------
EXTENDS ControlledService, TLC
================================================================================
