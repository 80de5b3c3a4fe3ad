------------------------------ MODULE MCEventLoop ------------------------------
EXTENDS EventLoop, TLC
================================================================================
