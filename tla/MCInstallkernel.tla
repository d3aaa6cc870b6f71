-------------------------- MODULE MCInstallkernel ---------------------------
EXTENDS Installkernel
TwoKinds == <<"bzImage", "System.map">>
=============================================================================
