------------------------------ MODULE MCKernel ------------------------------
EXTENDS Kernel

SomeKinds == {"sata", "other"}
SomeSata == {"sata"}
=============================================================================
