---------------------------- MODULE MCWasiEngine ----------------------------
EXTENDS WasiEngine

CONSTANTS a, b
MCValue == {a, b}
=============================================================================
