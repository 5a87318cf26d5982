---------------------------- MODULE MCExceptions ----------------------------
EXTENDS Exceptions
=============================================================================
