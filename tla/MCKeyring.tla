----------------------------- MODULE MCKeyring -----------------------------
EXTENDS Keyring, TLC
CONSTANTS x, y, d1, d2
=============================================================================
