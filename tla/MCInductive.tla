---------------------------- MODULE MCInductive ----------------------------
EXTENDS MCDictServer, DictServerProofs
=============================================================================
