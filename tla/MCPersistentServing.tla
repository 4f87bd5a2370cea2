-------------------------- MODULE MCPersistentServing --------------------------
EXTENDS PersistentServing
=============================================================================
