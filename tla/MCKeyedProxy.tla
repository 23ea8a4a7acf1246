----------------------------- MODULE MCKeyedProxy -----------------------------
EXTENDS KeyedProxy, MCProxy
=============================================================================
