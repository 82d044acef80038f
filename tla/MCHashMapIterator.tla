-------------------------- MODULE MCHashMapIterator --------------------------
EXTENDS MCHashMap, HashMapIterator

\* The result of the last call decides nothing in any later step.
AllButRet == <<table, size, fixedsize, order, iterVars>>

=============================================================================
