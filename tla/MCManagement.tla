----------------------------- MODULE MCManagement -----------------------------
\* Management with the logins and the key sets of the instance.
EXTENDS Management, TLC

CONSTANTS e1, e2, k1, k2, n1, n2

\* The URL of a state may be used by nobody, by one person or by two.
MCAuthenticated == {<<1, e1>>, <<2, e1>>, <<2, e2>>, <<3, e2>>}
OneLogin == {<<1, e1>>}

\* Before, during and after a rotation, without ids, and empty.
MCServed == {<<[kid |-> n1, key |-> k1]>>,
             <<[kid |-> n2, key |-> k2], [kid |-> n1, key |-> k1]>>,
             <<[kid |-> n2, key |-> k2]>>,
             <<[kid |-> None, key |-> k2]>>,
             <<>>}
===============================================================================
