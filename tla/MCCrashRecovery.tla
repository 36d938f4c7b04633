-------------------------- MODULE MCCrashRecovery --------------------------
\* Instance of CrashRecovery: an account that is long one lot, and an order that
\* sells one.
EXTENDS CrashRecovery

CONSTANT sell

MCOrders == {sell}
MCLots == [o \in Orders |-> -1]
=============================================================================
