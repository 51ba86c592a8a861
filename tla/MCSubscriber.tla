----------------------------- MODULE MCSubscriber -----------------------------
EXTENDS Subscriber

CONSTANTS r1, r2, r3

\* Three replicas, returned by findAllReplicas in this order.
MCManagers == <<r1, r2, r3>>

=============================================================================
