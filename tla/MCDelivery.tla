----------------------------- MODULE MCDelivery -----------------------------
EXTENDS Delivery

CONSTANTS t1, t2
=============================================================================
