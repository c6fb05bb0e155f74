-------------------------- MODULE MCOutputDelivery --------------------------
EXTENDS OutputDelivery
=============================================================================
