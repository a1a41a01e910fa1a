--------------------------- MODULE MCNotifyEngine ---------------------------
EXTENDS NotifyEngine

\* The cache warning on and off; the other kinds are on.
MCInForce == {[cache |-> c, kinds |-> Kind] : c \in BOOLEAN}
=============================================================================
