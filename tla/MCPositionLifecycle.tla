------------------------ MODULE MCPositionLifecycle ------------------------
\* One ticket, which may be a market position or an order and its fill.
EXTENDS PositionLifecycle
============================================================================
