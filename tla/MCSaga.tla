------------------------------- MODULE MCSaga -------------------------------
\* Small sagas: max_retry below, at and above zero.
EXTENDS Saga

BoundaryRetries == {-1, 0, 2}

=============================================================================
