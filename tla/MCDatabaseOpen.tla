--------------------------- MODULE MCDatabaseOpen ---------------------------
EXTENDS DatabaseOpen
CONSTANTS p1, p2, i1, i2, i3, i4, i5, i6

MCRepeatable == {1, 3}
=============================================================================
