------------------------------ MODULE MCCamera ------------------------------
EXTENDS Camera

\* One vector; the keyboard moves both ways.  A multiple of Duration, so that the
\* positions on the way are whole.
MCVectors == {-6}
=============================================================================
