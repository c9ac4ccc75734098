------------------------------- MODULE MCHash -------------------------------
EXTENDS Hash
\* Two strings with the same hash code, and others that collide with them or
\* are kept apart from them only by perturb.
MCKey == {<<1, 1>>, <<1, 2>>, <<5, 1>>, <<33, 1>>, <<6, 1>>}
=============================================================================
