------------------------------ MODULE MCTriage ------------------------------
EXTENDS Triage
MCTarget == {<<"read", 1>>}
MCTargets == {<<"read", 1>>, <<"handled", 1>>, <<"priority", 2>>}
=============================================================================
