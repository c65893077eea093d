------------------------------- MODULE MCMain --------------------------------
EXTENDS Main

MCZipfArgs == {<<4, 2>>, <<2, 4>>, <<0, 0>>}
MCDelayArgs == {-1, 0, 5}
==============================================================================
