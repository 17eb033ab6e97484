---------------------------- MODULE MCImproveCycle ----------------------------
\* The improve cycle on small instances.
EXTENDS ImproveCycle
=============================================================================
