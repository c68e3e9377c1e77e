-------------------------- MODULE MCRemnawaveSync --------------------------
EXTENDS RemnawaveSync
=============================================================================
