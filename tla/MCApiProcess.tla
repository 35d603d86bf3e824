----------------------------- MODULE MCApiProcess -----------------------------
EXTENDS ApiProcess
CONSTANTS ann, bob, patch1, patch2, page
=============================================================================
