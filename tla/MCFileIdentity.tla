--------------------------- MODULE MCFileIdentity ----------------------------
EXTENDS FileIdentity, TLC

\* Paths are interchangeable.
Renaming == Permutations(Path)
=============================================================================
