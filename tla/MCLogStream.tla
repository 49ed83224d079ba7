----------------------------- MODULE MCLogStream -----------------------------
EXTENDS LogStream, TLC

\* Loggers and connections are interchangeable.
Symmetry == Permutations(Logger) \cup Permutations(Conn)
=============================================================================
