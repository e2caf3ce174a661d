------------------------------- MODULE Lists --------------------------------
\* Sequences whose elements have no common type.
EXTENDS Sequences

List(x) == x \in Seq({x[i] : i \in DOMAIN x})
=============================================================================
