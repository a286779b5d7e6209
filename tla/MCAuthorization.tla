--------------------------- MODULE MCAuthorization ---------------------------
\* Authorization for TLC: the slots that remember transactions are interchangeable.
EXTENDS Authorization, DomainModel

SlotSymmetry == Permutations(Slots)

=============================================================================
