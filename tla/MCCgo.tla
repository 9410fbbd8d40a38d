-------------------------------- MODULE MCCgo --------------------------------
EXTENDS Cgo, TLC

Symmetric == Permutations(Structs) \union Permutations(Natives)

=============================================================================
