------------------------------ MODULE MCReads ------------------------------
(* Small vectors for Reads. *)
EXTENDS Reads

\* A zero vector, two at an angle, and one of another length; queries parallel
\* to one of them, to none, and zero.
MCVectors == {<<0, 0>>, <<2, 0>>, <<-1, 1>>, <<1>>}
MCQueries == {<<1, 0>>, <<1, 2>>, <<0, 0>>}

\* Components of which one is too large for its square.
LargeVectors == {<<-1>>, <<9>>, <<1>>}
LargeQueries == {<<3>>}

=============================================================================
