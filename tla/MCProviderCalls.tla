--------------------------- MODULE MCProviderCalls ---------------------------
(* One upscale request, of one or two tiles or too large, next to a remove-background request. *)
EXTENDS ProviderCalls

CONSTANTS u1, r1

\* With a cap of 12 pixels and an overlap of 1: one tile; two in either direction; three to nine,
\* which are planned only; and an image the gate rejects.
MCSizes == {<<4, 3>>, <<8, 2>>, <<2, 7>>, <<9, 2>>, <<3, 8>>, <<7, 4>>, <<4, 9>>, <<11, 3>>, <<9, 9>>}
=============================================================================
