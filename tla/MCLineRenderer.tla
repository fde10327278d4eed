--------------------------- MODULE MCLineRenderer ---------------------------
(* Small instances of LineRenderer for TLC. *)
EXTENDS LineRenderer

\* Everything off, on with the left column masked, sprites only, everything on, and
\* everything on with another pattern table.
AllSettings ==
  {<<{}, 0>>, <<{"bg", "spr"}, 0>>, <<{"spr", "left"}, 0>>,
   <<{"bg", "spr", "left"}, 0>>, <<{"bg", "spr", "left"}, 1>>}
FewSettings == {<<{}, 0>>, <<{"bg", "spr", "left"}, 0>>}

\* Sprite 0 at the left edge with only its last pixel opaque, and in the last tile
\* with its last two: the very last column never hits.
EdgeSprites == {[x |-> 0, data |-> {7}], [x |-> TileDots * (Tiles - 1), data |-> {6, 7}]}
=============================================================================
