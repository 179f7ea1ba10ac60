--------------------------- MODULE MCJvckLayout ---------------------------
(* JvckLayout with two-byte sectors: a layout whose metadata_size is not a *)
(* multiple of the sector size, one with a header replica, one with a      *)
(* single replica, and one whose metadata_size is less than a sector.      *)
EXTENDS JvckLayout
Layout(h, f, size) ==
    [use_header |-> h, use_footer |-> f, metadata_size |-> size]
FourLayouts == {Layout(0, 2, 5), Layout(1, 1, 4), Layout(0, 1, 6), Layout(0, 1, 1)}
OneLayout   == {Layout(0, 2, 4)}
=============================================================================
