--------------------------- MODULE MCLoaderHook ---------------------------
(* LoaderHook with the values as model values. *)
EXTENDS LoaderHook
CONSTANTS a, b
TwoValues == {a, b}
=============================================================================
