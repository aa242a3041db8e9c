---------------------------- MODULE MCImageStore ----------------------------
(***************************************************************************)
(* A small ImageStore for TLC: two daemons whose image names would collide *)
(* if their prefixes ended in one dash, and two whose names Config.Validate*)
(* admits although an image of theirs shares a path with the second's: one *)
(* with a dash more, and one without a name.  Of two uploads, one is to    *)
(* overwrite: they cannot both find an image in their place.               *)
(***************************************************************************)
EXTENDS ImageStore

CONSTANTS u1, u2, b1

MCImages == { [inst |-> <<"a">>, name |-> <<"b", Dash, Dash, "x">>],
              [inst |-> <<"a", Dash, "b">>, name |-> <<Dash, "x">>],
              [inst |-> <<"a", Dash, "b", Dash>>, name |-> <<"x">>],
              [inst |-> <<>>, name |-> <<"a", Dash, "b", Dash, Dash, Dash, "x">>] }
MCUploads == {u1, u2}
MCOverwriting == {u2}
MCBoots == {b1}
=============================================================================
