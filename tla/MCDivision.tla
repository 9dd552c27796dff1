------------------------------ MODULE MCDivision ------------------------------
(* Model-checking instance of Division: points about the origin, in cubes of *)
(* different widths; some share an octant.                                   *)
EXTENDS Division

MCPoints == {<<0, 0, 0>>, <<-1, 3, 0>>, <<2, 1, 0>>, <<4, 4, 4>>, <<3, 3, 2>>}
===============================================================================
