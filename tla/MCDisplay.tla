-------------------------------- MODULE MCDisplay --------------------------------
(* A small instance of Display for TLC: fans of two and four beams, evenly *)
(* spaced or not.                                                          *)
EXTENDS Display

MCFans == {<<-3, 3>>, <<-3, -1, 1, 3>>, <<-6, -5, -1, 5>>}
===============================================================================
