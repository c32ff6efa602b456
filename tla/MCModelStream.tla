----------------------------- MODULE MCModelStream -----------------------------
(* Two routes, one retry on each and answers of up to two pieces: an       *)
(* attempt can fail before, between and after its pieces, on each route.   *)
EXTENDS ModelStream
===============================================================================
