----------------------------- MODULE MCConnection -----------------------------
(* Model-checking instance of Connection.                                    *)
EXTENDS Connection

(* A bound: once a header was cut or sends have raced, one bundle only.      *)
OneMore == Sound \/ bundles <= 1
===============================================================================
