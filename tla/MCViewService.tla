--------------------------- MODULE MCViewService ---------------------------
(* Constants of the model-checking runs of ViewService.                    *)
EXTENDS ViewService

CONSTANTS s1, s2

TwoServers == {s1, s2}
=============================================================================
