---------------------------- MODULE MCHttpServer ----------------------------
(* Instances of HttpServer for TLC.  Browsers are interchangeable, but      *)
(* liveness is checked: no symmetry.                                        *)
EXTENDS HttpServer
=============================================================================
