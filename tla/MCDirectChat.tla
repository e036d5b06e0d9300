---------------------------- MODULE MCDirectChat ----------------------------
(* The bounds are in the configuration.                                    *)
EXTENDS DirectChat

=============================================================================
