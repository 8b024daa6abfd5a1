------------------------------ MODULE MCServing ------------------------------
(* The instance of Serving that TLC checks: two devices with room for one    *)
(* session and one request each, and a single thread to wait in.             *)
EXTENDS Serving
=============================================================================
