------------------------------ MODULE MCFrontend ------------------------------
(* A model-checking instance of LicenseView: requests, ids and one master file. *)
EXTENDS LicenseView
=============================================================================
