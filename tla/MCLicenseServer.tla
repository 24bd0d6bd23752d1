--------------------------- MODULE MCLicenseServer ---------------------------
(* A model-checking instance of LicenseServer: one license whose content may be either of
   two, so that touches of the other content occur. *)
EXTENDS LicenseServer
=============================================================================
