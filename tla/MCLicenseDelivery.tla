-------------------------- MODULE MCLicenseDelivery --------------------------
(* A model-checking instance of LicenseDelivery: partial licenses with links of their own,
   and ones that ask for the encryption of what is not a field. *)
EXTENDS LicenseDelivery

MCConfigs ==
    [rels : {{}, {"publication", "status"}}, isURL : BOOLEAN,
     links : {<<"publication", "support", "publication">>, <<"status", "publication">>},
     fields : {<<"email", "name">>}]
    \cup [rels : {{"hint"}}, isURL : {TRUE}, links : {<<"hint">>},
          fields : {<<"name", "phone", "email">>, <<"phone">>, <<"email", "phone">>}]
=============================================================================
