-------------------------------- MODULE MCForms --------------------------------
(***************************************************************************)
(* The equipment forms alone, on one listed place, for ChosenStatusKept.   *)
(***************************************************************************)
EXTENDS EquipmentForms

MCPlaces == <<"Lager", "Hall">>
MCServes(h, e) == FALSE        \* the requests are those of the forms
MCChoices == {StorageChoice, [kind |-> "show", place |-> Null]}
                 \cup [kind : {"location", "installation"}, place : {2}]
================================================================================
