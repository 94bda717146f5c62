------------------------------- MODULE MCWebUI ------------------------------
(* The files that may be there before kiac, for WebUI.                     *)
EXTENDS WebUI

CONSTANTS user

UserFile == [entries |-> [e \in Clusters \cup {user} |-> IF e = user THEN 0 ELSE None],
             current |-> user]
MCOriginals == {NoFile, UserFile}
=============================================================================
