------------------------------ MODULE Services ------------------------------
(***************************************************************************)
(* The components that talk to one server each, the database behind the    *)
(* data-api, the storage, the logs service.  They share nothing, so one of *)
(* them is active in a behaviour: their states add up and need not be      *)
(* multiplied.                                                             *)
(***************************************************************************)
EXTENDS Crud, UploadFile, LogsWriter

VARIABLE active     \* "crud", "upload-file" or "logs-writer"

vars == <<active, crudVars, uploadVars, logsVars>>

Init ==
    /\ CrudInit /\ UploadInit /\ LogsInit
    /\ active \in {"crud", "upload-file", "logs-writer"}
    /\ active # "crud" => database = [r \in Records |-> Absent]
    /\ active # "upload-file" => file = [u \in Uploads |-> Undecodable]
    /\ active # "logs-writer" =>
        ~configured /\ messages = <<>> /\ variables = {} /\ readable.variables

CrudActs == active = "crud" /\ UNCHANGED <<active, uploadVars, logsVars>>
UploadActs == active = "upload-file" /\ UNCHANGED <<active, crudVars, logsVars>>
LogsActs == active = "logs-writer" /\ UNCHANGED <<active, crudVars, uploadVars>>

Next ==
    \/ CrudNext /\ CrudActs
    \/ UploadNext /\ UploadActs
    \/ LogsNext /\ LogsActs

Spec == Init /\ [][Next]_vars

\* crud awaits its requests, and each ends with an answer or an error.
FairSpec == Spec /\ \A c \in Clients : WF_vars(Work(c) /\ CrudActs)
=============================================================================
