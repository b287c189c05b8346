------------------------------ MODULE WorkRecords ------------------------------
(***************************************************************************)
(* The server's side of the forms of WorkForms: the fields that the update *)
(* of a record sets in it, and the fields its GET answers, each list read  *)
(* from the API of its record and named as the form names it.  The three   *)
(* lists of the form itself are in WorkForms.  The user may view and       *)
(* assign what the forms show (a check hides its credential from a user    *)
(* who may not view credentials, and keeps it when that user saves).       *)
(***************************************************************************)

\* Credentials: public and secret values are stored by the keys of their type.
CredentialIdentityTaken == {"name", "status", "description", "expires_at", "resource_links"}
CredentialValuesTaken == {"public_values", "secret_values", "cleared_secrets"}
CredentialTaken == CredentialIdentityTaken \union CredentialValuesTaken
CredentialSummary == {"name", "type", "ownership", "client", "status", "expires_at"}
CredentialAnswered ==
    CredentialSummary \union {"description", "public_values", "resource_links"}

\* Documents: the text is versioned, the tags and links are replaced beside it.
\* Mutant of DocumentTextTaken: a changed summary alone is not written.
SummaryNotTaken == {"title", "section", "content", "change_summary"}
DocumentTextTaken == {"title", "summary", "section", "content", "change_summary"}
DocumentLinksTaken == {"tags", "resources", "credentials"}
DocumentTaken == DocumentTextTaken \union DocumentLinksTaken
DocumentSummary == {"title", "summary", "ownership", "client", "section", "tags"}
DocumentAnswered == DocumentSummary \union {"content", "resources", "credentials"}

LeadTaken == {"name", "email", "phone", "company", "brand", "status", "source", "message",
              "notes"}
LeadAnswered == {"name", "email", "phone", "company", "brand", "status", "source", "message",
                 "notes"}

CheckTaken == {"credential", "name", "check_type", "severity", "target", "port",
               "expected_value", "forbidden_value", "interval", "timeout",
               "failure_threshold", "recovery_threshold", "expiry_warning"}
CheckAnswered == {"resource", "name", "check_type", "severity", "target", "port",
                  "expected_value", "forbidden_value", "interval", "timeout",
                  "failure_threshold", "recovery_threshold", "expiry_warning", "credential"}

TaskTaken == {"title", "description", "status", "priority", "due_date", "assigned_to",
              "recurrence"}
TaskSummary == {"title", "status", "priority", "due_date", "assigned_to", "recurrence"}
TaskAnswered == TaskSummary \union {"description"}

ProjectTaken == {"name", "description", "status", "start_date", "end_date", "budget",
                 "hourly_rate"}
ProjectAnswered == {"name", "description", "status", "start_date", "end_date", "budget",
                    "hourly_rate"}

ClientTaken == {"name", "company", "email", "phone", "address", "city", "state", "country",
                "postal_code", "status", "notes"}
ClientAnswered == {"name", "company", "email", "phone", "address", "city", "state",
                   "country", "postal_code", "status", "notes"}
ContactTaken == {"name", "email", "phone", "role"}
ContactAnswered == {"name", "email", "phone", "role"}

PolicyTaken == {"first_response", "resolution"}
PolicyAnswered == {"first_response", "resolution"}

AccessTaken == {"groups", "permissions", "clients"}
AccessAnswered == {"groups", "permissions", "clients"}

TakenBy ==
    [credential |-> CredentialTaken, document |-> DocumentTaken, lead |-> LeadTaken,
     check |-> CheckTaken, task |-> TaskTaken, project |-> ProjectTaken,
     client |-> ClientTaken, contact |-> ContactTaken, queue_policy |-> PolicyTaken,
     staff_access |-> AccessTaken]
AnsweredBy ==
    [credential |-> CredentialAnswered, document |-> DocumentAnswered, lead |-> LeadAnswered,
     check |-> CheckAnswered, task |-> TaskAnswered, project |-> ProjectAnswered,
     client |-> ClientAnswered, contact |-> ContactAnswered, queue_policy |-> PolicyAnswered,
     staff_access |-> AccessAnswered]
=============================================================================
