----------------------------- MODULE Permissions -----------------------------
(***************************************************************************)
(* What the settings of one process let its callers do: the validation of  *)
(* config.py, the tools that tools/*.py register, the scopes a caller has  *)
(* (auth/scopes.py) and the checks the services repeat.                    *)
(*                                                                         *)
(* A tool stands for all tools with the same service, class of operation,  *)
(* extra setting and resources; settings keep what those depend on.        *)
(***************************************************************************)
EXTENDS Naturals

Service == {"disk", "wiki"}

\* OperationClass, and the WorkspaceScope that each class requires
Class == {"read", "write", "delete"}

\* lists that switch further tools on when they are not empty; "whole disk" is
\* disk_allow_global_destructive together with the root "/"
Extra == {"public keys", "url hosts", "local dirs", "whole disk"}

Settings ==
  [transport : {"stdio", "streamable-http"}, loopback : BOOLEAN,
   auth : {"local", "static", "multi-user"},
   yandex : {"oauth", "iam", "multi-user"}, credential : BOOLEAN,
   backend : {"memory", "redis"}, encryption : BOOLEAN,
   staticScopes : SUBSET Class,
   enabled : SUBSET Service,
   allows : [Service -> SUBSET Class],
   rooted : SUBSET Service,
   extras : [Service -> SUBSET Extra]]

MultiUser(s) == s.auth = "multi-user"

\* validate_recovery_encryption_keys(), the one validator over several settings
Valid(s) ==
  /\ s.transport = "streamable-http" /\ "delete" \in s.allows["wiki"] => s.encryption
  /\ s.yandex = "iam" => s.credential
  /\ s.yandex = "multi-user" => ~s.credential /\ MultiUser(s)
  /\ MultiUser(s) => s.transport = "streamable-http" /\ s.yandex = "multi-user"
  /\ s.transport = "streamable-http" /\ ~s.loopback =>
       /\ s.auth # "local"
       /\ MultiUser(s) => s.backend = "redis" /\ s.encryption

-----------------------------------------------------------------------------
(* Tools                                                                   *)

Tool(service, class, extra, needs) ==
  [service |-> service, class |-> class, extra |-> extra, needs |-> needs]

\* search and fetch, which reach both services
CommonTool == Tool("workspace", "read", "none", {})

DiskReadTools ==
  {Tool("disk", "read", "none", {}),                 \* info, list, metadata ...
   Tool("disk", "read", "none", {"signed_client"}),  \* disk_read, download link
   Tool("disk", "read", "public keys", {})}

InlineUpload == Tool("disk", "write", "none", {"signed_client"})

\* disk_upload_local_file_background
BackgroundUpload ==
  Tool("disk", "write", "local dirs", {"signed_client", "upload_job_store"})

\* disk_get_upload_status and disk_list_upload_jobs
UploadQuery == Tool("disk", "write", "local dirs", {"upload_job_store"})

DiskWriteTools ==
  {Tool("disk", "write", "none", {}),                \* folder, copy, move ...
   InlineUpload,
   Tool("disk", "write", "url hosts", {}),
   Tool("disk", "write", "local dirs", {"signed_client"}),
   BackgroundUpload,
   UploadQuery}

DiskDeleteTools ==
  {Tool("disk", "delete", "none", {}), Tool("disk", "delete", "whole disk", {})}

WikiReadTools == {Tool("wiki", "read", "none", {})}

WikiWriteTools ==
  {Tool("wiki", "write", "none", {}),
   Tool("wiki", "write", "local dirs", {"signed_client"})}

WikiDeleteTools ==
  {Tool("wiki", "delete", "none", {}),                  \* grids, rows, columns
   Tool("wiki", "delete", "none", {"recovery_store"})}  \* pages

Operation ==
  DiskReadTools \cup DiskWriteTools \cup DiskDeleteTools
    \cup WikiReadTools \cup WikiWriteTools \cup WikiDeleteTools

\* what create_application() registers
Offered(o, s) ==
  /\ o.service \in s.enabled
  /\ o.class \in s.allows[o.service]
  /\ o.extra # "none" => o.extra \in s.extras[o.service]
  /\ o.extra = "local dirs" => s.transport = "stdio"

Registered(s) == {CommonTool} \cup {o \in Operation : Offered(o, s)}

ReadUnchecked(o, s) ==
  /\ o.service \in s.enabled
  /\ o.class # "read" => o.class \in s.allows[o.service]
  /\ o.extra # "none" => o.extra \in s.extras[o.service]

\* The checks with which a method of a service begins, each its own.  The two
\* that query upload jobs only ask whether there is a store, which is among what
\* they need, and no method asks for the transport.
ServiceAccepts(o, s) ==
  /\ o.service \in s.enabled
  /\ o # UploadQuery =>
       /\ o.class \in s.allows[o.service]
       /\ o.extra # "none" => o.extra \in s.extras[o.service]

\* The operations a tool can lead to: search and fetch read from any service,
\* fetch through a signed download too, but neither reads public resources.
Reaches(t) ==
  IF t = CommonTool
    THEN {o \in DiskReadTools \cup WikiReadTools : o.extra = "none"}
    ELSE {t}

-----------------------------------------------------------------------------
(* Scopes                                                                  *)

Implied(c) ==
  CASE c = "read" -> {"read"}
    [] c = "write" -> {"read", "write"}
    [] c = "delete" -> {"read", "write", "delete"}

Expanded(scopes) == UNION {Implied(c) : c \in scopes}

\* scopes_for_permissions() of the flags of both services, enabled or not
Ceiling(s) == Expanded(s.allows["disk"] \cup s.allows["wiki"])

StaticScopes(s) ==
  IF s.staticScopes = {} THEN Ceiling(s)
  ELSE Expanded(s.staticScopes) \cap Ceiling(s)

\* current_principal(): the scopes of a call whose token, in multi-user mode,
\* has the scopes given; without authentication the caller is the local one.
PrincipalScopes(s, tokenScopes) ==
  IF s.transport = "stdio" \/ s.auth = "local" THEN Ceiling(s)
  ELSE IF s.auth = "static" THEN StaticScopes(s)
  ELSE tokenScopes

=============================================================================
