----------------------------- MODULE Application -----------------------------
(***************************************************************************)
(* The life of a server process (server.py): open(), the lifespan, close() *)
(* and restarts with other settings, composed with the store of background *)
(* uploads that one of its resources is.                                   *)
(*                                                                         *)
(* open() and close() are called by the lifespan only, once per process.   *)
(* What they do between two suspension points is one step: open() is       *)
(* suspended in the ping of a Redis store, closing in each close().        *)
(***************************************************************************)
EXTENDS UploadJobs, Permissions

CONSTANTS
  Configurations,  \* the settings that processes are started with
  Call,            \* concurrent tool calls
  MaxRestarts      \* bound of the number of restarts

ASSUME ConfigurationAssumption ==
  /\ \A s \in Configurations : s \in Settings /\ Valid(s)
  /\ MaxRestarts \in Nat

\* In the order in which open() creates them.
Kinds == <<"auth_store", "oauth_callback", "disk_client", "wiki_client",
           "recovery_store", "signed_client", "upload_job_store">>

Resource == {Kinds[i] : i \in 1..7}

Rank(k) == CHOOSE i \in 1..7 : Kinds[i] = k

None == "none"

VARIABLES
  settings,  \* Application.settings
  phase,     \* where the process is
  opened,    \* _opened_resources, a list whose order is that of Kinds
  live,      \* the resources that exist and were not closed
  shutting,  \* the resource whose close() is being awaited
  raised,    \* the resource whose close() raised or was cancelled
  call,      \* the tool calls that were admitted
  token,     \* the scopes of a caller's token, {} if it has none
  restarts

app == <<settings, phase, opened, live, shutting, raised, call, token, restarts>>
allVars == <<vars, app>>

NoCall == [at |-> "none"]

CallType ==
  {NoCall} \cup [at : {"resolving", "sending"}, operation : Operation,
                 scopes : SUBSET Class]

AppTypeOK ==
  /\ settings \in Configurations
  /\ phase \in {"new", "pinging", "active", "closing", "unwinding",
                "closed", "broken", "failed", "unreachable"}
  /\ opened \in SUBSET Resource
  /\ live \in SUBSET Resource
  /\ shutting \in Resource \cup {None}
  /\ raised \in Resource \cup {None}
  /\ call \in [Call -> CallType]
  /\ token \in SUBSET Class
  /\ restarts \in 0..MaxRestarts

-----------------------------------------------------------------------------
(* What open() creates.                                                    *)

Stdio(s) == s.transport = "stdio"

LocalDirs(s, service) == "local dirs" \in s.extras[service]

TrustedLocalUpload(s) ==
  /\ Stdio(s)
  /\ \E v \in Service : LocalDirs(s, v) /\ "write" \in s.allows[v]

SignedOnlyForUploads(s) == TrustedLocalUpload(s)

NeedsSigned(s) ==
  TrustedLocalUpload(s) \/ ("disk" \in s.enabled /\ "read" \in s.allows["disk"])

Needed(s) ==
  (IF MultiUser(s) THEN {"auth_store", "oauth_callback"} ELSE {})
  \cup (IF "disk" \in s.enabled THEN {"disk_client"} ELSE {})
  \cup (IF "wiki" \in s.enabled THEN {"wiki_client"} ELSE {})
  \cup (IF "wiki" \in s.enabled /\ "delete" \in s.allows["wiki"]
          THEN {"recovery_store"} ELSE {})
  \cup (IF NeedsSigned(s) THEN {"signed_client"} ELSE {})
  \cup (IF Stdio(s) /\ "write" \in s.allows["disk"] /\ LocalDirs(s, "disk")
          THEN {"upload_job_store"} ELSE {})

\* RedisTokenStore makes its client in its constructor, before open().
Constructed(s) == IF MultiUser(s) THEN {"auth_store"} ELSE {}

CredentialMissing(s) == s.enabled # {} /\ s.yandex # "multi-user" /\ ~s.credential

\* the constructors of the services refuse permissions without allowed roots
ServicesRefuse(s) == \E v \in s.enabled \ s.rooted : s.allows[v] # {}

PingsStore(s) == MultiUser(s) /\ s.backend = "redis"

AppInit ==
  /\ Init
  /\ settings \in Configurations
  /\ phase = "new"
  /\ opened = {}
  /\ live = Constructed(settings)
  /\ shutting = None
  /\ raised = None
  /\ call = [c \in Call |-> NoCall]
  /\ token = {}
  /\ restarts = 0

-----------------------------------------------------------------------------
(* _close_resources(): pop the newest, await its close(), and so on.       *)

OldestOf(S) == CHOOSE k \in S : \A l \in S : Rank(k) <= Rank(l)

NewestOf(S) == CHOOSE k \in S : \A l \in S : Rank(l) <= Rank(k)

\* All are closed, whether after the lifespan or after a failed open().
Rest(mode) == IF mode = "closing" THEN "closed" ELSE "failed"

CloseNext(S, mode) ==
  /\ shutting' = IF S = {} THEN None ELSE NewestOf(S)
  /\ opened' = S \ {shutting'}
  /\ phase' = IF S = {} THEN Rest(mode) ELSE mode

\* A job store without tasks closes without suspending.
CloseAll(S, exist, mode) ==
  \/ /\ "upload_job_store" \notin S
     /\ CloseNext(S, mode)
     /\ live' = exist
     /\ UNCHANGED vars
  \/ /\ "upload_job_store" \in S
     /\ CloseBegin
     /\ CloseNext(S, mode)
     /\ live' = exist
  \/ /\ "upload_job_store" \in S
     /\ CloseIdle
     /\ CloseNext(S \ {"upload_job_store"}, mode)
     /\ live' = exist \ {"upload_job_store"}

CloseReturns ==
  /\ shutting \notin {None, "upload_job_store"}
  /\ CloseNext(opened, phase)
  /\ live' = live \ {shutting}
  /\ UNCHANGED <<vars, settings, raised, call, token, restarts>>

JobStoreCloses ==
  /\ shutting = "upload_job_store"
  /\ CloseFinish
  /\ CloseNext(opened, phase)
  /\ live' = live \ {shutting}
  /\ UNCHANGED <<settings, raised, call, token, restarts>>

\* The exception leaves the loop: what is still in the list stays open.
Interrupted ==
  /\ raised' = shutting
  /\ shutting' = None
  /\ phase' = IF phase = "closing" THEN "broken" ELSE "failed"
  /\ UNCHANGED <<settings, opened, live, call, token, restarts>>

\* close() of the shared recovery store has no statement that could raise
CloseRaises ==
  /\ shutting \notin {None, "upload_job_store"}
  /\ ~(shutting = "recovery_store" /\ MultiUser(settings))
  /\ Interrupted
  /\ UNCHANGED vars

JobStoreInterrupted ==
  /\ shutting = "upload_job_store"
  /\ CloseInterrupted
  /\ Interrupted

-----------------------------------------------------------------------------
(* open() and the lifespan                                                 *)

Refuse ==
  /\ phase = "new"
  /\ CredentialMissing(settings)
  /\ phase' = "failed"
  /\ UNCHANGED <<vars, settings, opened, live, shutting, raised, call, token,
                 restarts>>

OpenStore ==
  /\ phase = "new"
  /\ PingsStore(settings)
  /\ phase' = "pinging"
  /\ UNCHANGED <<vars, settings, opened, live, shutting, raised, call, token,
                 restarts>>

\* The store is not in the list yet: nothing closes its client.
PingFails ==
  /\ phase = "pinging"
  /\ phase' = "unreachable"
  /\ UNCHANGED <<vars, settings, opened, live, shutting, raised, call, token,
                 restarts>>

Ready ==
  \/ phase = "pinging"
  \/ phase = "new" /\ ~CredentialMissing(settings) /\ ~PingsStore(settings)

Forgetful(S) == S \ {"signed_client"}

\* each resource is appended to the list right after it was created
Listed(S) == S

Build ==
  /\ Ready
  /\ ~ServicesRefuse(settings)
  /\ phase' = "active"
  /\ live' = live \cup Needed(settings)
  /\ opened' = Listed(Needed(settings))
  /\ UNCHANGED <<vars, settings, shutting, raised, call, token, restarts>>

\* A factory raises, or a constructor of a service after all of them.
BuildFails ==
  /\ Ready
  /\ \E n \in 1..7 :
       LET made == {k \in Needed(settings) : Rank(k) <= n} IN
         /\ Constructed(settings) \subseteq made
         /\ CloseAll(Listed(made), live \cup made, "unwinding")
  /\ UNCHANGED <<settings, raised, call, token, restarts>>

LifespanExit ==
  /\ phase = "active"
  /\ CloseAll(opened, live, "closing")
  /\ UNCHANGED <<settings, raised, call, token, restarts>>

\* The process ends or crashes, and is started again with any settings.  What
\* is in memory is lost; tokens outlive it in Redis.  (A token left behind in
\* Redis while a process runs without Redis is not followed.)
Restart ==
  /\ restarts < MaxRestarts
  /\ restarts' = restarts + 1
  /\ settings' \in Configurations
  /\ phase' = "new"
  /\ opened' = {}
  /\ live' = Constructed(settings')
  /\ shutting' = None
  /\ raised' = None
  /\ call' = [c \in Call |-> NoCall]
  /\ token' = IF PingsStore(settings) /\ PingsStore(settings') THEN token ELSE {}
  /\ jobs' = {} /\ registered' = {} /\ cancelling' = {} /\ submitted' = 0
  /\ closed' = FALSE /\ closer' = "idle"
  /\ born' = [j \in Job |-> 0] /\ expires' = [j \in Job |-> 0]
  /\ status' = [j \in Job |-> "none"] /\ handle' = [j \in Job |-> "none"]
  /\ task' = [j \in Job |-> "none"]
  /\ UNCHANGED now

-----------------------------------------------------------------------------
(* Calls                                                                   *)

\* self.state is set: also while close() runs, and for good if it was broken off
Serving == phase \in {"active", "closing", "broken"}

\* A tool is registered, its scope is granted, and the method of the service
\* that it calls accepts the operation and has the resources it needs.
Admitted(t, o, scopes) ==
  /\ Serving
  /\ t \in Registered(settings)
  /\ t.class \in scopes
  /\ o \in Reaches(t)
  /\ ServiceAccepts(o, settings)
  /\ o.needs \subseteq Needed(settings)

Scopes == PrincipalScopes(settings, token)

StartCall(c) ==
  /\ call[c] = NoCall
  /\ \E t \in Registered(settings) : \E o \in Reaches(t) :
       /\ Admitted(t, o, Scopes)
       /\ call' = [call EXCEPT ![c] = [at |-> "resolving", operation |-> o,
                                       scopes |-> Scopes]]
  /\ UNCHANGED <<vars, settings, phase, opened, live, shutting, raised, token,
                 restarts>>

\* _request_credentials(): from the settings, or from the token store and the
\* HTTP client of the OAuth callback
Resolve(c) ==
  /\ call[c].at = "resolving"
  /\ MultiUser(settings) => {"auth_store", "oauth_callback"} \subseteq live
  /\ call' = [call EXCEPT ![c].at = "sending"]
  /\ UNCHANGED <<vars, settings, phase, opened, live, shutting, raised, token,
                 restarts>>

\* The call returns, fails or is cancelled.
EndCall(c) ==
  /\ call[c] # NoCall
  /\ call' = [call EXCEPT ![c] = NoCall]
  /\ UNCHANGED <<vars, settings, phase, opened, live, shutting, raised, token,
                 restarts>>

\* upload_local_file_background(): no suspension before the end of submit()
SubmitUpload(j) ==
  /\ Admitted(BackgroundUpload, BackgroundUpload, Scopes)
  /\ Submit(j)
  /\ UNCHANGED app

\* get_upload_status(), list_upload_jobs()
QueryUploads ==
  /\ Admitted(UploadQuery, UploadQuery, Scopes)
  /\ Query
  /\ UNCHANGED app

\* A caller signs in, or its token is revoked or expires.
IssueToken ==
  /\ phase = "active"
  /\ MultiUser(settings)
  /\ token' \in {Implied(c) : c \in Ceiling(settings)} \cup {{}}
  /\ UNCHANGED <<vars, settings, phase, opened, live, shutting, raised, call,
                 restarts>>

-----------------------------------------------------------------------------

RunTask(j) == TaskStep(j) /\ UNCHANGED app

Open == Refuse \/ OpenStore \/ PingFails \/ Build \/ BuildFails

Closing ==
  CloseReturns \/ CloseRaises \/ JobStoreCloses \/ JobStoreInterrupted

AppNext ==
  \/ Open
  \/ LifespanExit
  \/ Closing
  \/ Restart
  \/ \E c \in Call : StartCall(c) \/ Resolve(c) \/ EndCall(c)
  \/ \E j \in Job : SubmitUpload(j) \/ RunTask(j)
  \/ QueryUploads
  \/ IssueToken
  \/ ClockStep /\ UNCHANGED app

AppSpec == AppInit /\ [][AppNext]_allVars

\* The event loop runs every ready task, each close() returns or raises, and
\* every request of a background upload has a deadline.
AppFairness ==
  /\ \A j \in Job : WF_allVars(RunTask(j))
  /\ WF_allVars(CloseReturns \/ CloseRaises)
  /\ WF_allVars(JobStoreCloses)

FairAppSpec == AppSpec /\ AppFairness

-----------------------------------------------------------------------------
(* Properties.                                                             *)

\* what the resource k calls
Uses(k) ==
  CASE k \in {"disk_client", "wiki_client"} -> {"auth_store", "oauth_callback"}
    [] k \in {"oauth_callback", "recovery_store"} -> {"auth_store"}
    [] k = "upload_job_store" -> {"disk_client", "signed_client"}
    [] OTHER -> {}

Running == \E j \in Job : task[j] = "awaiting"

InUse ==
  {k \in Resource : \/ \E user \in live : k \in Uses(user)
                    \/ Running /\ k \in Uses("upload_job_store")}

\* Nothing is closed while something that uses it is open or an upload job is
\* running: "Network clients open only inside MCP lifespan and close once in
\* reverse order" (docs/architecture.md:7), also when open() fails half way, a
\* close() raises or the shutdown is interrupted while jobs unwind.
ClosedAfterUsers ==
  phase \notin {"new", "pinging", "unreachable"} =>
    InUse \cap Needed(settings) \subseteq live \ {shutting}

NetworkClient == {"oauth_callback", "disk_client", "wiki_client", "signed_client"}

\* "Network clients open only inside MCP lifespan and close once in reverse
\* order" (docs/architecture.md:7): a process that is done with open() or close()
\* has no network client left, but perhaps the one that failed to close.  It may
\* have others: the first close() that raises or is cancelled ends the loop of
\* _close_resources(), and nothing takes it up again.
NetworkClientsClose ==
  phase \in {"closed", "broken", "failed"} => live \cap NetworkClient \subseteq {raised}

\* As long as no close() raises, nothing that a process made outlives its
\* shutdown or an open() that failed half way, whichever resource it failed at;
\* a store that cannot be reached (PingFails) is the exception.
ClosedUnlessRaised ==
  phase \in {"closed", "broken", "failed"} /\ raised = None => live = {}

\* Local uploads are kept from remote clients by not being registered for them;
\* of the services' checks only those of background uploads depend on it.
TransportGap(o, s) ==
  o.extra = "local dirs" /\ "upload_job_store" \notin o.needs /\ ~Stdio(s)

\* Whatever the services would carry out with the resources there are, the
\* settings register as a tool of its own: so search and fetch, which are
\* registered always and reach both services, give away nothing else, whatever
\* the scopes of a caller, which are those of both services together.
ServedAreRegistered ==
  Serving =>
    \A o \in Operation :
      ServiceAccepts(o, settings) /\ o.needs \subseteq live =>
        o \in Registered(settings) \/ TransportGap(o, settings)

\* Inline uploads need the signed transport, which open() makes for reading
\* from Disk and for local uploads only.
UploadGap(o, s) ==
  /\ o = InlineUpload
  /\ "read" \notin s.allows["disk"]
  /\ ~TrustedLocalUpload(s)

\* Every tool that is registered can succeed: its resources were made, the
\* service accepts it and some scope of the ceiling covers it.  Inline upload
\* in a process that may only write is the one exception.
ToolsBacked ==
  phase = "active" =>
    \A o \in Registered(settings) \cap Operation :
      UploadGap(o, settings)
        \/ /\ o.needs \cup {IF o.service = "disk" THEN "disk_client"
                                                  ELSE "wiki_client"} \subseteq live
           /\ ServiceAccepts(o, settings)
           /\ o.class \in Ceiling(settings)

\* Every shutdown, and every clean-up of a failed open(), comes to an end.
ShutdownEnds ==
  (phase \in {"closing", "unwinding"}) ~> (phase \notin {"closing", "unwinding"})

\* Every accepted upload ends, whatever its runner does, unless the shutdown
\* that cancelled it was itself interrupted or the process went down.
UploadEnds ==
  \A j \in Job : (status[j] \in Active) ~> (status[j] \notin Active \/ phase = "broken")

=============================================================================
