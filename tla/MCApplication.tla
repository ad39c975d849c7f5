---------------------------- MODULE MCApplication ----------------------------
(* Instance of Application for TLC: settings that between them make every    *)
(* resource, every tool and every way open() can end.                        *)
EXTENDS Application

Base ==
  [transport |-> "stdio", loopback |-> TRUE, auth |-> "local",
   yandex |-> "oauth", credential |-> TRUE, backend |-> "memory",
   encryption |-> FALSE, staticScopes |-> {}, enabled |-> Service,
   allows |-> [disk |-> {"read"}, wiki |-> {"read"}], rooted |-> Service,
   extras |-> [disk |-> {}, wiki |-> {}]]

\* a trusted local server with uploads and recovery handles
LocalUploads ==
  [Base EXCEPT !.allows = [disk |-> {"write"}, wiki |-> {"read", "delete"}],
               !.extras = [disk |-> {"local dirs"}, wiki |-> {}]]

\* Wiki attachments only, and no roots for them
LocalUnrooted ==
  [Base EXCEPT !.allows = [disk |-> {"read", "write"}, wiki |-> {"write"}],
               !.extras = [disk |-> {"local dirs"}, wiki |-> {"local dirs"}],
               !.rooted = {"disk"}]

LocalWiki ==
  [Base EXCEPT !.enabled = {"wiki"}, !.yandex = "iam",
               !.allows = [disk |-> {"write", "delete"}, wiki |-> {"write"}],
               !.extras = [disk |-> {}, wiki |-> {"local dirs"}]]

NoCredential == [Base EXCEPT !.credential = FALSE]

\* a server that may only write to Disk, for clients with a static token
StaticWriter ==
  [Base EXCEPT !.transport = "streamable-http", !.loopback = FALSE,
               !.auth = "static", !.staticScopes = {"write"},
               !.enabled = {"disk"},
               !.allows = [disk |-> {"write"}, wiki |-> {}],
               !.extras = [disk |-> {"url hosts", "local dirs"}, wiki |-> {}]]

Shared ==
  [Base EXCEPT !.transport = "streamable-http", !.loopback = FALSE,
               !.auth = "multi-user", !.yandex = "multi-user",
               !.credential = FALSE, !.backend = "redis", !.encryption = TRUE]

SharedWide ==
  [Shared EXCEPT !.allows = [disk |-> Class, wiki |-> Class],
                 !.extras = [disk |-> {"public keys", "whole disk"}, wiki |-> {}]]

\* after a restart: Disk may no longer be read, Wiki only be written
SharedNarrow ==
  [Shared EXCEPT !.allows = [disk |-> {}, wiki |-> {"write"}]]

SharedMemory ==
  [Shared EXCEPT !.backend = "memory", !.loopback = TRUE, !.encryption = FALSE]

Representative ==
  {LocalUploads, LocalUnrooted, LocalWiki, NoCredential, StaticWriter,
   SharedWide, SharedNarrow, SharedMemory}
=============================================================================
