---------------------------- MODULE MCSandboxEntry ----------------------------
\* The sandboxes on small instances.
EXTENDS SandboxEntry
=============================================================================
