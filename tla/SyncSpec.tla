------------------------------ MODULE SyncSpec ------------------------------
(***************************************************************************)
(* The rules both sides of the sync protocol share: packages/sync-spec.    *)
(* A record is seen through the fields the rules read: "content" stands    *)
(* for every field recordsDiffer compares except the trash state (titles,  *)
(* bodies, their hashes, notebook ids, the favourite flag), "life" for     *)
(* trashedAt and deletedAt, "version" for the version counter.             *)
(***************************************************************************)
EXTENDS Naturals

(* recordsDiffer: same logical content, whatever the versions are. *)
RecordsDiffer(a, b) == a.content # b.content \/ a.life # b.life

(* shouldConflict: an existing remote record is never replaced by different
   content unless the sender has seen exactly the version it replaces. *)
ShouldConflict(local, remote, baseVersion) ==
    RecordsDiffer(local, remote) /\ baseVersion # remote.version

NextVersionAfter(version) == version + 1

(* safeRevisionCursor: the client refuses a page that moves its cursor back,
   or that promises more pages without moving it. *)
SafeRevisionCursor(serverRevision, previousRevision, hasMore) ==
    /\ serverRevision >= previousRevision
    /\ hasMore => serverRevision # previousRevision
=============================================================================
