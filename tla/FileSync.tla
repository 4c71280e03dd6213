------------------------------ MODULE FileSync ------------------------------
(***************************************************************************)
(* Synchronisation of host files with a remote sandbox (FileSyncManager of *)
(* environments/file_sync.py): cycles push what changed on the host, and   *)
(* at teardown what the sandbox changed is copied back.  Cycles hold the   *)
(* lock of the manager; host and sandbox write their files at any time.    *)
(* A write is known by who made it and a number; its key (mtime, size) and *)
(* its hash are as good as that.  A sandbox may outlive its manager: the   *)
(* next one finds the files of an earlier session in it and knows nothing  *)
(* of them.  The rate limit only skips cycles.                             *)
(***************************************************************************)
EXTENDS Naturals, FiniteSets

CONSTANTS
  SyncFile,     \* files, each with its path on the host and in the sandbox
  Credential,   \* those that are credential mounts: upload-only
  MaxAttempt,   \* _SYNC_BACK_MAX_RETRIES
  MaxWrites     \* bound: writes and removals on either side

ASSUME SyncAssumption ==
  Credential \subseteq SyncFile /\ MaxAttempt \in Nat \ {0} /\ MaxWrites \in Nat \ {0}

Absent == [by |-> "nobody", n |-> 0]
\* What an earlier session left, on the host or in the sandbox.
Earlier == [by |-> "earlier", n |-> 1]
Content == [by : {"host", "sandbox", "earlier"}, n : 1 .. MaxWrites] \cup {Absent}

VARIABLES
  host,        \* host[f]: what the host file holds
  sandbox,     \* sandbox[f]: what the file in the sandbox holds
  synced,      \* _synced_files: the key each file was pushed with
  pushed,      \* _pushed_hashes
  uploadOnly,  \* _upload_only_host_paths
  syncPc,      \* where the transaction is that holds the lock
  newKeys,     \* new_files of the cycle, where it differs from _synced_files
  toUpload,    \* files of the cycle that are not uploaded yet
  toDelete,
  staged,      \* staged[f]: the copy that is uploaded; of a download, the tar
  mapped,      \* file_mapping of the sync-back
  guarded,     \* upload_only of the sync-back
  attempt,     \* attempts of the sync-back so far
  torn,        \* history: pushed by a cycle that failed, and not since
  writes       \* writes so far

syncVars == <<host, sandbox, synced, pushed, uploadOnly, syncPc, newKeys, toUpload, toDelete,
              staged, mapped, guarded, attempt, torn, writes>>

SyncPc == {"idle", "staging", "pushing", "pulling", "applying", "retrying", "gone"}

SyncTypeOK ==
  /\ host \in [SyncFile -> Content] /\ sandbox \in [SyncFile -> Content]
  /\ synced \in [SyncFile -> Content] /\ pushed \in [SyncFile -> Content]
  /\ newKeys \in [SyncFile -> Content] /\ staged \in [SyncFile -> Content]
  /\ uploadOnly \subseteq Credential /\ syncPc \in SyncPc
  /\ toUpload \subseteq SyncFile /\ toDelete \subseteq SyncFile
  /\ mapped \subseteq SyncFile /\ guarded \subseteq Credential /\ torn \subseteq SyncFile
  /\ attempt \in 0 .. MaxAttempt /\ writes \in 0 .. MaxWrites

Nothing == [f \in SyncFile |-> Absent]

\* A new manager: the sandbox is new too, or an earlier session's is resumed, with
\* files the host has still, has changed, or has no more.
SyncInit ==
  /\ host \in [SyncFile -> {Absent, Earlier, [by |-> "host", n |-> 1]}] /\ writes = 1
  /\ sandbox \in [SyncFile -> {Absent, Earlier}] /\ synced = Nothing /\ pushed = Nothing
  /\ newKeys = Nothing /\ staged = Nothing /\ uploadOnly = {} /\ mapped = {} /\ guarded = {}
  /\ toUpload = {} /\ toDelete = {} /\ torn = {} /\ attempt = 0 /\ syncPc = "idle"

OnHost == {f \in SyncFile : host[f] # Absent}   \* what get_files_fn lists

\* Somebody saves or removes a file of the host, or of the sandbox.
HostWrites(f) ==
  /\ writes < MaxWrites /\ writes' = writes + 1
  /\ \E c \in {[by |-> "host", n |-> writes + 1], Absent} \ {host[f]} :
       host' = [host EXCEPT ![f] = c]
  /\ UNCHANGED <<sandbox, synced, pushed, uploadOnly, syncPc, newKeys, toUpload, toDelete, staged,
                 mapped, guarded, attempt, torn>>

SandboxWrites(f) ==
  /\ writes < MaxWrites /\ writes' = writes + 1
  /\ \E c \in {[by |-> "sandbox", n |-> writes + 1], Absent} \ {sandbox[f]} :
       sandbox' = [sandbox EXCEPT ![f] = c]
  /\ UNCHANGED <<host, synced, pushed, uploadOnly, syncPc, newKeys, toUpload, toDelete, staged,
                 mapped, guarded, attempt, torn>>

\* _plan_sync: new keys of the files that changed, and the files that are gone.
PlanSync ==
  /\ syncPc = "idle" /\ uploadOnly' = uploadOnly \cup (Credential \cap OnHost)
  /\ toUpload' = {f \in OnHost : synced[f] # host[f]}
  /\ toDelete' = {f \in SyncFile \ OnHost : synced[f] # Absent}
  /\ newKeys' = [f \in SyncFile |-> IF f \in toUpload' THEN host[f] ELSE Absent]
  /\ syncPc' = (IF toUpload' \cup toDelete' = {} THEN "idle" ELSE "staging")
  /\ UNCHANGED <<host, sandbox, synced, pushed, staged, mapped, guarded, attempt, torn, writes>>

\* _sync_transaction: an original is copied and its copy hashed.
Stage(f) ==
  /\ syncPc = "staging" /\ f \in toUpload /\ staged[f] = Absent /\ f \in OnHost
  /\ staged' = [staged EXCEPT ![f] = host[f]]
  /\ UNCHANGED <<host, sandbox, synced, pushed, uploadOnly, syncPc, newKeys, toUpload, toDelete,
                 mapped, guarded, attempt, torn, writes>>

PushStarts ==
  /\ syncPc = "staging" /\ \A f \in toUpload : staged[f] # Absent
  /\ syncPc' = "pushing"
  /\ UNCHANGED <<host, sandbox, synced, pushed, uploadOnly, newKeys, toUpload, toDelete, staged,
                 mapped, guarded, attempt, torn, writes>>

\* _push: an upload.
Upload(f) ==
  /\ syncPc = "pushing" /\ f \in toUpload /\ toUpload' = toUpload \ {f}
  /\ sandbox' = [sandbox EXCEPT ![f] = staged[f]]
  /\ UNCHANGED <<host, synced, pushed, uploadOnly, syncPc, newKeys, toDelete, staged, mapped,
                 guarded, attempt, torn, writes>>

\* What the hash of an uploaded file is taken of: the copy that was uploaded.
\* (Mutant: the original, after the upload.)
HashOfOriginal(f) == host[f]
HashOf(f) == staged[f]

\* The end of a cycle: the deletes of _push, then the commit.
Commit ==
  /\ syncPc = "pushing" /\ toUpload = {} /\ syncPc' = "idle" /\ toDelete' = {}
  /\ sandbox' = [f \in SyncFile |-> IF f \in toDelete THEN Absent ELSE sandbox[f]]
  /\ pushed' = [f \in SyncFile |-> IF f \in toDelete THEN Absent
                                   ELSE IF staged[f] # Absent THEN HashOf(f) ELSE pushed[f]]
  /\ synced' = [f \in SyncFile |-> IF f \in toDelete THEN Absent
                                   ELSE IF newKeys[f] # Absent THEN newKeys[f] ELSE synced[f]]
  /\ torn' = torn \ {f \in SyncFile : f \in toDelete \/ staged[f] # Absent}
  /\ newKeys' = Nothing /\ staged' = Nothing
  /\ UNCHANGED <<host, uploadOnly, toUpload, mapped, guarded, attempt, writes>>

\* A copy, an upload or the delete raises: nothing of the cycle is remembered,
\* and the sandbox keeps what it got, a file half uploaded among it.
Rollback ==
  /\ syncPc \in {"staging", "pushing"} /\ syncPc' = "idle"
  /\ \E got \in SUBSET toUpload : \E lost \in SUBSET toDelete :
       /\ syncPc = "staging" => got = {}
       /\ syncPc = "staging" \/ toUpload # {} => lost = {}
       /\ sandbox' = [f \in SyncFile |-> IF f \in got THEN staged[f]
                                         ELSE IF f \in lost THEN Absent ELSE sandbox[f]]
       /\ torn' = torn \cup {f \in SyncFile :
                               syncPc = "pushing" /\ staged[f] # Absent /\ f \notin toUpload \ got}
  /\ toUpload' = {} /\ toDelete' = {} /\ newKeys' = Nothing /\ staged' = Nothing
  /\ UNCHANGED <<host, synced, pushed, uploadOnly, mapped, guarded, attempt, writes>>

\* _sync_back_transaction, an attempt: the mapping of the files.
Pull ==
  /\ \/ syncPc = "idle" /\ \E f \in SyncFile : pushed[f] # Absent \/ synced[f] # Absent
     \/ syncPc = "retrying"
  /\ syncPc' = "pulling" /\ attempt' = attempt + 1 /\ mapped' = OnHost
  /\ UNCHANGED <<host, sandbox, synced, pushed, uploadOnly, newKeys, toUpload, toDelete, staged,
                 guarded, torn, writes>>

\* _sync_back_impl: the download, and what must not be written.
Download ==
  /\ syncPc = "pulling" /\ syncPc' = "applying" /\ staged' = sandbox
  /\ guarded' = uploadOnly \cup (Credential \cap OnHost)
  /\ UNCHANGED <<host, sandbox, synced, pushed, uploadOnly, newKeys, toUpload, toDelete, mapped,
                 attempt, torn, writes>>

\* Where _apply_staged_file takes a file: a mapped one to its host path, any
\* other one next to a mapped one of its directory that is no credential.
HasHostPath(f) == f \in mapped \/ mapped \ guarded # {}
Applies(f) ==
  /\ staged[f] # Absent /\ ~(pushed[f] # Absent /\ staged[f] = pushed[f])
  /\ HasHostPath(f) /\ f \notin guarded

\* _apply_staged_file: the file of the host is overwritten, or made.
Apply(f) ==
  /\ syncPc = "applying" /\ Applies(f) /\ host' = [host EXCEPT ![f] = staged[f]]
  /\ staged' = [staged EXCEPT ![f] = Absent]
  /\ UNCHANGED <<sandbox, synced, pushed, uploadOnly, syncPc, newKeys, toUpload, toDelete, mapped,
                 guarded, attempt, torn, writes>>

\* The sync-back is over, or an attempt at it raised and is made again; the
\* environment is given up in the end.
PullEnds ==
  /\ \/ syncPc = "applying" /\ (\A f \in SyncFile : ~Applies(f)) /\ syncPc' = "gone"
     \/ /\ syncPc \in {"pulling", "applying"}
        /\ syncPc' = IF attempt < MaxAttempt THEN "retrying" ELSE "gone"
  /\ staged' = Nothing
  /\ UNCHANGED <<host, sandbox, synced, pushed, uploadOnly, newKeys, toUpload, toDelete, mapped,
                 guarded, attempt, torn, writes>>

SyncNext ==
  \/ \E f \in SyncFile : HostWrites(f) \/ SandboxWrites(f) \/ Stage(f) \/ Upload(f) \/ Apply(f)
  \/ PlanSync \/ PushStarts \/ Commit \/ Rollback \/ Pull \/ Download \/ PullEnds

SyncSpec == SyncInit /\ [][SyncNext]_syncVars

\* A sync-back takes from the sandbox what was written there since the push, and that
\* wins over a save of the host, but no older save of the host comes back unchanged
\* over a newer one.  But for two kinds of file: what a failed cycle has left in the
\* sandbox, whose hash was rolled back (file_sync.py:183-187), and what a resumed
\* sandbox has from an earlier session, as long as this manager has not pushed it.
HostKept ==
  syncPc = "applying" =>
    \A f \in SyncFile : Applies(f) =>
      \/ staged[f].by = "sandbox"
      \/ f \in torn
      \/ staged[f] = Earlier /\ pushed[f] = Absent

\* A credential that was ever mounted is not written by the sandbox, also when
\* its mount is gone by the time of the sync-back (file_sync.py:336, 372-374).
CredentialKept ==
  syncPc = "applying" => \A f \in Credential : pushed[f] # Absent => ~Applies(f)

\* What the manager takes for synchronised is what it has uploaded: a save
\* during a cycle is pushed by the next one.
SyncedIsCurrent ==
  syncPc = "idle" => \A f \in OnHost : synced[f] = host[f] => pushed[f] = host[f]

\* The three of them: what a sync-back may write over the files of the host, and what
\* a cycle may leave out.
SavesKept == HostKept /\ CredentialKept /\ SyncedIsCurrent

=============================================================================
