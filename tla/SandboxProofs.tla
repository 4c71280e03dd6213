----------------------------- MODULE SandboxProofs -----------------------------
(* Proofs about the files of a sandbox and about session kernels.  For any      *)
(* number of files, writes and failures of the transport a sync-back brings no  *)
(* older save of the host back, but for the two kinds of file HostKept names,   *)
(* and no save is taken for pushed that was not; for any number of cells, keys  *)
(* and owners no interpreter is left behind and each cell returns its own reply.*)
EXTENDS FileSync, CodeKernel, FiniteSetTheorems, TLAPS

-------------------------------------------------------------------------------
(* The files of a sandbox. *)

\* A copy c of f in the sandbox is what was pushed, none, its own, torn, or of an
\* earlier session and not pushed since.
Explained(f, c) ==
  \/ c \in {pushed[f], Absent} \/ c.by = "sandbox" \/ f \in torn
  \/ c = Earlier /\ pushed[f] = Absent

\* So is what the sandbox holds.
Held(f) == Explained(f, sandbox[f])

\* What a cycle has uploaded is there, unless the sandbox wrote since.
SandboxOK ==
  \A f \in SyncFile :
     IF syncPc = "pushing" /\ staged[f] # Absent /\ f \notin toUpload
     THEN sandbox[f] \in {staged[f], Absent} \/ sandbox[f].by = "sandbox"
     ELSE Held(f)

InCycle == syncPc \in {"staging", "pushing"}

\* What is applied was in the sandbox when it was downloaded.
PulledOK ==
  /\ syncPc = "idle" \/ InCycle => attempt = 0
  /\ syncPc = "retrying" => attempt < MaxAttempt
  /\ syncPc = "applying" =>
    \A f \in SyncFile : Explained(f, staged[f])

\* A cycle uploads the files it has new keys of.
KeysOK ==
  /\ syncPc = "idle" => staged = Nothing
  /\ syncPc = "staging" =>
       /\ toUpload = {f \in SyncFile : newKeys[f] # Absent}
       /\ \A f \in SyncFile : staged[f] # Absent => newKeys[f] # Absent
  /\ syncPc = "pushing" => \A f \in SyncFile : staged[f] # Absent <=> newKeys[f] # Absent

\* Credentials that were or are being pushed are remembered.
MountsOK ==
  /\ \A f \in Credential : pushed[f] # Absent \/ (InCycle /\ newKeys[f] # Absent) => f \in uploadOnly
  /\ syncPc = "applying" => uploadOnly \subseteq guarded

\* A key that is still the file's stands for the copy taken since.
CurrentOK ==
  syncPc = "idle" \/ InCycle =>
    \A f \in OnHost :
      /\ synced[f] = host[f] => pushed[f] = host[f]
      /\ InCycle /\ newKeys[f] = host[f] /\ staged[f] # Absent => staged[f] = host[f]

\* The next write differs from everything seen so far.
FreshOK ==
  \A f \in SyncFile :
    /\ host[f].n <= writes /\ sandbox[f].n <= writes /\ staged[f].n <= writes
    /\ synced[f].n <= writes /\ newKeys[f].n <= writes

SyncInv ==
  /\ SyncTypeOK /\ SandboxOK /\ PulledOK /\ KeysOK /\ MountsOK /\ CurrentOK /\ FreshOK

\* The initial state satisfies the invariant.
LEMMA SyncInitHolds == SyncInit => SyncInv
  BY SyncAssumption
  DEF SyncInit, SyncInv, SyncTypeOK, SandboxOK, PulledOK, KeysOK, MountsOK, CurrentOK, FreshOK,
      Held, Explained, InCycle, OnHost, Content, Earlier, Absent, Nothing, SyncPc

\* Every write is new: it equals nothing the manager has seen.
LEMMA WritesAreNew ==
  ASSUME SyncInv, writes < MaxWrites, NEW by \in {"host", "sandbox"}
  PROVE  LET c == [by |-> by, n |-> writes + 1]
         IN  /\ c \in Content /\ c # Absent /\ c.by = by /\ c.n = writes + 1
             /\ \A f \in SyncFile : synced[f] # c /\ newKeys[f] # c
  BY SyncAssumption DEF SyncInv, SyncTypeOK, FreshOK, Content, Earlier, Absent

\* A save or a removal on the host keeps the invariant.
LEMMA HostWritesKeeps ==
  ASSUME SyncInv, NEW f \in SyncFile, HostWrites(f) PROVE SyncInv'
<1> DEFINE new == [by |-> "host", n |-> writes + 1]
<1>w. /\ new \in Content /\ new # Absent /\ new.by = "host" /\ new.n = writes + 1
      /\ \A e \in SyncFile : synced[e] # new /\ newKeys[e] # new
  BY WritesAreNew DEF HostWrites
<1>c. PICK c \in {new, Absent} : host' = [host EXCEPT ![f] = c]
  BY DEF HostWrites
<1> HIDE DEF new
<1>1. SyncTypeOK'
  BY <1>w, <1>c DEF HostWrites, SyncInv, SyncTypeOK, Content, Earlier, Absent, Nothing, SyncPc
<1>2. SandboxOK'
  BY <1>w, <1>c DEF HostWrites, SyncInv, SyncTypeOK, SandboxOK, Held, Explained
<1>3. PulledOK'
  BY <1>w, <1>c DEF HostWrites, SyncInv, SyncTypeOK, PulledOK, Explained, InCycle
<1>4. KeysOK'
  BY <1>w, <1>c DEF HostWrites, SyncInv, SyncTypeOK, KeysOK
<1>5. MountsOK'
  BY <1>w, <1>c DEF HostWrites, SyncInv, SyncTypeOK, MountsOK, InCycle
<1>6. CurrentOK'
  BY <1>w, <1>c DEF HostWrites, SyncInv, SyncTypeOK, CurrentOK, InCycle, OnHost
<1>7. FreshOK'
  <2>1. c.n <= writes' /\ writes <= writes' /\ writes \in Nat /\ writes' \in Nat
    BY <1>w, <1>c DEF HostWrites, SyncInv, SyncTypeOK, Absent
  <2>2. \A e \in SyncFile :
          /\ host'[e] = c \/ host'[e] = host[e]
          /\ host[e].n \in Nat /\ sandbox[e].n \in Nat /\ staged[e].n \in Nat
          /\ synced[e].n \in Nat /\ newKeys[e].n \in Nat
    BY <1>c DEF SyncInv, SyncTypeOK, Content, Earlier, Absent
  <2>3. QED
    BY <2>1, <2>2 DEF HostWrites, SyncInv, FreshOK
<1> QED
  BY <1>1, <1>2, <1>3, <1>4, <1>5, <1>6, <1>7 DEF SyncInv

\* So does one in the sandbox.
LEMMA SandboxWritesKeeps ==
  ASSUME SyncInv, NEW f \in SyncFile, SandboxWrites(f) PROVE SyncInv'
<1> DEFINE new == [by |-> "sandbox", n |-> writes + 1]
<1>w. /\ new \in Content /\ new # Absent /\ new.by = "sandbox" /\ new.n = writes + 1
      /\ \A e \in SyncFile : synced[e] # new /\ newKeys[e] # new
  BY WritesAreNew DEF SandboxWrites
<1>c. PICK c \in {new, Absent} : sandbox' = [sandbox EXCEPT ![f] = c]
  BY DEF SandboxWrites
<1> HIDE DEF new
<1>1. SyncTypeOK'
  BY <1>w, <1>c DEF SandboxWrites, SyncInv, SyncTypeOK, Content, Earlier, Absent, Nothing, SyncPc
<1>2. SandboxOK'
  BY <1>w, <1>c DEF SandboxWrites, SyncInv, SyncTypeOK, SandboxOK, Held, Explained
<1>3. PulledOK'
  BY <1>w, <1>c DEF SandboxWrites, SyncInv, SyncTypeOK, PulledOK, Explained, InCycle
<1>4. KeysOK'
  BY <1>w, <1>c DEF SandboxWrites, SyncInv, SyncTypeOK, KeysOK
<1>5. MountsOK'
  BY <1>w, <1>c DEF SandboxWrites, SyncInv, SyncTypeOK, MountsOK, InCycle
<1>6. CurrentOK'
  BY <1>w, <1>c DEF SandboxWrites, SyncInv, SyncTypeOK, CurrentOK, InCycle, OnHost
<1>7. FreshOK'
  <2>1. c.n <= writes' /\ writes <= writes' /\ writes \in Nat /\ writes' \in Nat
    BY <1>w, <1>c DEF SandboxWrites, SyncInv, SyncTypeOK, Absent
  <2>2. \A e \in SyncFile :
          /\ sandbox'[e] = c \/ sandbox'[e] = sandbox[e]
          /\ host[e].n \in Nat /\ sandbox[e].n \in Nat /\ staged[e].n \in Nat
          /\ synced[e].n \in Nat /\ newKeys[e].n \in Nat
    BY <1>c DEF SyncInv, SyncTypeOK, Content, Earlier, Absent
  <2>3. QED
    BY <2>1, <2>2 DEF SandboxWrites, SyncInv, FreshOK
<1> QED
  BY <1>1, <1>2, <1>3, <1>4, <1>5, <1>6, <1>7 DEF SyncInv

\* The plan of a cycle keeps the invariant.
LEMMA PlanKeeps ==
  ASSUME SyncInv, PlanSync PROVE SyncInv'
<1>1. SyncTypeOK'
  BY SyncAssumption DEF PlanSync, SyncInv, SyncTypeOK, Content, Earlier, Absent, Nothing, SyncPc, PulledOK,
     InCycle, OnHost
<1>2. SandboxOK'
  BY DEF PlanSync, SyncInv, SyncTypeOK, SandboxOK, Held, Explained
<1>3. PulledOK'
  BY DEF PlanSync, SyncInv, SyncTypeOK, PulledOK, Explained, InCycle
<1>4. KeysOK'
  BY DEF PlanSync, SyncInv, SyncTypeOK, KeysOK, OnHost, Content, Earlier, Absent, Nothing
<1>5. MountsOK'
  BY SyncAssumption DEF PlanSync, SyncInv, SyncTypeOK, SandboxOK, PulledOK, KeysOK, MountsOK,
     CurrentOK, FreshOK, Held, Explained, InCycle, OnHost, Content, Earlier, Absent, Nothing, SyncPc, Applies,
     HasHostPath, HashOf
<1>6. CurrentOK'
  BY DEF PlanSync, SyncInv, SyncTypeOK, CurrentOK, InCycle, OnHost, KeysOK, Content, Absent,
     Nothing, HashOf
<1>7. FreshOK'
  BY DEF PlanSync, SyncInv, SyncTypeOK, FreshOK, OnHost, Content, Earlier, Absent, Nothing
<1> QED
  BY <1>1, <1>2, <1>3, <1>4, <1>5, <1>6, <1>7 DEF SyncInv

\* So does a copy.
LEMMA StageKeeps ==
  ASSUME SyncInv, NEW f \in SyncFile, Stage(f) PROVE SyncInv'
<1>1. SyncTypeOK'
  BY DEF Stage, SyncInv, SyncTypeOK, Content, Earlier, Absent, Nothing, SyncPc
<1>2. SandboxOK'
  BY DEF Stage, SyncInv, SyncTypeOK, SandboxOK, Held, Explained
<1>3. PulledOK'
  BY DEF Stage, SyncInv, SyncTypeOK, PulledOK, Explained, InCycle
<1>4. KeysOK'
  BY DEF Stage, SyncInv, SyncTypeOK, KeysOK
<1>5. MountsOK'
  BY DEF Stage, SyncInv, SyncTypeOK, MountsOK, InCycle
<1>6. CurrentOK'
  BY DEF Stage, SyncInv, SyncTypeOK, CurrentOK, InCycle, OnHost
<1>7. FreshOK'
  BY DEF Stage, SyncInv, SyncTypeOK, FreshOK
<1> QED
  BY <1>1, <1>2, <1>3, <1>4, <1>5, <1>6, <1>7 DEF SyncInv

\* So does the end of the copies.
LEMMA PushStartsKeeps ==
  ASSUME SyncInv, PushStarts PROVE SyncInv'
<1>1. SyncTypeOK'
  BY DEF PushStarts, SyncInv, SyncTypeOK, Content, Earlier, Absent, Nothing, SyncPc
<1>2. SandboxOK'
  BY DEF PushStarts, SyncInv, SyncTypeOK, SandboxOK, Held, Explained, KeysOK, InCycle, Content, Absent,
     Nothing, HashOf
<1>3. PulledOK'
  BY DEF PushStarts, SyncInv, SyncTypeOK, PulledOK, Explained, InCycle
<1>4. KeysOK'
  BY DEF PushStarts, SyncInv, SyncTypeOK, KeysOK
<1>5. MountsOK'
  BY DEF PushStarts, SyncInv, SyncTypeOK, MountsOK, InCycle
<1>6. CurrentOK'
  BY DEF PushStarts, SyncInv, SyncTypeOK, CurrentOK, InCycle, OnHost
<1>7. FreshOK'
  BY DEF PushStarts, SyncInv, SyncTypeOK, FreshOK
<1> QED
  BY <1>1, <1>2, <1>3, <1>4, <1>5, <1>6, <1>7 DEF SyncInv

\* So does an upload.
LEMMA UploadKeeps ==
  ASSUME SyncInv, NEW f \in SyncFile, Upload(f) PROVE SyncInv'
<1>1. SyncTypeOK'
  BY DEF Upload, SyncInv, SyncTypeOK, Content, Earlier, Absent, Nothing, SyncPc
<1>2. SandboxOK'
  BY DEF Upload, SyncInv, SyncTypeOK, SandboxOK, Held, Explained
<1>3. PulledOK'
  BY DEF Upload, SyncInv, SyncTypeOK, PulledOK, Explained, InCycle
<1>4. KeysOK'
  BY DEF Upload, SyncInv, SyncTypeOK, KeysOK
<1>5. MountsOK'
  BY DEF Upload, SyncInv, SyncTypeOK, MountsOK, InCycle
<1>6. CurrentOK'
  BY DEF Upload, SyncInv, SyncTypeOK, CurrentOK, InCycle, OnHost
<1>7. FreshOK'
  BY DEF Upload, SyncInv, SyncTypeOK, FreshOK
<1> QED
  BY <1>1, <1>2, <1>3, <1>4, <1>5, <1>6, <1>7 DEF SyncInv

\* So does a commit.
LEMMA CommitKeeps ==
  ASSUME SyncInv, Commit PROVE SyncInv'
<1>1. SyncTypeOK'
  BY SyncAssumption DEF Commit, SyncInv, SyncTypeOK, SandboxOK, PulledOK, KeysOK, MountsOK,
     CurrentOK, FreshOK, Held, Explained, InCycle, OnHost, Content, Earlier, Absent, Nothing, SyncPc, Applies,
     HasHostPath, HashOf
<1>2. SandboxOK'
  BY DEF Commit, SyncInv, SyncTypeOK, SandboxOK, Held, Explained, KeysOK, InCycle, Content, Absent,
     Nothing, HashOf
<1>3. PulledOK'
  BY DEF Commit, SyncInv, SyncTypeOK, PulledOK, Explained, InCycle
<1>4. KeysOK'
  BY DEF Commit, SyncInv, SyncTypeOK, KeysOK
<1>5. MountsOK'
  BY SyncAssumption DEF Commit, SyncInv, SyncTypeOK, SandboxOK, PulledOK, KeysOK, MountsOK,
     CurrentOK, FreshOK, Held, Explained, InCycle, OnHost, Content, Earlier, Absent, Nothing, SyncPc, Applies,
     HasHostPath, HashOf
<1>6. CurrentOK'
  BY DEF Commit, SyncInv, SyncTypeOK, CurrentOK, InCycle, OnHost, KeysOK, Content, Absent,
     Nothing, HashOf
<1>7. FreshOK'
  BY DEF Commit, SyncInv, SyncTypeOK, FreshOK, OnHost, Content, Earlier, Absent, Nothing
<1> QED
  BY <1>1, <1>2, <1>3, <1>4, <1>5, <1>6, <1>7 DEF SyncInv

\* So does a rollback, which leaves its uploads torn.
LEMMA RollbackKeeps ==
  ASSUME SyncInv, Rollback PROVE SyncInv'
<1>1. SyncTypeOK'
  BY DEF Rollback, SyncInv, SyncTypeOK, Content, Earlier, Absent, Nothing, SyncPc
<1>2. SandboxOK'
  BY DEF Rollback, SyncInv, SyncTypeOK, SandboxOK, Held, Explained
<1>3. PulledOK'
  BY DEF Rollback, SyncInv, SyncTypeOK, PulledOK, Explained, InCycle
<1>4. KeysOK'
  BY DEF Rollback, SyncInv, SyncTypeOK, KeysOK
<1>5. MountsOK'
  BY DEF Rollback, SyncInv, SyncTypeOK, MountsOK, InCycle
<1>6. CurrentOK'
  BY DEF Rollback, SyncInv, SyncTypeOK, CurrentOK, InCycle, OnHost
<1>7. FreshOK'
  BY DEF Rollback, SyncInv, SyncTypeOK, FreshOK, OnHost, Content, Earlier, Absent, Nothing
<1> QED
  BY <1>1, <1>2, <1>3, <1>4, <1>5, <1>6, <1>7 DEF SyncInv

\* So does the start of a sync-back.
LEMMA PullKeeps ==
  ASSUME SyncInv, Pull PROVE SyncInv'
<1>1. SyncTypeOK'
  BY SyncAssumption DEF Pull, SyncInv, SyncTypeOK, Content, Earlier, Absent, Nothing, SyncPc, PulledOK,
     InCycle, OnHost
<1>2. SandboxOK'
  BY DEF Pull, SyncInv, SyncTypeOK, SandboxOK, Held, Explained
<1>3. PulledOK'
  BY DEF Pull, SyncInv, SyncTypeOK, PulledOK, Explained, InCycle
<1>4. KeysOK'
  BY DEF Pull, SyncInv, SyncTypeOK, KeysOK
<1>5. MountsOK'
  BY DEF Pull, SyncInv, SyncTypeOK, MountsOK, InCycle
<1>6. CurrentOK'
  BY DEF Pull, SyncInv, SyncTypeOK, CurrentOK, InCycle, OnHost
<1>7. FreshOK'
  BY DEF Pull, SyncInv, SyncTypeOK, FreshOK
<1> QED
  BY <1>1, <1>2, <1>3, <1>4, <1>5, <1>6, <1>7 DEF SyncInv

\* So does a download.
LEMMA DownloadKeeps ==
  ASSUME SyncInv, Download PROVE SyncInv'
<1>1. SyncTypeOK'
  BY DEF Download, SyncInv, SyncTypeOK, Content, Earlier, Absent, Nothing, SyncPc
<1>2. SandboxOK'
  BY DEF Download, SyncInv, SyncTypeOK, SandboxOK, Held, Explained
<1>3. PulledOK'
  BY DEF Download, SyncInv, SyncTypeOK, PulledOK, InCycle, SandboxOK, Held, Explained, Content, Absent,
     Nothing
<1>4. KeysOK'
  BY DEF Download, SyncInv, SyncTypeOK, KeysOK
<1>5. MountsOK'
  BY DEF Download, SyncInv, SyncTypeOK, MountsOK, InCycle
<1>6. CurrentOK'
  BY DEF Download, SyncInv, SyncTypeOK, CurrentOK, InCycle, OnHost
<1>7. FreshOK'
  BY DEF Download, SyncInv, SyncTypeOK, FreshOK
<1> QED
  BY <1>1, <1>2, <1>3, <1>4, <1>5, <1>6, <1>7 DEF SyncInv

\* So does the copy of a file to the host.
LEMMA ApplyKeeps ==
  ASSUME SyncInv, NEW f \in SyncFile, Apply(f) PROVE SyncInv'
<1>1. SyncTypeOK'
  BY DEF Apply, SyncInv, SyncTypeOK, Content, Earlier, Absent, Nothing, SyncPc
<1>2. SandboxOK'
  BY DEF Apply, SyncInv, SyncTypeOK, SandboxOK, Held, Explained
<1>3. PulledOK'
  BY DEF Apply, SyncInv, SyncTypeOK, PulledOK, Explained, InCycle
<1>4. KeysOK'
  BY DEF Apply, SyncInv, SyncTypeOK, KeysOK
<1>5. MountsOK'
  BY DEF Apply, SyncInv, SyncTypeOK, MountsOK, InCycle
<1>6. CurrentOK'
  BY DEF Apply, SyncInv, SyncTypeOK, CurrentOK, InCycle, OnHost
<1>7. FreshOK'
  BY DEF Apply, SyncInv, SyncTypeOK, FreshOK, OnHost, Content, Earlier, Absent, Nothing
<1> QED
  BY <1>1, <1>2, <1>3, <1>4, <1>5, <1>6, <1>7 DEF SyncInv

\* So does the end of an attempt.
LEMMA PullEndsKeeps ==
  ASSUME SyncInv, PullEnds PROVE SyncInv'
<1>1. SyncTypeOK'
  BY DEF PullEnds, SyncInv, SyncTypeOK, Content, Earlier, Absent, Nothing, SyncPc
<1>2. SandboxOK'
  BY DEF PullEnds, SyncInv, SyncTypeOK, SandboxOK, Held, Explained
<1>3. PulledOK'
  BY DEF PullEnds, SyncInv, SyncTypeOK, PulledOK, Explained, InCycle
<1>4. KeysOK'
  BY DEF PullEnds, SyncInv, SyncTypeOK, KeysOK
<1>5. MountsOK'
  BY DEF PullEnds, SyncInv, SyncTypeOK, MountsOK, InCycle
<1>6. CurrentOK'
  BY DEF PullEnds, SyncInv, SyncTypeOK, CurrentOK, InCycle, OnHost
<1>7. FreshOK'
  BY DEF PullEnds, SyncInv, SyncTypeOK, FreshOK, OnHost, Content, Earlier, Absent, Nothing
<1> QED
  BY <1>1, <1>2, <1>3, <1>4, <1>5, <1>6, <1>7 DEF SyncInv

\* Every step keeps the invariant.
LEMMA SyncNextKeeps == SyncInv /\ [SyncNext]_syncVars => SyncInv'
<1> SUFFICES ASSUME SyncInv, [SyncNext]_syncVars PROVE SyncInv'
  OBVIOUS
<1>1. ASSUME NEW f \in SyncFile,
             HostWrites(f) \/ SandboxWrites(f) \/ Stage(f) \/ Upload(f) \/ Apply(f)
      PROVE  SyncInv'
  BY <1>1, HostWritesKeeps, SandboxWritesKeeps, StageKeeps, UploadKeeps, ApplyKeeps
<1>2. CASE PlanSync \/ PushStarts \/ Commit \/ Rollback
  BY <1>2, PlanKeeps, PushStartsKeeps, CommitKeeps, RollbackKeeps
<1>3. CASE Pull \/ Download \/ PullEnds
  BY <1>3, PullKeeps, DownloadKeeps, PullEndsKeeps
<1>4. CASE UNCHANGED syncVars
  BY <1>4 DEF syncVars, SyncInv, SyncTypeOK, SandboxOK, PulledOK, KeysOK, MountsOK, CurrentOK,
              FreshOK, Held, Explained, InCycle, OnHost
<1> QED
  BY <1>1, <1>2, <1>3, <1>4 DEF SyncNext

\* The invariant holds of every behaviour.
THEOREM SyncInvariant == SyncSpec => []SyncInv
<1>1. SyncInit => SyncInv
  BY SyncInitHolds
<1>2. SyncInv /\ [SyncNext]_syncVars => SyncInv'
  BY SyncNextKeeps
<1> QED
  BY <1>1, <1>2, PTL DEF SyncSpec

\* Every variable of the synchronisation keeps its type.
THEOREM SyncTyped == SyncSpec => []SyncTypeOK
<1>1. SyncInv => SyncTypeOK
  BY DEF SyncInv
<1> QED
  BY <1>1, SyncInvariant, PTL

\* What FileSyncManager promises of saves: what comes back over the host's files was
\* written by the sandbox, torn, or left unpushed by an earlier session, credentials
\* that were pushed stay, and what passes for synchronised was pushed.
THEOREM SavesAreKept == SyncSpec => []SavesKept
<1>1. SyncInv => HostKept
  BY DEF SyncInv, PulledOK, Explained, HostKept, Applies
<1>2. SyncInv => CredentialKept
  BY SyncAssumption DEF SyncInv, MountsOK, CredentialKept, Applies
<1>3. SyncInv => SyncedIsCurrent
  BY DEF SyncInv, CurrentOK, SyncedIsCurrent
<1>4. SyncInv => SavesKept
  BY <1>1, <1>2, <1>3 DEF SavesKept
<1> QED
  BY <1>4, SyncInvariant, PTL

-------------------------------------------------------------------------------
(* Session kernels. *)

\* The cells attached to kernel n.
Attachers(n) == {x \in Cell : used[x] = n /\ cellPc[x] \notin {"new", "burying", "returned"}}

CountOK == \A n \in Cell : attached[n] = Cardinality(Attachers(n))

\* A call that has not begun has left no trace, nor has a kernel named for it.
NewOK ==
  \A x \in Cell :
    /\ used[x] = NoKernel <=> cellPc[x] = "new"
    /\ cellPc[x] = "new" =>
         /\ proc[x] = "none" /\ x \notin InTable(registered) /\ x \notin closing
         /\ doomed[x] = {} /\ \A y \in Cell : used[y] # x /\ x \notin doomed[y]

\* A kernel serves one key.
OneKeyOK ==
  \A j, k \in KernelKey : registered[j] = registered[k] /\ registered[j] # NoKernel => j = k

\* Nobody is, or will be, attached to a kernel that was swept.
SweptOK == \A x \in Cell : \A n \in doomed[x] : attached[n] = 0 /\ n \notin InTable(registered)

OwnedOK == \A n \in Cell : proc[n] = "live" => Owned(n)

\* One cell at a time has a kernel.
LockOK ==
  \A x, y \in Cell : used[x] = used[y] /\ cellPc[x] \in Inside /\ cellPc[y] \in Inside => x = y

\* What is on its way to or from a process is the code or the reply of the
\* cell that has the kernel, and of a cell that has not heard of it.
InPipes(x, n) ==
  /\ used[x] = n /\ cellPc[x] \in {"awaiting", "dropping", "killing"}
  /\ \/ stdin[n] = <<x>> /\ responses[n] = <<>>
     \/ stdin[n] = <<>> /\ \E s \in CellStatus : responses[n] = <<[cell |-> x, status |-> s]>>

PipesAt(n) ==
  /\ proc[n] # "live" => stdin[n] = <<>>
  /\ proc[n] = "none" => responses[n] = <<>>
  /\ proc[n] = "live" => (stdin[n] = <<>> /\ responses[n] = <<>>) \/ \E x \in Cell : InPipes(x, n)

PipesOK == \A n \in Cell : PipesAt(n)

\* The first thing a cell will hear is its own reply or the end of the process.
HeardOK ==
  \A x \in Cell :
    cellPc[x] = "awaiting" /\ responses[used[x]] # <<>> =>
      responses[used[x]][1] = Eof \/ responses[used[x]][1].cell = x

KernelInv ==
  /\ KernelTypeOK /\ CountOK /\ NewOK /\ OneKeyOK /\ SweptOK /\ OwnedOK /\ LockOK /\ PipesOK
  /\ HeardOK /\ OwnReply

\* The initial state satisfies the invariant.
LEMMA KernelInitHolds == KernelInit => KernelInv
<1> SUFFICES ASSUME KernelInit PROVE KernelInv
  OBVIOUS
<1>1. \A n \in Cell : Attachers(n) = {}
  BY DEF KernelInit, Attachers
<1>2. CountOK
  BY <1>1, FS_EmptySet DEF KernelInit, CountOK
<1>3. KernelTypeOK
  BY KernelAssumption DEF KernelInit, KernelTypeOK, CellPc
<1> QED
  BY <1>2, <1>3, KernelAssumption
  DEF KernelInit, KernelInv, NewOK, OneKeyOK, SweptOK, OwnedOK, LockOK, PipesOK,
       PipesAt, HeardOK,
      OwnReply, InTable, Inside

\* The cells attached to a kernel are finitely many; one more or one less
\* changes their number by one.
LEMMA AttachersFinite ==
  ASSUME NEW n
  PROVE  IsFiniteSet(Attachers(n)) /\ Cardinality(Attachers(n)) \in Nat
<1>1. IsFiniteSet(Attachers(n))
  BY FS_Subset, KernelAssumption DEF Attachers
<1> QED
  BY <1>1, FS_CardinalityType

LEMMA OneMoreOneLess ==
  ASSUME NEW S, IsFiniteSet(S), NEW x
  PROVE  /\ x \notin S => Cardinality(S \cup {x}) = Cardinality(S) + 1
         /\ x \in S => Cardinality(S \ {x}) = Cardinality(S) - 1
  BY FS_AddElement, FS_RemoveElement, FS_CardinalityType

\* A cell that is not done with its kernel counts.
LEMMA AttachedCounts ==
  ASSUME KernelInv, NEW x \in Cell, cellPc[x] \notin {"new", "burying", "returned"}
  PROVE  used[x] \in Cell /\ attached[used[x]] \in Nat /\ attached[used[x]] > 0
<1>1. used[x] \in Cell
  BY DEF KernelInv, KernelTypeOK, NewOK
<1>2. x \in Attachers(used[x])
  BY DEF Attachers
<1>3. Cardinality(Attachers(used[x])) # 0
  BY <1>2, AttachersFinite, FS_EmptySet
<1> QED
  BY <1>1, <1>3, AttachersFinite DEF KernelInv, CountOK, KernelTypeOK

\* The end of a process, if there is one, leaves nothing to be misheard.
EndsCleanly(n) ==
  /\ proc' \in [Cell -> {"none", "live", "exited"}]
  /\ stdin' \in [Cell -> Seq(Cell)]
  /\ responses' \in [Cell -> Seq({Eof} \cup [cell : Cell, status : CellStatus])]
  /\ \A m \in Cell : /\ proc'[m] = "live" => proc[m] = "live" /\ m # n
                     /\ proc'[m] = "none" <=> proc[m] = "none"
                     /\ proc'[m] # "live" => stdin'[m] = <<>>
                     /\ proc'[m] = "none" => responses'[m] = <<>>
                     /\ m # n => proc'[m] = proc[m] /\ stdin'[m] = stdin[m] /\ responses'[m] = responses[m]
  /\ \A x \in Cell :
       cellPc[x] = "awaiting" /\ responses'[used[x]] # <<>> =>
         responses'[used[x]][1] = Eof \/ responses'[used[x]][1].cell = x

\* A teardown ends it so.
LEMMA ProcessEnds ==
  ASSUME KernelInv, NEW n \in Cell, Teardown(n)
  PROVE  EndsCleanly(n)
<1>1. CASE proc[n] # "live"
  <2>1. UNCHANGED <<proc, stdin, responses>>
    BY <1>1 DEF Teardown
  <2> QED
    BY <2>1, <1>1 DEF KernelInv, KernelTypeOK, PipesOK, PipesAt, HeardOK, EndsCleanly
<1>2. CASE proc[n] = "live"
  <2>1. Exited(n)
    BY <1>2 DEF Teardown
  <2>2. responses[n] \in Seq({Eof} \cup [cell : Cell, status : CellStatus])
    BY DEF KernelInv, KernelTypeOK
  <2>3. /\ proc' \in [Cell -> {"none", "live", "exited"}]
        /\ stdin' \in [Cell -> Seq(Cell)]
        /\ responses' \in [Cell -> Seq({Eof} \cup [cell : Cell, status : CellStatus])]
    BY <2>1, <2>2 DEF Exited, KernelInv, KernelTypeOK
  <2>4. \A m \in Cell : /\ proc'[m] = "live" => proc[m] = "live" /\ m # n
                        /\ proc'[m] = "none" <=> proc[m] = "none"
                        /\ proc'[m] # "live" => stdin'[m] = <<>>
                        /\ proc'[m] = "none" => responses'[m] = <<>>
                        /\ m # n => proc'[m] = proc[m] /\ stdin'[m] = stdin[m] /\ responses'[m] = responses[m]
    BY <2>1, <1>2 DEF Exited, KernelInv, KernelTypeOK, PipesOK, PipesAt
  <2>5. ASSUME NEW x \in Cell, cellPc[x] = "awaiting", responses'[used[x]] # <<>>
        PROVE  responses'[used[x]][1] = Eof \/ responses'[used[x]][1].cell = x
    <3>0. used[x] \in Cell
      BY <2>5, AttachedCounts
    <3>1. CASE used[x] # n
      BY <2>4, <2>5, <3>0, <3>1 DEF KernelInv, HeardOK
    <3>2. CASE used[x] = n
      <4>1. responses'[n] = Append(responses[n], Eof)
        BY <2>1 DEF Exited, KernelInv, KernelTypeOK
      <4>2. CASE responses[n] = <<>>
        BY <4>1, <4>2, <3>2
      <4>3. CASE \E y \in Cell, s \in CellStatus : InPipes(y, n) /\ responses[n] = <<[cell |-> y, status |-> s]>>
        <5>1. PICK y \in Cell, s \in CellStatus : InPipes(y, n) /\ responses[n] = <<[cell |-> y, status |-> s]>>
          BY <4>3
        <5>2. y = x
          BY <5>1, <2>5, <3>2 DEF InPipes, KernelInv, LockOK, Inside
        <5> QED
          BY <5>1, <5>2, <4>1, <3>2
      <4> QED
        BY <4>2, <4>3, <1>2 DEF KernelInv, PipesOK, PipesAt, InPipes
    <3> QED
      BY <3>1, <3>2
  <2> QED
    BY <2>3, <2>4, <2>5 DEF EndsCleanly
<1> QED
  BY <1>1, <1>2

\* Pipes stay in order while a cell that has something in them has the kernel.
LEMMA PipesStay ==
  ASSUME KernelInv, NEW n \in Cell, proc'[n] = proc[n], stdin'[n] = stdin[n],
         responses'[n] = responses[n],
         \A x \in Cell : used[x] = n /\ cellPc[x] \in {"awaiting", "dropping", "killing"} =>
                         used'[x] = n /\ cellPc'[x] \in {"awaiting", "dropping", "killing"}
  PROVE  PipesAt(n)'
<1>1. PipesAt(n)
  BY DEF KernelInv, PipesOK
<1>2. \A x \in Cell : InPipes(x, n) => InPipes(x, n)'
  BY DEF InPipes
<1> QED
  BY <1>1, <1>2 DEF PipesAt

\* A kernel that was swept is torn down.
LEMMA ReapKeeps ==
  ASSUME KernelInv, NEW x \in Cell, NEW n \in Cell, Reap(x, n) PROVE KernelInv'
<1>t. EndsCleanly(n)
  BY ProcessEnds DEF Reap
<1>a. \A k \in Cell : Attachers(k)' = Attachers(k)
  BY <1>t DEF Reap, Attachers, KernelInv, KernelTypeOK, Inside, EndsCleanly
<1>1. KernelTypeOK'
  BY <1>t DEF Reap, KernelInv, KernelTypeOK, CellPc, Inside, EndsCleanly
<1>2. CountOK'
  BY <1>a, <1>t DEF Reap, KernelInv, CountOK, KernelTypeOK, EndsCleanly
<1>3. NewOK'
  BY <1>t DEF Reap, KernelInv, NewOK, KernelTypeOK, InTable, EndsCleanly
<1>4. OneKeyOK'
  BY <1>t DEF Reap, KernelInv, OneKeyOK, EndsCleanly
<1>5. SweptOK'
  BY <1>t DEF Reap, KernelInv, SweptOK, KernelTypeOK, InTable, EndsCleanly
<1>6. OwnedOK'
  <2>1. ASSUME NEW m \in Cell, proc'[m] = "live" PROVE Owned(m)'
    <3>1. m # n /\ Owned(m)
      BY <1>t, <2>1 DEF KernelInv, OwnedOK, EndsCleanly
    <3> QED
      BY <3>1 DEF Reap, KernelInv, KernelTypeOK, Owned, InTable
  <2> QED
    BY <2>1 DEF OwnedOK
<1>7. LockOK'
  BY <1>t DEF Reap, KernelInv, LockOK, KernelTypeOK, Inside, EndsCleanly
<1>8. PipesOK'
  <2>1. \A m \in Cell : m # n => PipesAt(m)'
    BY <1>t, PipesStay DEF Reap, KernelInv, KernelTypeOK, EndsCleanly
  <2>2. PipesAt(n)'
    BY <1>t DEF PipesAt, Reap, EndsCleanly
  <2> QED
    BY <2>1, <2>2 DEF PipesOK
<1>9. HeardOK'
  BY <1>t DEF Reap, KernelInv, HeardOK, KernelTypeOK, EndsCleanly
<1>10. OwnReply'
  BY <1>t DEF Reap, KernelInv, OwnReply, KernelTypeOK, EndsCleanly
<1> QED
  BY <1>1, <1>2, <1>3, <1>4, <1>5, <1>6, <1>7, <1>8, <1>9, <1>10 DEF KernelInv

\* A cell enters its kernel when no other has it.
LEMMA EnterKernelKeeps ==
  ASSUME KernelInv, NEW x \in Cell, EnterKernel(x) PROVE KernelInv'
<1>u. used[x] \in Cell /\ attached[used[x]] \in Nat /\ attached[used[x]] > 0
  BY AttachedCounts DEF EnterKernel, At
<1>a. \A k \in Cell : Attachers(k)' = Attachers(k)
  BY <1>u DEF EnterKernel, At, Attachers, KernelInv, KernelTypeOK, Inside
<1>1. KernelTypeOK'
  BY <1>u DEF EnterKernel, At, KernelInv, KernelTypeOK, CellPc, Inside
<1>2. CountOK'
  BY <1>a, <1>u DEF EnterKernel, At, KernelInv, CountOK, KernelTypeOK
<1>3. NewOK'
  BY <1>u DEF EnterKernel, At, KernelInv, NewOK, KernelTypeOK, InTable
<1>4. OneKeyOK'
  BY <1>u DEF EnterKernel, At, KernelInv, OneKeyOK
<1>5. SweptOK'
  BY <1>u DEF EnterKernel, At, KernelInv, SweptOK, KernelTypeOK, InTable
<1>6. OwnedOK'
  BY <1>u DEF EnterKernel, At, KernelInv, OwnedOK, Owned, KernelTypeOK, InTable
<1>7. LockOK'
  BY <1>u DEF EnterKernel, At, KernelInv, LockOK, KernelTypeOK, Inside
<1>8. PipesOK'
  BY <1>u, PipesStay DEF EnterKernel, At, KernelInv, KernelTypeOK, PipesOK
<1>9. HeardOK'
  BY <1>u DEF EnterKernel, At, KernelInv, HeardOK, KernelTypeOK
<1>10. OwnReply'
  BY <1>u DEF EnterKernel, At, KernelInv, OwnReply, KernelTypeOK
<1> QED
  BY <1>1, <1>2, <1>3, <1>4, <1>5, <1>6, <1>7, <1>8, <1>9, <1>10 DEF KernelInv

\* A process is started by a cell that is attached to its kernel.
LEMMA SpawnKernelKeeps ==
  ASSUME KernelInv, NEW x \in Cell, SpawnKernel(x) PROVE KernelInv'
<1>u. used[x] \in Cell /\ attached[used[x]] \in Nat /\ attached[used[x]] > 0
  BY AttachedCounts DEF SpawnKernel, At
<1>a. \A k \in Cell : Attachers(k)' = Attachers(k)
  BY <1>u DEF SpawnKernel, At, Attachers, KernelInv, KernelTypeOK, Inside
<1>1. KernelTypeOK'
  <2>1. cellPc' \in [Cell -> CellPc]
    BY DEF SpawnKernel, At, KernelInv, KernelTypeOK, CellPc, Inside
  <2>2. proc' \in [Cell -> {"none", "live", "exited"}]
    BY <1>u DEF SpawnKernel, KernelInv, KernelTypeOK
  <2> QED
    BY <1>u, <2>1, <2>2 DEF SpawnKernel, KernelInv, KernelTypeOK
<1>2. CountOK'
  BY <1>a, <1>u DEF SpawnKernel, At, KernelInv, CountOK, KernelTypeOK
<1>3. NewOK'
  BY <1>u DEF SpawnKernel, At, KernelInv, NewOK, KernelTypeOK, InTable
<1>4. OneKeyOK'
  BY <1>u DEF SpawnKernel, At, KernelInv, OneKeyOK
<1>5. SweptOK'
  BY <1>u DEF SpawnKernel, At, KernelInv, SweptOK, KernelTypeOK, InTable
<1>6. OwnedOK'
  BY <1>u DEF SpawnKernel, At, KernelInv, OwnedOK, Owned, KernelTypeOK, InTable
<1>7. LockOK'
  BY <1>u DEF SpawnKernel, At, KernelInv, LockOK, KernelTypeOK, Inside
<1>8. PipesOK'
  <2>1. \A n \in Cell : n # used[x] => PipesAt(n)'
    BY <1>u, PipesStay DEF SpawnKernel, At, KernelInv, KernelTypeOK
  <2>2. PipesAt(used[x])'
    BY <1>u DEF SpawnKernel, KernelInv, KernelTypeOK, PipesOK, PipesAt
  <2> QED
    BY <1>u, <2>1, <2>2 DEF PipesOK, SpawnKernel, At
<1>9. HeardOK'
  BY <1>u DEF SpawnKernel, At, KernelInv, HeardOK, KernelTypeOK
<1>10. OwnReply'
  BY <1>u DEF SpawnKernel, At, KernelInv, OwnReply, KernelTypeOK
<1> QED
  BY <1>1, <1>2, <1>3, <1>4, <1>5, <1>6, <1>7, <1>8, <1>9, <1>10 DEF KernelInv

\* Code is written to a process that has nothing to run.
LEMMA WriteCellKeeps ==
  ASSUME KernelInv, NEW x \in Cell, WriteCell(x) PROVE KernelInv'
<1>u. used[x] \in Cell /\ attached[used[x]] \in Nat /\ attached[used[x]] > 0
  BY AttachedCounts DEF WriteCell, At
<1>v. \A y \in Cell : used[y] = used[x] /\ cellPc[y] \in Inside => y = x
  BY DEF WriteCell, KernelInv, LockOK, Inside
<1>w. proc[used[x]] = "live" => stdin[used[x]] = <<>> /\ responses[used[x]] = <<>>
  BY <1>u, <1>v DEF WriteCell, KernelInv, PipesOK, PipesAt, InPipes, Inside
<1>a. \A k \in Cell : Attachers(k)' = Attachers(k)
  BY <1>u DEF WriteCell, Attachers, KernelInv, KernelTypeOK, Inside
<1>1. KernelTypeOK'
  <2>1. cellPc' \in [Cell -> CellPc]
    BY DEF WriteCell, KernelInv, KernelTypeOK, CellPc, Inside
  <2>2. stdin' \in [Cell -> Seq(Cell)]
    <3>1. UNCHANGED stdin \/ stdin' = [stdin EXCEPT ![used[x]] = <<x>>]
      BY <1>u, <1>w DEF WriteCell, KernelInv, KernelTypeOK
    <3>2. <<x>> \in Seq(Cell)
      OBVIOUS
    <3> QED
      BY <3>1, <3>2 DEF KernelInv, KernelTypeOK
  <2> QED
    BY <1>u, <2>1, <2>2 DEF WriteCell, KernelInv, KernelTypeOK
<1>2. CountOK'
  BY <1>a, <1>u DEF WriteCell, KernelInv, CountOK, KernelTypeOK
<1>3. NewOK'
  <2>1. UNCHANGED <<registered, proc, used, doomed, closing>>
    BY DEF WriteCell
  <2>2. \A y \in Cell : cellPc'[y] = "new" <=> cellPc[y] = "new"
    BY <1>u DEF WriteCell, KernelInv, KernelTypeOK
  <2> QED
    BY <2>1, <2>2 DEF KernelInv, NewOK, InTable
<1>4. OneKeyOK'
  BY <1>u DEF WriteCell, KernelInv, OneKeyOK
<1>5. SweptOK'
  BY <1>u DEF WriteCell, KernelInv, SweptOK, KernelTypeOK, InTable
<1>6. OwnedOK'
  BY <1>u DEF WriteCell, KernelInv, OwnedOK, Owned, KernelTypeOK, InTable
<1>7. LockOK'
  <2>1. \A y \in Cell : cellPc'[y] \in Inside => cellPc[y] \in Inside
    BY DEF WriteCell, KernelInv, KernelTypeOK, Inside
  <2> QED
    BY <2>1 DEF WriteCell, KernelInv, LockOK
<1>8. PipesOK'
  <2>1. \A n \in Cell : n # used[x] => PipesAt(n)'
    BY <1>u, PipesStay DEF WriteCell, KernelInv, KernelTypeOK
  <2>2. PipesAt(used[x])'
    <3>1. CASE proc[used[x]] = "live"
      <4>1. InPipes(x, used[x])'
        BY <1>u, <1>w, <3>1 DEF WriteCell, InPipes, KernelInv, KernelTypeOK
      <4> QED
        BY <1>u, <3>1, <4>1 DEF WriteCell, PipesAt
    <3>2. CASE proc[used[x]] # "live"
      BY <1>u, <3>2 DEF WriteCell, KernelInv, PipesOK, PipesAt
    <3> QED
      BY <3>1, <3>2
  <2> QED
    BY <1>u, <2>1, <2>2 DEF PipesOK, WriteCell
<1>9. HeardOK'
  <2>1. responses' = responses /\ used' = used
    BY DEF WriteCell
  <2>2. \A y \in Cell : y # x => cellPc'[y] = cellPc[y]
    BY DEF WriteCell, KernelInv, KernelTypeOK
  <2>3. cellPc'[x] = "awaiting" => responses[used[x]] = <<>>
    BY <1>w DEF WriteCell, KernelInv, KernelTypeOK
  <2> QED
    BY <2>1, <2>2, <2>3 DEF KernelInv, HeardOK
<1>10. OwnReply'
  BY <1>u DEF WriteCell, KernelInv, OwnReply, KernelTypeOK
<1> QED
  BY <1>1, <1>2, <1>3, <1>4, <1>5, <1>6, <1>7, <1>8, <1>9, <1>10 DEF KernelInv

\* The process replies to the code it was given.
LEMMA ReplyKeeps ==
  ASSUME KernelInv, NEW n \in Cell, NEW status \in CellStatus, Reply(n, status) PROVE KernelInv'
<1>y. PICK y \in Cell : InPipes(y, n) /\ stdin[n] = <<y>> /\ responses[n] = <<>>
  BY DEF Reply, KernelInv, PipesOK, PipesAt, InPipes
<1>r. /\ stdin'[n] = <<>> /\ responses'[n] = <<[cell |-> y, status |-> status]>>
      /\ \A m \in Cell : m # n => stdin'[m] = stdin[m] /\ responses'[m] = responses[m]
  BY <1>y DEF Reply, KernelInv, KernelTypeOK
<1>c. UNCHANGED <<registered, proc, attached, cellPc, used, doomed, closing>>
  BY DEF Reply
<1>a. \A k \in Cell : Attachers(k)' = Attachers(k)
  BY <1>c DEF Attachers
<1>1. KernelTypeOK'
  <2>1. stdin' \in [Cell -> Seq(Cell)]
    BY <1>y DEF Reply, KernelInv, KernelTypeOK
  <2>2. responses' \in [Cell -> Seq({Eof} \cup [cell : Cell, status : CellStatus])]
    BY <1>y DEF Reply, KernelInv, KernelTypeOK
  <2> QED
    BY <2>1, <2>2 DEF Reply, KernelInv, KernelTypeOK
<1>2. CountOK'
  BY <1>a, <1>c DEF KernelInv, CountOK
<1>3. NewOK'
  BY <1>c DEF KernelInv, NewOK, InTable
<1>4. OneKeyOK'
  BY <1>c DEF KernelInv, OneKeyOK
<1>5. SweptOK'
  BY <1>c DEF KernelInv, SweptOK, InTable
<1>6. OwnedOK'
  BY <1>c DEF KernelInv, OwnedOK, Owned, InTable
<1>7. LockOK'
  BY <1>c DEF KernelInv, LockOK
<1>8. PipesOK'
  <2>1. \A m \in Cell : m # n => PipesAt(m)'
    BY PipesStay DEF Reply, KernelInv, KernelTypeOK
  <2>2. PipesAt(n)'
    BY <1>y, <1>r DEF Reply, PipesAt, InPipes
  <2> QED
    BY <2>1, <2>2 DEF PipesOK
<1>9. HeardOK'
  <2>1. \A x \in Cell : used[x] = n /\ cellPc[x] = "awaiting" => x = y
    BY <1>y DEF InPipes, KernelInv, LockOK, Inside
  <2>2. \A x \in Cell : cellPc[x] = "awaiting" => used[x] \in Cell
    BY AttachedCounts
  <2>3. ASSUME NEW x \in Cell, cellPc'[x] = "awaiting", responses'[used'[x]] # <<>>
        PROVE  responses'[used'[x]][1] = Eof \/ responses'[used'[x]][1].cell = x
    <3>1. used' = used /\ cellPc' = cellPc
      BY DEF Reply
    <3>2. CASE used[x] = n
      BY <1>r, <2>1, <2>3, <3>1, <3>2
    <3>3. CASE used[x] # n
      BY <1>r, <2>2, <2>3, <3>1, <3>3 DEF KernelInv, HeardOK
    <3> QED
      BY <3>2, <3>3
  <2> QED
    BY <2>3 DEF HeardOK
<1>10. OwnReply'
  BY DEF Reply, KernelInv, OwnReply, KernelTypeOK
<1> QED
  BY <1>1, <1>2, <1>3, <1>4, <1>5, <1>6, <1>7, <1>8, <1>9, <1>10 DEF KernelInv

\* The process of a kernel ends by itself.
LEMMA DiesKeeps ==
  ASSUME KernelInv, NEW n \in Cell, Dies(n) PROVE KernelInv'
<1>t. EndsCleanly(n)
  BY ProcessEnds DEF Dies, Teardown
<1>a. \A k \in Cell : Attachers(k)' = Attachers(k)
  BY <1>t DEF Dies, Attachers, KernelInv, KernelTypeOK, Inside, EndsCleanly
<1>1. KernelTypeOK'
  BY <1>t DEF Dies, KernelInv, KernelTypeOK, CellPc, Inside, EndsCleanly
<1>2. CountOK'
  BY <1>a, <1>t DEF Dies, KernelInv, CountOK, KernelTypeOK, EndsCleanly
<1>3. NewOK'
  BY <1>t DEF Dies, KernelInv, NewOK, KernelTypeOK, InTable, EndsCleanly
<1>4. OneKeyOK'
  BY <1>t DEF Dies, KernelInv, OneKeyOK, EndsCleanly
<1>5. SweptOK'
  BY <1>t DEF Dies, KernelInv, SweptOK, KernelTypeOK, InTable, EndsCleanly
<1>6. OwnedOK'
  BY <1>t DEF Dies, KernelInv, OwnedOK, Owned, KernelTypeOK, InTable, EndsCleanly
<1>7. LockOK'
  BY <1>t DEF Dies, KernelInv, LockOK, KernelTypeOK, Inside, EndsCleanly
<1>8. PipesOK'
  <2>1. \A m \in Cell : m # n => PipesAt(m)'
    BY <1>t, PipesStay DEF Dies, KernelInv, KernelTypeOK, EndsCleanly
  <2>2. PipesAt(n)'
    BY <1>t DEF PipesAt, Dies, EndsCleanly
  <2> QED
    BY <2>1, <2>2 DEF PipesOK
<1>9. HeardOK'
  BY <1>t DEF Dies, KernelInv, HeardOK, KernelTypeOK, EndsCleanly
<1>10. OwnReply'
  BY <1>t DEF Dies, KernelInv, OwnReply, KernelTypeOK, EndsCleanly
<1> QED
  BY <1>1, <1>2, <1>3, <1>4, <1>5, <1>6, <1>7, <1>8, <1>9, <1>10 DEF KernelInv

\* A cell hears its own reply, or the end of the process.
LEMMA ReceiveKeeps ==
  ASSUME KernelInv, NEW x \in Cell, Receive(x) PROVE KernelInv'
<1>u. used[x] \in Cell /\ attached[used[x]] \in Nat /\ attached[used[x]] > 0
  BY AttachedCounts DEF Receive, At
<1>r. /\ responses[used[x]] \in Seq({Eof} \cup [cell : Cell, status : CellStatus])
      /\ responses[used[x]] # <<>> /\ Head(responses[used[x]]) = responses[used[x]][1]
      /\ responses[used[x]][1] \in {Eof} \cup [cell : Cell, status : CellStatus]
      /\ Tail(responses[used[x]]) \in Seq({Eof} \cup [cell : Cell, status : CellStatus])
  BY <1>u DEF Receive, KernelInv, KernelTypeOK
<1>h. responses[used[x]][1] = Eof \/ responses[used[x]][1].cell = x
  BY <1>r DEF Receive, At, KernelInv, HeardOK
<1>s. reply' = [reply EXCEPT ![x] = {}] \/ reply' = [reply EXCEPT ![x] = {x}]
  <2>1. CASE responses[used[x]][1] = Eof
    <3>1. Eof.status \notin {"ok", "exit"}
      BY DEF Eof
    <3>2. Head(responses[used[x]]).status \notin {"ok", "exit"}
      BY <1>r, <2>1, <3>1
    <3> QED
      BY <3>2 DEF Receive
  <2>2. CASE responses[used[x]][1].cell = x
    BY <1>r, <2>2 DEF Receive
  <2> QED
    BY <1>h, <2>1, <2>2
<1>v. \A y \in Cell : used[y] = used[x] /\ cellPc[y] \in Inside => y = x
  BY DEF Receive, At, KernelInv, LockOK, Inside
<1>a. \A k \in Cell : Attachers(k)' = Attachers(k)
  BY <1>u DEF Receive, At, Attachers, KernelInv, KernelTypeOK, Inside
<1>1. KernelTypeOK'
  <2>1. cellPc' \in [Cell -> CellPc]
    BY DEF Receive, At, KernelInv, KernelTypeOK, CellPc, Inside
  <2>2. responses' \in [Cell -> Seq({Eof} \cup [cell : Cell, status : CellStatus])]
    BY <1>u, <1>r DEF Receive, KernelInv, KernelTypeOK
  <2>3. reply' \in [Cell -> SUBSET Cell]
    <3>1. {} \in SUBSET Cell /\ {x} \in SUBSET Cell
      OBVIOUS
    <3>2. reply \in [Cell -> SUBSET Cell]
      BY DEF KernelInv, KernelTypeOK
    <3> QED
      BY <1>s, <3>1, <3>2
  <2> QED
    BY <1>u, <2>1, <2>2, <2>3 DEF Receive, KernelInv, KernelTypeOK
<1>2. CountOK'
  BY <1>a, <1>u DEF Receive, At, KernelInv, CountOK, KernelTypeOK
<1>3. NewOK'
  BY <1>u DEF Receive, At, KernelInv, NewOK, KernelTypeOK, InTable
<1>4. OneKeyOK'
  BY <1>u DEF Receive, At, KernelInv, OneKeyOK
<1>5. SweptOK'
  BY <1>u DEF Receive, At, KernelInv, SweptOK, KernelTypeOK, InTable
<1>6. OwnedOK'
  BY <1>u DEF Receive, At, KernelInv, OwnedOK, Owned, KernelTypeOK, InTable
<1>7. LockOK'
  BY <1>u DEF Receive, At, KernelInv, LockOK, KernelTypeOK, Inside
<1>8. PipesOK'
  <2>1. \A n \in Cell : n # used[x] => PipesAt(n)'
    BY <1>u, PipesStay DEF Receive, At, KernelInv, KernelTypeOK
  <2>2. PipesAt(used[x])'
    <3>1. proc[used[x]] = "live" => stdin[used[x]] = <<>> /\ Tail(responses[used[x]]) = <<>>
      <4>1. ASSUME NEW y \in Cell, InPipes(y, used[x])
            PROVE  stdin[used[x]] = <<>> /\ Tail(responses[used[x]]) = <<>>
        <5>1. PICK s \in CellStatus : responses[used[x]] = <<[cell |-> y, status |-> s]>>
          BY <1>r, <4>1 DEF InPipes
        <5> QED
          BY <1>r, <4>1, <5>1 DEF InPipes
      <4> QED
        BY <1>u, <1>r, <4>1 DEF KernelInv, PipesOK, PipesAt
    <3>2. responses'[used[x]] = Tail(responses[used[x]])
      BY <1>u DEF Receive, KernelInv, KernelTypeOK
    <3> QED
      BY <1>u, <1>r, <3>1, <3>2 DEF Receive, KernelInv, PipesOK, PipesAt
  <2> QED
    BY <1>u, <2>1, <2>2 DEF PipesOK, Receive, At
<1>9. HeardOK'
  <2>1. \A y \in Cell : cellPc'[y] = "awaiting" => y # x /\ cellPc[y] = "awaiting"
    BY DEF Receive, At, KernelInv, KernelTypeOK
  <2>2. \A y \in Cell : cellPc'[y] = "awaiting" => used[y] \in Cell /\ used[y] # used[x]
    BY <1>v, <2>1, AttachedCounts DEF Inside
  <2>3. \A m \in Cell : m # used[x] => responses'[m] = responses[m]
    BY <1>u DEF Receive, KernelInv, KernelTypeOK
  <2> QED
    BY <2>1, <2>2, <2>3 DEF Receive, KernelInv, HeardOK
<1>10. OwnReply'
  <2>1. reply \in [Cell -> SUBSET Cell]
    BY DEF KernelInv, KernelTypeOK
  <2>2. \A y \in Cell : reply'[y] = reply[y] \/ reply'[y] \subseteq {y}
    BY <1>s, <2>1
  <2> QED
    BY <2>2 DEF KernelInv, OwnReply
<1> QED
  BY <1>1, <1>2, <1>3, <1>4, <1>5, <1>6, <1>7, <1>8, <1>9, <1>10 DEF KernelInv

\* A cell that gives up is still in its kernel.
LEMMA GiveUpKeeps ==
  ASSUME KernelInv, NEW x \in Cell, GiveUp(x) PROVE KernelInv'
<1>u. used[x] \in Cell /\ attached[used[x]] \in Nat /\ attached[used[x]] > 0
  BY AttachedCounts DEF GiveUp, At
<1>a. \A k \in Cell : Attachers(k)' = Attachers(k)
  BY <1>u DEF GiveUp, At, Attachers, KernelInv, KernelTypeOK, Inside
<1>1. KernelTypeOK'
  BY <1>u DEF GiveUp, At, KernelInv, KernelTypeOK, CellPc, Inside
<1>2. CountOK'
  BY <1>a, <1>u DEF GiveUp, At, KernelInv, CountOK, KernelTypeOK
<1>3. NewOK'
  BY <1>u DEF GiveUp, At, KernelInv, NewOK, KernelTypeOK, InTable
<1>4. OneKeyOK'
  BY <1>u DEF GiveUp, At, KernelInv, OneKeyOK
<1>5. SweptOK'
  BY <1>u DEF GiveUp, At, KernelInv, SweptOK, KernelTypeOK, InTable
<1>6. OwnedOK'
  BY <1>u DEF GiveUp, At, KernelInv, OwnedOK, Owned, KernelTypeOK, InTable
<1>7. LockOK'
  BY <1>u DEF GiveUp, At, KernelInv, LockOK, KernelTypeOK, Inside
<1>8. PipesOK'
  BY <1>u, PipesStay DEF GiveUp, At, KernelInv, KernelTypeOK, PipesOK
<1>9. HeardOK'
  BY <1>u DEF GiveUp, At, KernelInv, HeardOK, KernelTypeOK
<1>10. OwnReply'
  BY <1>u DEF GiveUp, At, KernelInv, OwnReply, KernelTypeOK
<1> QED
  BY <1>1, <1>2, <1>3, <1>4, <1>5, <1>6, <1>7, <1>8, <1>9, <1>10 DEF KernelInv

\* A kernel that is dropped has the cell that drops it attached.
LEMMA DropKeeps ==
  ASSUME KernelInv, NEW x \in Cell, Drop(x) PROVE KernelInv'
<1>u. used[x] \in Cell /\ attached[used[x]] \in Nat /\ attached[used[x]] > 0
  BY AttachedCounts DEF Drop, At
<1>a. \A k \in Cell : Attachers(k)' = Attachers(k)
  BY <1>u DEF Drop, At, Without, Attachers, KernelInv, KernelTypeOK, Inside
<1>1. KernelTypeOK'
  BY <1>u DEF Drop, At, Without, KernelInv, KernelTypeOK, CellPc, Inside
<1>2. CountOK'
  BY <1>a, <1>u DEF Drop, At, Without, KernelInv, CountOK, KernelTypeOK
<1>3. NewOK'
  BY <1>u DEF Drop, At, Without, KernelInv, NewOK, KernelTypeOK, InTable
<1>4. OneKeyOK'
  BY <1>u DEF Drop, At, Without, KernelInv, OneKeyOK
<1>5. SweptOK'
  BY <1>u DEF Drop, At, Without, KernelInv, SweptOK, KernelTypeOK, InTable
<1>6. OwnedOK'
  BY <1>u DEF Drop, At, Without, KernelInv, OwnedOK, Owned, KernelTypeOK, InTable
<1>7. LockOK'
  BY <1>u DEF Drop, At, Without, KernelInv, LockOK, KernelTypeOK, Inside
<1>8. PipesOK'
  BY <1>u, PipesStay DEF Drop, At, Without, KernelInv, KernelTypeOK, PipesOK
<1>9. HeardOK'
  BY <1>u DEF Drop, At, Without, KernelInv, HeardOK, KernelTypeOK
<1>10. OwnReply'
  BY <1>u DEF Drop, At, Without, KernelInv, OwnReply, KernelTypeOK
<1> QED
  BY <1>1, <1>2, <1>3, <1>4, <1>5, <1>6, <1>7, <1>8, <1>9, <1>10 DEF KernelInv

\* A kernel that was dropped is torn down before the next cell enters it.
LEMMA DiscardedKeeps ==
  ASSUME KernelInv, NEW x \in Cell, Discarded(x) PROVE KernelInv'
<1>u. used[x] \in Cell /\ attached[used[x]] \in Nat /\ attached[used[x]] > 0
  BY AttachedCounts DEF Discarded, At
<1>t. EndsCleanly(used[x])
  BY <1>u, ProcessEnds DEF Discarded
<1>a. \A k \in Cell : Attachers(k)' = Attachers(k)
  BY <1>u, <1>t DEF Discarded, At, Attachers, KernelInv, KernelTypeOK, Inside,
       EndsCleanly
<1>1. KernelTypeOK'
  BY <1>u, <1>t DEF Discarded, At, KernelInv, KernelTypeOK, CellPc, Inside, EndsCleanly
<1>2. CountOK'
  BY <1>a, <1>u, <1>t DEF Discarded, At, KernelInv, CountOK, KernelTypeOK, EndsCleanly
<1>3. NewOK'
  BY <1>u, <1>t DEF Discarded, At, KernelInv, NewOK, KernelTypeOK, InTable, EndsCleanly
<1>4. OneKeyOK'
  BY <1>u, <1>t DEF Discarded, At, KernelInv, OneKeyOK, EndsCleanly
<1>5. SweptOK'
  BY <1>u, <1>t DEF Discarded, At, KernelInv, SweptOK, KernelTypeOK, InTable,
       EndsCleanly
<1>6. OwnedOK'
  <2>1. ASSUME NEW m \in Cell, proc'[m] = "live" PROVE Owned(m)'
    <3>1. m # used[x] /\ Owned(m)
      BY <1>t, <2>1 DEF KernelInv, OwnedOK, EndsCleanly
    <3> QED
      BY <3>1 DEF Discarded, At, KernelInv, KernelTypeOK, Owned, InTable
  <2> QED
    BY <2>1 DEF OwnedOK
<1>7. LockOK'
  BY DEF Discarded, At, KernelInv, KernelTypeOK, LockOK, Inside
<1>8. PipesOK'
  <2>1. \A n \in Cell : n # used[x] => PipesAt(n)'
    BY <1>u, <1>t, PipesStay DEF Discarded, At, KernelInv, KernelTypeOK, EndsCleanly
  <2>2. PipesAt(used[x])'
    BY <1>u, <1>t DEF PipesAt, Discarded, At, EndsCleanly
  <2> QED
    BY <1>u, <2>1, <2>2 DEF PipesOK, Discarded, At
<1>9. HeardOK'
  BY <1>u, <1>t DEF Discarded, At, KernelInv, HeardOK, KernelTypeOK, EndsCleanly
<1>10. OwnReply'
  BY <1>u, <1>t DEF Discarded, At, KernelInv, OwnReply, KernelTypeOK, EndsCleanly
<1> QED
  BY <1>1, <1>2, <1>3, <1>4, <1>5, <1>6, <1>7, <1>8, <1>9, <1>10 DEF KernelInv

\* A cell that lets the next one in leaves nothing behind.
LEMMA ReleaseKernelKeeps ==
  ASSUME KernelInv, NEW x \in Cell, ReleaseKernel(x) PROVE KernelInv'
<1>u. used[x] \in Cell /\ attached[used[x]] \in Nat /\ attached[used[x]] > 0
  BY AttachedCounts DEF ReleaseKernel, At
<1>a. \A k \in Cell : Attachers(k)' = Attachers(k)
  BY <1>u DEF ReleaseKernel, At, Attachers, KernelInv, KernelTypeOK, Inside
<1>1. KernelTypeOK'
  BY <1>u DEF ReleaseKernel, At, KernelInv, KernelTypeOK, CellPc, Inside
<1>2. CountOK'
  BY <1>a, <1>u DEF ReleaseKernel, At, KernelInv, CountOK, KernelTypeOK
<1>3. NewOK'
  BY <1>u DEF ReleaseKernel, At, KernelInv, NewOK, KernelTypeOK, InTable
<1>4. OneKeyOK'
  BY <1>u DEF ReleaseKernel, At, KernelInv, OneKeyOK
<1>5. SweptOK'
  BY <1>u DEF ReleaseKernel, At, KernelInv, SweptOK, KernelTypeOK, InTable
<1>6. OwnedOK'
  BY <1>u DEF ReleaseKernel, At, KernelInv, OwnedOK, Owned, KernelTypeOK, InTable
<1>7. LockOK'
  BY <1>u DEF ReleaseKernel, At, KernelInv, LockOK, KernelTypeOK, Inside
<1>8. PipesOK'
  BY <1>u, PipesStay DEF ReleaseKernel, At, KernelInv, KernelTypeOK, PipesOK
<1>9. HeardOK'
  BY <1>u DEF ReleaseKernel, At, KernelInv, HeardOK, KernelTypeOK
<1>10. OwnReply'
  BY <1>u DEF ReleaseKernel, At, KernelInv, OwnReply, KernelTypeOK
<1> QED
  BY <1>1, <1>2, <1>3, <1>4, <1>5, <1>6, <1>7, <1>8, <1>9, <1>10 DEF KernelInv

\* The last cell of a kernel that was dropped buries it.
LEMMA LeaveKernelKeeps ==
  ASSUME KernelInv, NEW x \in Cell, LeaveKernel(x) PROVE KernelInv'
<1>u. used[x] \in Cell /\ attached[used[x]] \in Nat /\ attached[used[x]] > 0
  BY AttachedCounts DEF LeaveKernel, At
<1>1. KernelTypeOK'
  <2>1. cellPc' \in [Cell -> CellPc]
    BY DEF LeaveKernel, At, KernelInv, KernelTypeOK, CellPc, Inside
  <2>2. attached' \in [Cell -> Nat]
    BY <1>u DEF LeaveKernel, KernelInv, KernelTypeOK
  <2>3. older' \subseteq Cell \X Cell
    BY <1>u DEF LeaveKernel, Touch, InTable, KernelInv, KernelTypeOK
  <2> QED
    BY <2>1, <2>2, <2>3 DEF LeaveKernel, KernelInv, KernelTypeOK
<1>2. CountOK'
  <2>1. Attachers(used[x])' = Attachers(used[x]) \ {x} /\ x \in Attachers(used[x])
    BY <1>u DEF LeaveKernel, At, Attachers, KernelInv, KernelTypeOK
  <2>2. \A n \in Cell : n # used[x] => Attachers(n)' = Attachers(n)
    BY <1>u DEF LeaveKernel, At, Attachers, KernelInv, KernelTypeOK
  <2>3. Cardinality(Attachers(used[x])') = Cardinality(Attachers(used[x])) - 1
    BY <2>1, AttachersFinite, OneMoreOneLess
  <2> QED
    BY <1>u, <2>2, <2>3 DEF LeaveKernel, KernelInv, CountOK, KernelTypeOK
<1>3. NewOK'
  BY <1>u DEF LeaveKernel, At, Orphaned, KernelInv, NewOK, KernelTypeOK, InTable
<1>4. OneKeyOK'
  BY <1>u DEF LeaveKernel, At, Orphaned, KernelInv, OneKeyOK
<1>5. SweptOK'
  BY <1>u DEF LeaveKernel, At, Orphaned, KernelInv, SweptOK, KernelTypeOK, InTable
<1>6. OwnedOK'
  BY <1>u DEF LeaveKernel, At, Orphaned, KernelInv, OwnedOK, Owned, KernelTypeOK,
       InTable
<1>7. LockOK'
  BY <1>u DEF LeaveKernel, At, Orphaned, KernelInv, LockOK, KernelTypeOK, Inside
<1>8. PipesOK'
  BY <1>u, PipesStay DEF LeaveKernel, At, Orphaned, KernelInv, KernelTypeOK, PipesOK
<1>9. HeardOK'
  BY <1>u DEF LeaveKernel, At, Orphaned, KernelInv, HeardOK, KernelTypeOK
<1>10. OwnReply'
  BY <1>u DEF LeaveKernel, At, Orphaned, KernelInv, OwnReply, KernelTypeOK
<1> QED
  BY <1>1, <1>2, <1>3, <1>4, <1>5, <1>6, <1>7, <1>8, <1>9, <1>10 DEF KernelInv

\* The one that buries a kernel tears it down.
LEMMA BuryKeeps ==
  ASSUME KernelInv, NEW x \in Cell, Bury(x) PROVE KernelInv'
<1>u. used[x] \in Cell
  BY DEF Bury, At, KernelInv, NewOK, KernelTypeOK
<1>t. EndsCleanly(used[x])
  BY <1>u, ProcessEnds DEF Bury
<1>a. \A k \in Cell : Attachers(k)' = Attachers(k)
  BY <1>u, <1>t DEF Bury, At, Attachers, KernelInv, KernelTypeOK, Inside, EndsCleanly
<1>1. KernelTypeOK'
  BY <1>u, <1>t DEF Bury, At, KernelInv, KernelTypeOK, CellPc, Inside, EndsCleanly
<1>2. CountOK'
  BY <1>a, <1>u, <1>t DEF Bury, At, KernelInv, CountOK, KernelTypeOK, EndsCleanly
<1>3. NewOK'
  BY <1>u, <1>t DEF Bury, At, KernelInv, NewOK, KernelTypeOK, InTable, EndsCleanly
<1>4. OneKeyOK'
  BY <1>u, <1>t DEF Bury, At, KernelInv, OneKeyOK, EndsCleanly
<1>5. SweptOK'
  BY <1>u, <1>t DEF Bury, At, KernelInv, SweptOK, KernelTypeOK, InTable, EndsCleanly
<1>6. OwnedOK'
  BY <1>u, <1>t DEF Bury, At, KernelInv, OwnedOK, Owned, KernelTypeOK, InTable,
       EndsCleanly
<1>7. LockOK'
  BY DEF Bury, At, KernelInv, KernelTypeOK, LockOK, Inside
<1>8. PipesOK'
  <2>1. \A n \in Cell : n # used[x] => PipesAt(n)'
    BY <1>u, <1>t, PipesStay DEF Bury, At, KernelInv, KernelTypeOK, EndsCleanly
  <2>2. PipesAt(used[x])'
    BY <1>u, <1>t DEF PipesAt, Bury, At, EndsCleanly
  <2> QED
    BY <1>u, <2>1, <2>2 DEF PipesOK, Bury, At
<1>9. HeardOK'
  BY <1>u, <1>t DEF Bury, At, KernelInv, HeardOK, KernelTypeOK, EndsCleanly
<1>10. OwnReply'
  BY <1>u, <1>t DEF Bury, At, KernelInv, OwnReply, KernelTypeOK, EndsCleanly
<1> QED
  BY <1>1, <1>2, <1>3, <1>4, <1>5, <1>6, <1>7, <1>8, <1>9, <1>10 DEF KernelInv

\* What a clearing takes out of the table it tears down.
LEMMA CloseOwnersKeeps ==
  ASSUME KernelInv, NEW owners, CloseOwners(owners) PROVE KernelInv'
<1>a. \A k \in Cell : Attachers(k)' = Attachers(k)
  BY DEF CloseOwners, Without, Attachers, KernelInv, KernelTypeOK, Inside
<1>1. KernelTypeOK'
  BY DEF CloseOwners, Without, KernelInv, KernelTypeOK, CellPc, Inside
<1>2. CountOK'
  BY <1>a DEF CloseOwners, Without, KernelInv, CountOK, KernelTypeOK
<1>3. NewOK'
  BY DEF CloseOwners, Without, KernelInv, NewOK, KernelTypeOK, InTable
<1>4. OneKeyOK'
  BY DEF CloseOwners, Without, KernelInv, OneKeyOK
<1>5. SweptOK'
  BY DEF CloseOwners, Without, KernelInv, SweptOK, KernelTypeOK, InTable
<1>6. OwnedOK'
  BY DEF CloseOwners, Without, KernelInv, OwnedOK, Owned, KernelTypeOK, InTable
<1>7. LockOK'
  BY DEF CloseOwners, Without, KernelInv, LockOK, KernelTypeOK, Inside
<1>8. PipesOK'
  BY PipesStay DEF CloseOwners, Without, KernelInv, KernelTypeOK, PipesOK
<1>9. HeardOK'
  BY DEF CloseOwners, Without, KernelInv, HeardOK, KernelTypeOK
<1>10. OwnReply'
  BY DEF CloseOwners, Without, KernelInv, OwnReply, KernelTypeOK
<1> QED
  BY <1>1, <1>2, <1>3, <1>4, <1>5, <1>6, <1>7, <1>8, <1>9, <1>10 DEF KernelInv

\* So it does, one after another.
LEMMA CloseKeeps ==
  ASSUME KernelInv, NEW n \in Cell, Close(n) PROVE KernelInv'
<1>t. EndsCleanly(n)
  BY ProcessEnds DEF Close
<1>a. \A k \in Cell : Attachers(k)' = Attachers(k)
  BY <1>t DEF Close, Attachers, KernelInv, KernelTypeOK, Inside, EndsCleanly
<1>1. KernelTypeOK'
  BY <1>t DEF Close, KernelInv, KernelTypeOK, CellPc, Inside, EndsCleanly
<1>2. CountOK'
  BY <1>a, <1>t DEF Close, KernelInv, CountOK, KernelTypeOK, EndsCleanly
<1>3. NewOK'
  BY <1>t DEF Close, KernelInv, NewOK, KernelTypeOK, InTable, EndsCleanly
<1>4. OneKeyOK'
  BY <1>t DEF Close, KernelInv, OneKeyOK, EndsCleanly
<1>5. SweptOK'
  BY <1>t DEF Close, KernelInv, SweptOK, KernelTypeOK, InTable, EndsCleanly
<1>6. OwnedOK'
  BY <1>t DEF Close, KernelInv, OwnedOK, Owned, KernelTypeOK, InTable, EndsCleanly
<1>7. LockOK'
  BY <1>t DEF Close, KernelInv, LockOK, KernelTypeOK, Inside, EndsCleanly
<1>8. PipesOK'
  <2>1. \A m \in Cell : m # n => PipesAt(m)'
    BY <1>t, PipesStay DEF Close, KernelInv, KernelTypeOK, EndsCleanly
  <2>2. PipesAt(n)'
    BY <1>t DEF PipesAt, Close, EndsCleanly
  <2> QED
    BY <2>1, <2>2 DEF PipesOK
<1>9. HeardOK'
  BY <1>t DEF Close, KernelInv, HeardOK, KernelTypeOK, EndsCleanly
<1>10. OwnReply'
  BY <1>t DEF Close, KernelInv, OwnReply, KernelTypeOK, EndsCleanly
<1> QED
  BY <1>1, <1>2, <1>3, <1>4, <1>5, <1>6, <1>7, <1>8, <1>9, <1>10 DEF KernelInv

\* What a sweep takes out of the table has no cell attached, and the kernel a
\* cell gets is in the table, or is its own.
LEMMA AcquireFacts ==
  ASSUME KernelInv, NEW x \in Cell, NEW key \in KernelKey, NEW reset \in BOOLEAN,
         NEW idle \in SUBSET Cell, AcquireKernel(x, key, reset, idle)
  PROVE  \E kernel \in Cell :
           /\ used' = [used EXCEPT ![x] = kernel]
           /\ attached' = [attached EXCEPT ![kernel] = @ + 1]
           /\ older' = Touch(kernel, registered')
           /\ kernel = x \/ kernel = registered[key]
           /\ registered'[key] = kernel
           /\ \A k \in KernelKey : k # key => registered'[k] \in {registered[k], NoKernel}
           /\ registered' \in [KernelKey -> Cell \cup {NoKernel}]
           /\ \E gone \in SUBSET (InTable(registered) \ {kernel}) :
                /\ doomed' = [doomed EXCEPT ![x] = gone]
                /\ \A n \in gone : attached[n] = 0 /\ n \notin InTable(registered')
                /\ \A n \in InTable(registered) \ InTable(registered') : n \in gone \/ attached[n] > 0
<1> DEFINE swept == Without(registered, idle)
           found == swept[key]
           stale == found # NoKernel /\ (reset \/ proc[found] = "exited")
           kernel == IF found = NoKernel \/ stale THEN x ELSE found
           table == [swept EXCEPT ![key] = kernel]
           cast == {n \in {found} : stale /\ attached[n] = 0}
           candidates == Unattached(table) \ {kernel}
<1>1. PICK evicted \in SUBSET candidates :
        registered' = Without(table, evicted) /\ doomed' = [doomed EXCEPT ![x] = idle \cup cast \cup evicted]
  BY Zenon DEF AcquireKernel, LongestUnused
<1>2. /\ idle \subseteq Unattached(registered)
      /\ used' = [used EXCEPT ![x] = kernel] /\ attached' = [attached EXCEPT ![kernel] = @ + 1]
      /\ older' = Touch(kernel, registered')
  BY DEF AcquireKernel, LongestUnused
<1>3. /\ registered \in [KernelKey -> Cell \cup {NoKernel}] /\ NoKernel \notin Cell
      /\ attached \in [Cell -> Nat] /\ cellPc[x] = "new"
      /\ x \notin InTable(registered)
  BY KernelAssumption DEF KernelInv, KernelTypeOK, NewOK, AcquireKernel, At
<1>4. /\ swept \in [KernelKey -> Cell \cup {NoKernel}]
      /\ \A k \in KernelKey : swept[k] = IF registered[k] \in idle THEN NoKernel ELSE registered[k]
  BY <1>3 DEF Without
<1>5. kernel \in Cell /\ (kernel = x \/ (kernel = registered[key] /\ kernel \notin idle))
  BY <1>3, <1>4
<1>6. /\ table \in [KernelKey -> Cell \cup {NoKernel}] /\ table[key] = kernel
      /\ \A k \in KernelKey : k # key => table[k] = swept[k]
  BY <1>4, <1>5
<1>7. /\ registered' \in [KernelKey -> Cell \cup {NoKernel}]
      /\ \A k \in KernelKey : registered'[k] = IF table[k] \in evicted THEN NoKernel ELSE table[k]
  BY <1>1, <1>3, <1>6 DEF Without
<1>8. /\ kernel \notin evicted
      /\ \A n \in evicted : n \in InTable(table) /\ attached[n] = 0
  BY <1>1 DEF Unattached
<1>9. \A n \in idle : n \in InTable(registered) /\ attached[n] = 0
  BY <1>2 DEF Unattached
<1>10. \A n \in evicted : n \in InTable(registered)
  BY <1>3, <1>4, <1>6, <1>8 DEF InTable
<1>11. ASSUME NEW n \in cast
       PROVE  n = registered[key] /\ n \in InTable(registered) /\ attached[n] = 0 /\ n # kernel /\ kernel = x
  BY <1>3, <1>4, <1>11 DEF InTable
<1> DEFINE gone == idle \cup cast \cup evicted
<1>12. gone \in SUBSET (InTable(registered) \ {kernel})
  BY <1>3, <1>5, <1>8, <1>9, <1>10, <1>11
<1>13. \A n \in gone : attached[n] = 0
  BY <1>8, <1>9, <1>11
<1>14. /\ registered'[key] = kernel
       /\ \A k \in KernelKey : k # key => registered'[k] \in {registered[k], NoKernel}
  BY <1>4, <1>6, <1>7, <1>8
<1>15. \A n \in gone : n \notin InTable(registered')
  <2>1. SUFFICES ASSUME NEW n \in gone, NEW k \in KernelKey, registered'[k] = n PROVE FALSE
    BY <1>12 DEF InTable
  <2>2. n \in Cell /\ n # kernel /\ n # NoKernel
    BY <1>3, <1>12 DEF InTable
  <2>3. k # key /\ registered[k] = n
    BY <1>14, <2>1, <2>2
  <2>4. n \notin evicted /\ n \notin idle
    BY <1>4, <1>6, <1>7, <2>1, <2>2, <2>3
  <2>5. n \in cast
    BY <2>4
  <2>6. n = registered[key]
    BY <1>11, <2>5
  <2> QED
    BY <2>2, <2>3, <2>6 DEF KernelInv, OneKeyOK
<1>16. \A n \in InTable(registered) \ InTable(registered') : n \in gone \/ attached[n] > 0
  <2>1. SUFFICES ASSUME NEW k \in KernelKey, NEW n \in Cell, registered[k] = n,
                        n \notin InTable(registered'), attached[n] = 0, n \notin idle, n \notin evicted
                 PROVE  n \in cast
    BY <1>3 DEF InTable
  <2>2. swept[k] = n
    BY <1>4, <2>1
  <2>3. table[k] # n
    BY <1>3, <1>7, <2>1 DEF InTable
  <2>4. k = key /\ kernel # n
    BY <1>6, <2>2, <2>3
  <2>5. found = n /\ stale
    BY <1>3, <2>2, <2>4
  <2> QED
    BY <2>1, <2>5
<1> HIDE DEF kernel, gone
<1>17. doomed' = [doomed EXCEPT ![x] = gone]
  BY <1>1 DEF gone
<1>18. \E g \in SUBSET (InTable(registered) \ {kernel}) :
         /\ doomed' = [doomed EXCEPT ![x] = g]
         /\ \A n \in g : attached[n] = 0 /\ n \notin InTable(registered')
         /\ \A n \in InTable(registered) \ InTable(registered') : n \in g \/ attached[n] > 0
  BY <1>12, <1>13, <1>15, <1>16, <1>17
<1> QED
  BY <1>2, <1>5, <1>7, <1>14, <1>18

\* A cell that gets a kernel keeps the invariant.
LEMMA AcquireKernelKeeps ==
  ASSUME KernelInv, NEW x \in Cell, NEW key \in KernelKey, NEW reset \in BOOLEAN,
         NEW idle \in SUBSET Cell, AcquireKernel(x, key, reset, idle)
  PROVE  KernelInv'
<1>k. PICK kernel \in Cell :
        /\ used' = [used EXCEPT ![x] = kernel]
        /\ attached' = [attached EXCEPT ![kernel] = @ + 1]
        /\ older' = Touch(kernel, registered')
        /\ kernel = x \/ kernel = registered[key]
        /\ registered'[key] = kernel
        /\ \A k \in KernelKey : k # key => registered'[k] \in {registered[k], NoKernel}
        /\ registered' \in [KernelKey -> Cell \cup {NoKernel}]
        /\ \E gone \in SUBSET (InTable(registered) \ {kernel}) :
             /\ doomed' = [doomed EXCEPT ![x] = gone]
             /\ \A n \in gone : attached[n] = 0 /\ n \notin InTable(registered')
             /\ \A n \in InTable(registered) \ InTable(registered') : n \in gone \/ attached[n] > 0
  BY AcquireFacts
<1>1. PICK gone \in SUBSET (InTable(registered) \ {kernel}) :
        /\ doomed' = [doomed EXCEPT ![x] = gone]
        /\ \A n \in gone : attached[n] = 0 /\ n \notin InTable(registered')
        /\ \A n \in InTable(registered) \ InTable(registered') : n \in gone \/ attached[n] > 0
  BY <1>k
<1>2. /\ cellPc[x] = "new" /\ cellPc' = [cellPc EXCEPT ![x] = "called"]
      /\ UNCHANGED <<proc, stdin, responses, reply, closing>>
  BY DEF AcquireKernel, At
<1>3. /\ NoKernel \notin Cell /\ used[x] = NoKernel /\ x \notin InTable(registered) /\ doomed[x] = {}
      /\ \A y \in Cell : x \notin doomed[y]
      /\ cellPc'[x] = "called" /\ used'[x] = kernel /\ attached'[kernel] = attached[kernel] + 1
      /\ \A y \in Cell : y # x => cellPc'[y] = cellPc[y] /\ used'[y] = used[y] /\ doomed'[y] = doomed[y]
      /\ doomed'[x] = gone
      /\ \A n \in Cell : n # kernel => attached'[n] = attached[n]
  BY <1>k, <1>1, <1>2, KernelAssumption DEF KernelInv, KernelTypeOK, NewOK
<1>4. InTable(registered') \subseteq InTable(registered) \cup {kernel}
  BY <1>k, <1>1 DEF InTable
<1>5. InTable(registered) \subseteq Cell /\ gone \in SUBSET Cell
  BY <1>k, <1>1 DEF InTable, KernelInv, KernelTypeOK
<1>6. KernelTypeOK'
  <2>1. cellPc' \in [Cell -> CellPc]
    BY <1>2 DEF KernelInv, KernelTypeOK, CellPc
  <2>2. older' \subseteq Cell \X Cell
    BY <1>k, <1>1 DEF Touch, InTable, KernelInv, KernelTypeOK
  <2>3. used' \in [Cell -> Cell \cup {NoKernel}] /\ attached' \in [Cell -> Nat]
    BY <1>k, <1>1 DEF KernelInv, KernelTypeOK
  <2>4. doomed' \in [Cell -> SUBSET Cell]
    BY <1>k, <1>1, <1>5 DEF KernelInv, KernelTypeOK
  <2> QED
    BY <1>k, <1>1, <1>2, <2>1, <2>2, <2>3, <2>4 DEF KernelInv, KernelTypeOK
<1>7. CountOK'
  <2>1. Attachers(kernel)' = Attachers(kernel) \cup {x} /\ x \notin Attachers(kernel)
    BY <1>2, <1>3 DEF Attachers
  <2>2. \A n \in Cell : n # kernel => Attachers(n)' = Attachers(n)
    BY <1>2, <1>3 DEF Attachers
  <2>3. Cardinality(Attachers(kernel)') = Cardinality(Attachers(kernel)) + 1
    BY <2>1, AttachersFinite, OneMoreOneLess
  <2> QED
    BY <1>3, <2>2, <2>3 DEF KernelInv, CountOK
<1>8. NewOK'
  <2>1. SUFFICES ASSUME NEW y \in Cell, y # x, cellPc[y] = "new"
                 PROVE  /\ y \notin InTable(registered') /\ y # kernel /\ y \notin gone
    BY <1>2, <1>3 DEF KernelInv, NewOK
  <2>2. y \notin InTable(registered)
    BY <2>1 DEF KernelInv, NewOK
  <2>3. y # kernel
    BY <1>k, <1>3, <2>1, <2>2 DEF InTable
  <2> QED
    BY <1>4, <2>2, <2>3
<1>9. OneKeyOK'
  <2>1. SUFFICES ASSUME NEW j \in KernelKey, j # key, registered'[j] = kernel PROVE FALSE
    BY <1>k, <1>1 DEF KernelInv, OneKeyOK
  <2>2. registered[j] = kernel
    BY <1>k, <1>1, <1>3, <2>1
  <2> QED
    BY <1>k, <1>1, <1>3, <2>1, <2>2 DEF KernelInv, OneKeyOK, InTable
<1>10. SweptOK'
  <2>1. ASSUME NEW y \in Cell, y # x, NEW n \in doomed[y]
        PROVE  attached'[n] = 0 /\ n \notin InTable(registered')
    <3>1. n \in Cell /\ attached[n] = 0 /\ n \notin InTable(registered) /\ n # x
      BY <1>3, <2>1 DEF KernelInv, KernelTypeOK, SweptOK
    <3>2. n # kernel
      BY <1>k, <1>1, <1>3, <3>1 DEF InTable
    <3> QED
      BY <1>3, <1>4, <3>1, <3>2
  <2>2. ASSUME NEW n \in gone PROVE attached'[n] = 0 /\ n \notin InTable(registered')
    BY <1>k, <1>1, <1>3, <1>5, <2>2
  <2> QED
    BY <1>3, <2>1, <2>2 DEF SweptOK
<1>11. OwnedOK'
  <2>1. SUFFICES ASSUME NEW n \in Cell, proc[n] = "live" PROVE Owned(n)'
    BY <1>2 DEF OwnedOK
  <2>2. Owned(n)
    BY <2>1 DEF KernelInv, OwnedOK
  <2>3. attached[n] > 0 => attached'[n] > 0
    <3>1. attached[n] \in Nat
      BY DEF KernelInv, KernelTypeOK
    <3> QED
      BY <1>3, <3>1
  <2>4. CASE n \in InTable(registered)
    BY <1>k, <1>1, <1>3, <2>3, <2>4 DEF Owned
  <2>5. CASE n \in closing \/ attached[n] > 0
    BY <1>2, <2>3, <2>5 DEF Owned
  <2>6. CASE \E y \in Cell : n \in doomed[y] \/ (cellPc[y] = "burying" /\ used[y] = n)
    BY <1>2, <1>3, <2>6 DEF Owned
  <2> QED
    BY <2>2, <2>4, <2>5, <2>6 DEF Owned
<1>12. LockOK'
  BY <1>3 DEF KernelInv, LockOK, Inside
<1>13. PipesOK'
  BY <1>2, <1>3, PipesStay DEF PipesOK
<1>14. HeardOK'
  BY <1>2, <1>3 DEF KernelInv, HeardOK
<1>15. OwnReply'
  BY <1>2 DEF KernelInv, OwnReply
<1> QED
  BY <1>6, <1>7, <1>8, <1>9, <1>10, <1>11, <1>12, <1>13, <1>14, <1>15 DEF KernelInv

\* Every step keeps the invariant.
LEMMA KernelNextKeeps == KernelInv /\ [KernelNext]_kernelVars => KernelInv'
<1> SUFFICES ASSUME KernelInv, [KernelNext]_kernelVars PROVE KernelInv'
  OBVIOUS
<1>1. ASSUME NEW x \in Cell, CellNext(x) PROVE KernelInv'
  <2>1. ASSUME NEW key \in KernelKey, NEW reset \in BOOLEAN, NEW idle \in SUBSET Cell,
               AcquireKernel(x, key, reset, idle)
        PROVE  KernelInv'
    BY <2>1, AcquireKernelKeeps
  <2>2. ASSUME NEW n \in doomed[x], Reap(x, n) PROVE KernelInv'
    BY <2>2, ReapKeeps DEF KernelInv, KernelTypeOK
  <2>3. CASE EnterKernel(x) \/ SpawnKernel(x) \/ WriteCell(x) \/ Receive(x) \/ GiveUp(x)
    BY <2>3, EnterKernelKeeps, SpawnKernelKeeps, WriteCellKeeps, ReceiveKeeps, GiveUpKeeps
  <2>4. CASE Drop(x) \/ Discarded(x) \/ ReleaseKernel(x) \/ LeaveKernel(x) \/ Bury(x)
    BY <2>4, DropKeeps, DiscardedKeeps, ReleaseKernelKeeps, LeaveKernelKeeps, BuryKeeps
  <2> QED
    BY <1>1, <2>1, <2>2, <2>3, <2>4 DEF CellNext
<1>2. ASSUME NEW n \in Cell, Dies(n) \/ Close(n) \/ \E status \in CellStatus : Reply(n, status)
      PROVE  KernelInv'
  BY <1>2, DiesKeeps, CloseKeeps, ReplyKeeps
<1>3. ASSUME NEW owners, CloseOwners(owners) PROVE KernelInv'
  BY <1>3, CloseOwnersKeeps
<1>4. CASE UNCHANGED kernelVars
  <2>1. (KernelTypeOK /\ CountOK /\ NewOK /\ OneKeyOK)'
    <3>1. \A k \in Cell : Attachers(k)' = Attachers(k)
      BY <1>4 DEF kernelVars, Attachers
    <3>2. CountOK'
      BY <1>4, <3>1 DEF kernelVars, KernelInv, CountOK
    <3>3. KernelTypeOK'
      BY <1>4 DEF kernelVars, KernelInv, KernelTypeOK
    <3>4. NewOK' /\ OneKeyOK'
      BY <1>4 DEF kernelVars, KernelInv, NewOK, OneKeyOK, InTable
    <3> QED
      BY <3>2, <3>3, <3>4
  <2>2. (SweptOK /\ OwnedOK /\ LockOK)'
    BY <1>4 DEF kernelVars, KernelInv, SweptOK, OwnedOK, Owned, LockOK, InTable
  <2>3. (PipesOK /\ HeardOK /\ OwnReply)'
    BY <1>4, PipesStay DEF kernelVars, KernelInv, PipesOK, HeardOK, OwnReply
  <2> QED
    BY <2>1, <2>2, <2>3 DEF KernelInv
<1> QED
  BY <1>1, <1>2, <1>3, <1>4 DEF KernelNext

\* The invariant holds of every behaviour.
THEOREM KernelInvariant == KernelSpec => []KernelInv
<1>1. KernelInit => KernelInv
  BY KernelInitHolds
<1>2. KernelInv /\ [KernelNext]_kernelVars => KernelInv'
  BY KernelNextKeeps
<1> QED
  BY <1>1, <1>2, PTL DEF KernelSpec

\* Every variable of the kernels keeps its type.
THEOREM KernelTyped == KernelSpec => []KernelTypeOK
<1>1. KernelInv => KernelTypeOK
  BY DEF KernelInv
<1> QED
  BY <1>1, KernelInvariant, PTL

\* Whoever may start, drop, sweep or clear kernels and in whatever order, no
\* live interpreter is left that nobody will stop, and none is torn down by a
\* sweep while a cell is attached (code_kernel.py:630-656, 757-766).
THEOREM KernelsAreOwned == KernelSpec => []KernelsOwned
<1>1. KernelInv => KernelsOwned
  BY DEF KernelInv, OwnedOK, SweptOK, KernelsOwned
<1> QED
  BY <1>1, KernelInvariant, PTL

\* Whatever cells time out, exit or die before it, a cell returns its own
\* reply or none (_cell_result, code_kernel.py:689-691).
THEOREM RepliesAreOwn == KernelSpec => []OwnReply
<1>1. KernelInv => OwnReply
  BY DEF KernelInv
<1> QED
  BY <1>1, KernelInvariant, PTL

===============================================================================
