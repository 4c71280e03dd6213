------------------------------ MODULE FileState ------------------------------
(***************************************************************************)
(* File state between agents of one process (file_state.py), with what the *)
(* file tools do around it (file_tools.py, file_tools_read_tracking.py):   *)
(* reads with their dedup stub, edits of one or several files under a lock *)
(* per path, staleness warnings, and the records both leave behind.        *)
(*                                                                         *)
(* A file's mtime and its content are one number, its version; the content *)
(* an agent has seen is history.  An agent makes one call at a time.  Left *)
(* out: eviction at the caps, the not-found cache, the loop breakers, the  *)
(* checks that refuse a path, and files that vanish.                       *)
(***************************************************************************)
EXTENDS Naturals, FiniteSets

CONSTANTS
  Agent,        \* task ids
  File,         \* resolved paths
  Rank,         \* Rank[f]: the place of f in sorted order
  Outside,      \* who edits without the tools; no agent
  Region,       \* what agents read: <<f, FALSE>> all of f, <<f, TRUE>> from a later line
  Edits,        \* bound: the sets of files that one call edits
  Exposed,      \* bound: files that are edited from outside
  MaxCalls      \* bound: calls of all agents, and edits from outside

ASSUME FileAssumption ==
  /\ IsFiniteSet(Agent) /\ Outside \notin Agent
  /\ Rank \in [File -> Nat] /\ \A f, g \in File : Rank[f] = Rank[g] => f = g
  /\ Region \subseteq File \X BOOLEAN
  /\ Edits \subseteq SUBSET File \ {{}} /\ Exposed \subseteq File
  /\ MaxCalls \in Nat

VARIABLES
  version,     \* version[f]: content and mtime of f
  stamp,       \* stamp[a][f]: mtime in _reads, 0 for no stamp
  partly,      \* partly[a]: files whose stamp is partial
  lastWriter,  \* lastWriter[f]: the agent in _last_writer, Outside for none
  newer,       \* newer[a]: files whose last writer is newer than a's stamp
  readTimes,   \* readTimes[a][f]: read_timestamps, 0 for none
  dedup,       \* dedup[a][r]: mtime of the region r, 0 for none
  served,      \* served[a]: dedup_generation_reads
  lockOf,      \* lockOf[f]: the lock object in _path_locks, 0 for none
  users,       \* users[f]: _path_lock_users
  joined,      \* joined[a][f]: the lock object a took from there, 0 for none
  held,        \* held[a]: files whose lock a has acquired
  phase,        \* phase[a]: where the call of a is
  files,       \* files[a]: the files of its edit, or of its read
  part,        \* agents whose read is partial
  want,        \* want[a]: files a has yet to lock
  warned,      \* warned[a]: files its edit warns about
  calls,       \* calls and outside edits so far
  view,        \* history: view[a][f]: the version a last read or wrote, 0 for none
  shown,       \* history: shown[a][r]: the version of r that a was served
  slipped,     \* history: regions of a whose mtime is not of what a was served
  excused,     \* history: files of a whose stamp is not of what a has seen
  clobbered,   \* history: files that a replaced unseen and unwarned
  misled       \* history: agents told "unchanged" of what they had not seen

records == <<stamp, partly, lastWriter, newer>>
tracker == <<readTimes, dedup, served>>
locks   == <<lockOf, users, joined, held>>
call    == <<phase, files, part, want, warned, calls>>
sights  == <<view, shown, slipped, excused, clobbered, misled>>
fileVars == <<version, records, tracker, locks, call, sights>>

Steps  == {"idle", "fetch", "track", "stamp", "join", "acquire", "check", "write",
           "note", "unlock", "leave"}

FileTypeOK ==
  /\ version \in [File -> Nat \ {0}]
  /\ stamp \in [Agent -> [File -> Nat]] /\ partly \in [Agent -> SUBSET File]
  /\ lastWriter \in [File -> Agent \cup {Outside}] /\ newer \in [Agent -> SUBSET File]
  /\ readTimes \in [Agent -> [File -> Nat]] /\ dedup \in [Agent -> [Region -> Nat]]
  /\ served \in [Agent -> SUBSET (File \X BOOLEAN)]
  /\ lockOf \in [File -> Nat] /\ users \in [File -> Nat]
  /\ joined \in [Agent -> [File -> Nat]] /\ held \in [Agent -> SUBSET File]
  /\ phase \in [Agent -> Steps] /\ files \in [Agent -> SUBSET File] /\ part \subseteq Agent
  /\ want \in [Agent -> SUBSET File] /\ warned \in [Agent -> SUBSET File]
  /\ calls \in Nat
  /\ view \in [Agent -> [File -> Nat]] /\ shown \in [Agent -> [Region -> Nat]]
  /\ excused \in [Agent -> SUBSET File] /\ clobbered \in [Agent -> SUBSET File]
  /\ slipped \in [Agent -> SUBSET (File \X BOOLEAN)] /\ misled \subseteq Agent

FileInit ==
  LET none(S) == [a \in Agent |-> [x \in S |-> 0]]
      empty   == [a \in Agent |-> {}]
  IN  /\ version = [f \in File |-> 1]
      /\ stamp = none(File) /\ partly = empty /\ newer = empty
      /\ lastWriter = [f \in File |-> Outside]
      /\ readTimes = none(File) /\ dedup = none(Region) /\ served = empty
      /\ lockOf = [f \in File |-> 0] /\ users = [f \in File |-> 0]
      /\ joined = none(File) /\ held = empty
      /\ phase = [a \in Agent |-> "idle"] /\ files = empty /\ part = {}
      /\ want = empty /\ warned = empty
      /\ calls = 0
      /\ view = none(File) /\ shown = none(Region)
      /\ slipped = empty /\ excused = empty /\ clobbered = empty /\ misled = {}

StepTo(a, next) == phase' = [phase EXCEPT ![a] = next]

\* The call returns; its variables go with it.
Return(a) ==
  /\ StepTo(a, "idle") /\ part' = part \ {a}
  /\ files' = [files EXCEPT ![a] = {}] /\ warned' = [warned EXCEPT ![a] = {}]

Begin(a) == phase[a] = "idle" /\ calls < MaxCalls /\ calls' = calls + 1

\* Whether a has seen what its records will now say it has.
Recheck(a, S) ==
  excused' = [excused EXCEPT ![a] = (@ \ S) \cup {f \in S : version[f] # view[a][f]}]

-----------------------------------------------------------------------------
(* read_file_tool *)

\* Mutant of Current: what was served once is current.
CurrentIfServed(a, r) == dedup[a][r] # 0 /\ r \in served[a]

\* The mtime recorded for the region is the file's, and the agent still has
\* what it was served.
Current(a, r) == dedup[a][r] = version[r[1]] /\ r \in served[a]

\* The same region of an unchanged file: a stub instead of the content.
ReadStub(a, r) ==
  /\ Begin(a) /\ Current(a, r)
  /\ misled' = IF shown[a][r] = version[r[1]] \/ r \in slipped[a] THEN misled ELSE misled \cup {a}
  /\ UNCHANGED <<version, records, tracker, locks, phase, files, part, want, warned, view,
                 shown, slipped, excused, clobbered>>

StartRead(a, r) ==
  /\ Begin(a) /\ ~Current(a, r) /\ StepTo(a, "fetch")
  /\ files' = [files EXCEPT ![a] = {r[1]}]
  /\ part' = IF r[2] THEN part \cup {a} ELSE part \ {a}
  /\ UNCHANGED <<version, records, tracker, locks, want, warned, sights>>

\* The backend reads the file; no lock is held.
Fetch(a) ==
  \E f \in files[a] :
     /\ phase[a] = "fetch" /\ StepTo(a, "track")
     /\ view' = [view EXCEPT ![a][f] = version[f]]
     /\ shown' = [shown EXCEPT ![a][<<f, a \in part>>] = version[f]]
     /\ UNCHANGED <<version, records, tracker, locks, files, part, want, warned, calls,
                    slipped, excused, clobbered, misled>>

\* The agent gets no content: the backend answers with an error, or the answer is
\* "BLOCKED" for a region read again and again.  It is recorded all the same; only
\* an exception of the backend is not.
FetchNothing(a) ==
  /\ phase[a] = "fetch"
  /\ \/ StepTo(a, "track") /\ UNCHANGED <<files, part, warned>>
     \/ Return(a)
  /\ UNCHANGED <<version, records, tracker, locks, want, calls, sights>>

\* _record_successful_read, under the tracker's lock: the mtime is the file's
\* at this moment.
Track(a) ==
  \E f \in files[a] :
     LET r == <<f, a \in part>>
     IN  /\ phase[a] = "track" /\ StepTo(a, "stamp")
         /\ served' = [served EXCEPT ![a] = @ \cup {r}]
         /\ dedup' = [dedup EXCEPT ![a][r] = version[f]]
         /\ readTimes' = [readTimes EXCEPT ![a][f] = version[f]]
         /\ slipped' = [slipped EXCEPT ![a] = IF shown[a][r] = version[f] THEN @ \ {r} ELSE @ \cup {r}]
         /\ UNCHANGED <<version, records, locks, files, part, want, warned, calls, view,
                        shown, excused, clobbered, misled>>

\* record_read: the stamp, by an mtime of its own.
StampRead(a) ==
  \E f \in files[a] :
     /\ phase[a] = "stamp" /\ Return(a)
     /\ stamp' = [stamp EXCEPT ![a][f] = version[f]]
     /\ partly' = [partly EXCEPT ![a] = IF a \in part THEN @ \cup {f} ELSE @ \ {f}]
     /\ newer' = [newer EXCEPT ![a] = @ \ {f}]
     /\ Recheck(a, {f})
     /\ UNCHANGED <<version, lastWriter, tracker, locks, want, calls, view, shown, slipped,
                    clobbered, misled>>

-----------------------------------------------------------------------------
(* write_file_tool and patch_tool *)

StartEdit(a, S) ==
  /\ Begin(a) /\ StepTo(a, "join")
  /\ files' = [files EXCEPT ![a] = S] /\ want' = [want EXCEPT ![a] = S]
  /\ UNCHANGED <<version, records, tracker, locks, part, warned, sights>>

\* Mutant of NextPaths: paths are locked in the order the patch names them.
PathsAsNamed(a) == want[a]

\* Paths are locked in sorted order.
NextPaths(a) == {f \in want[a] : \A g \in want[a] : Rank[f] <= Rank[g]}

\* A lock object that nobody has a reference to.
FreshLock(f) ==
  CHOOSE n \in 1..(Cardinality(Agent) + 1) : \A b \in Agent : joined[b][f] # n

\* lock_path, under _meta_lock: the path's lock object, a new one if there is none.
Join(a) ==
  \E f \in NextPaths(a) :
     LET lock == IF lockOf[f] = 0 THEN FreshLock(f) ELSE lockOf[f]
     IN  /\ phase[a] = "join" /\ StepTo(a, "acquire")
         /\ lockOf' = [lockOf EXCEPT ![f] = lock]
         /\ users' = [users EXCEPT ![f] = @ + 1]
         /\ joined' = [joined EXCEPT ![a][f] = lock]
         /\ UNCHANGED <<version, records, tracker, held, files, part, want, warned, calls,
                        sights>>

Free(a, f) == \A b \in Agent : f \in held[b] => joined[b][f] # joined[a][f]

\* lock.acquire of the path joined last.
Acquire(a) ==
  \E f \in want[a] :
     /\ phase[a] = "acquire" /\ joined[a][f] # 0 /\ Free(a, f)
     /\ held' = [held EXCEPT ![a] = @ \cup {f}]
     /\ want' = [want EXCEPT ![a] = @ \ {f}]
     /\ StepTo(a, IF want[a] = {f} THEN "check" ELSE "join")
     /\ UNCHANGED <<version, records, tracker, lockOf, users, joined, files, part, warned,
                    calls, sights>>

\* Mutant of Stale: only the records of sibling agents are looked at.
StaleBySibling(a, f) == lastWriter[f] \notin {a, Outside} /\ (stamp[a][f] = 0 \/ f \in newer[a])

\* check_stale: a sibling wrote after the stamp, or without one; the mtime has
\* changed; the stamp is partial; there is no stamp but a writer is known.
Stale(a, f) ==
  IF stamp[a][f] = 0
  THEN lastWriter[f] # Outside
  ELSE \/ lastWriter[f] \notin {a, Outside} /\ f \in newer[a]
       \/ stamp[a][f] # version[f]
       \/ f \in partly[a]

\* _check_file_staleness: the fallback by the agent's own tracker.
Drifted(a, f) == readTimes[a][f] \notin {0, version[f]}

\* _edit_warnings.
EditWarnings(a) ==
  /\ phase[a] = "check" /\ StepTo(a, "write")
  /\ warned' = [warned EXCEPT ![a] = {f \in files[a] : Stale(a, f) \/ Drifted(a, f)}]
  /\ UNCHANGED <<version, records, tracker, locks, files, part, want, calls, sights>>

\* The content of the files in S is replaced.
Replace(a, S) ==
  LET unseen == {f \in S : view[a][f] \notin {0, version[f]}}
  IN  /\ version' = [f \in File |-> IF f \in S THEN version[f] + 1 ELSE version[f]]
      /\ clobbered' = [clobbered EXCEPT ![a] = @ \cup ((unseen \ warned[a]) \ excused[a])]

\* The backend writes every file of the edit.
Write(a) ==
  /\ phase[a] = "write" /\ StepTo(a, "note")
  /\ Replace(a, files[a])
  /\ view' = [view EXCEPT ![a] = [f \in File |-> IF f \in files[a] THEN version[f] + 1
                                                                  ELSE view[a][f]]]
  /\ UNCHANGED <<records, tracker, locks, files, part, want, warned, calls, shown, slipped,
                 excused, misled>>

\* An agent has a tracker since its first read.
Tracked(a) == \E f \in File : readTimes[a][f] # 0

\* _invalidate_dedup_for_path and _update_read_timestamp, for the paths in S.
Refresh(a, S) ==
  /\ dedup' = [dedup EXCEPT ![a] = [r \in Region |-> IF r[1] \in S THEN 0 ELSE dedup[a][r]]]
  /\ readTimes' = [readTimes EXCEPT ![a] =
                     [f \in File |-> IF f \in S /\ Tracked(a) THEN version[f] ELSE readTimes[a][f]]]
  /\ UNCHANGED served

\* The backend refuses the edit, or fails after some files of a patch: write_file
\* refreshes the tracker, patch records nothing.
WriteFails(a) ==
  \E S \in SUBSET files[a] \ {files[a]} :
     /\ phase[a] = "write" /\ StepTo(a, "unlock")
     /\ Replace(a, S)
     /\ \/ Cardinality(files[a]) = 1 /\ Refresh(a, files[a])
        \/ UNCHANGED tracker
     /\ UNCHANGED <<records, locks, files, part, want, warned, calls, view, shown, slipped,
                    excused, misled>>

\* _note_edited: the tracker, and note_write: last writer and the writer's stamp.
Note(a) ==
  LET S == files[a]
  IN  /\ phase[a] = "note" /\ StepTo(a, "unlock")
      /\ Refresh(a, S)
      /\ lastWriter' = [f \in File |-> IF f \in S THEN a ELSE lastWriter[f]]
      /\ stamp' = [stamp EXCEPT ![a] = [f \in File |-> IF f \in S THEN version[f] ELSE stamp[a][f]]]
      /\ partly' = [partly EXCEPT ![a] = @ \ S]
      /\ newer' = [b \in Agent |-> IF b = a THEN newer[b] \ S ELSE newer[b] \cup S]
      /\ Recheck(a, S)
      /\ UNCHANGED <<version, locks, files, part, want, warned, calls, view, shown, slipped,
                     clobbered, misled>>

\* lock.release; the locks are released in the reverse order.
Unlock(a) ==
  \E f \in held[a] :
     /\ phase[a] = "unlock" /\ \A g \in held[a] : Rank[g] <= Rank[f]
     /\ held' = [held EXCEPT ![a] = @ \ {f}] /\ StepTo(a, "leave")
     /\ UNCHANGED <<version, records, tracker, lockOf, users, joined, files, part, want,
                    warned, calls, sights>>

\* Mutant of Leave: the entry goes with whoever leaves.
LeaveAndDrop(a) ==
  \E f \in files[a] \ held[a] :
     /\ phase[a] = "leave" /\ joined[a][f] # 0
     /\ users' = [users EXCEPT ![f] = @ - 1] /\ lockOf' = [lockOf EXCEPT ![f] = 0]
     /\ joined' = [joined EXCEPT ![a][f] = 0]
     /\ IF held[a] = {} THEN Return(a) ELSE StepTo(a, "unlock") /\ UNCHANGED <<files, part, warned>>
     /\ UNCHANGED <<version, records, tracker, held, want, calls, sights>>

\* lock_path, under _meta_lock again: the last user drops the entry.
Leave(a) ==
  \E f \in files[a] \ held[a] :
     /\ phase[a] = "leave" /\ joined[a][f] # 0
     /\ users' = [users EXCEPT ![f] = @ - 1]
     /\ lockOf' = [lockOf EXCEPT ![f] = IF users[f] = 1 THEN 0 ELSE @]
     /\ joined' = [joined EXCEPT ![a][f] = 0]
     /\ IF held[a] = {} THEN Return(a) ELSE StepTo(a, "unlock") /\ UNCHANGED <<files, part, warned>>
     /\ UNCHANGED <<version, records, tracker, held, want, calls, sights>>

-----------------------------------------------------------------------------
(* Between calls *)

\* reset_file_dedup: the context of a was compressed.
Compact(a) ==
  /\ phase[a] = "idle" /\ served[a] # {} /\ served' = [served EXCEPT ![a] = {}]
  /\ UNCHANGED <<version, records, readTimes, dedup, locks, call, sights>>

\* An editor or a shell command changes f: no lock, no record.
EditOutside(f) ==
  /\ calls < MaxCalls /\ calls' = calls + 1
  /\ version' = [version EXCEPT ![f] = @ + 1]
  /\ excused' = [a \in Agent |-> IF phase[a] = "write" /\ f \in files[a] THEN excused[a] \cup {f}
                                                                    ELSE excused[a]]
  /\ UNCHANGED <<records, tracker, locks, phase, files, part, want, warned, view, shown,
                 slipped, clobbered, misled>>

CallStep(a) ==
  \/ Fetch(a) \/ FetchNothing(a) \/ Track(a) \/ StampRead(a)
  \/ Join(a) \/ Acquire(a) \/ EditWarnings(a) \/ Write(a) \/ WriteFails(a) \/ Note(a)
  \/ Unlock(a) \/ Leave(a)

FileNext ==
  \/ \E a \in Agent :
        \/ CallStep(a) \/ Compact(a)
        \/ \E r \in Region : ReadStub(a, r) \/ StartRead(a, r)
        \/ \E S \in Edits : StartEdit(a, S)
  \/ \E f \in Exposed : EditOutside(f)

FileSpec == FileInit /\ [][FileNext]_fileVars

-----------------------------------------------------------------------------
(* Properties *)

\* Two agents never hold the lock of one path, although its lock object is
\* dropped and made anew while others may still wait for the old one.
PathExclusive ==
  \A a, b \in Agent : a # b => held[a] \cap held[b] = {}

\* An agent that replaces a version which is not the one it read or wrote last is
\* warned with the edit, whoever made that version and however, if its stamp was
\* taken of what it had seen and nobody edits outside after its check.  The stamp is
\* not of what it had seen where the file changed while it was read, and where the
\* answer had no content (an error, "BLOCKED"): the code stamps such a read too.
ClobberWarned == \A a \in Agent : clobbered[a] = {}

\* a waits for the lock of f.
WaitsFor(a, f) == phase[a] = "acquire" /\ f \in want[a] /\ joined[a][f] # 0

\* The lock object that a wants is held.
Blocked(a) == phase[a] = "acquire" /\ \A f \in want[a] : joined[a][f] # 0 => ~Free(a, f)

\* The file tools never come to a stand: while calls are under way, one of them is
\* not blocked by a lock, however many paths each edits and whoever else waits.
SomeoneMoves ==
  (\E a \in Agent : phase[a] # "idle") => \E a \in Agent : phase[a] # "idle" /\ ~Blocked(a)

\* An agent that is told a region is unchanged has been served its current
\* content, if the recorded mtime is of the content it was served.  It is not where
\* the file changed between the read and the look at the mtime, and where the
\* answer had no content (an error, "BLOCKED"): the code records that as a read.
StubIsCurrent == misled = {}

=============================================================================
