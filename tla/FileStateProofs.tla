--------------------------- MODULE FileStateProofs ---------------------------
(* Proofs about FileState: for any number of agents, files and calls, the     *)
(* locks of a path exclude each other although their objects come and go and  *)
(* are never waited for in a circle, so that one call can always go on; no    *)
(* agent whose stamps are of what it has seen replaces unwarned what it has   *)
(* not, and none whose records are of what it was served is told "unchanged"  *)
(* of what it was not.                                                        *)
EXTENDS FileState, FiniteSetTheorems, WellFoundedInduction, TLAPS

\* Agents that have a reference to the lock object of f.
Joiners(f) == {a \in Agent : joined[a][f] # 0}

\* The entry of a path lives as long as somebody uses it, and it is the one that
\* all of them use.
EntryOK ==
  \A f \in File :
     /\ users[f] = Cardinality(Joiners(f))
     /\ lockOf[f] = 0 => Joiners(f) = {}
     /\ \A a \in Agent : joined[a][f] # 0 => joined[a][f] = lockOf[f]

\* What an agent has joined and holds, by the step its call is at.
JoinOK ==
  \A a \in Agent :
     /\ \A f \in held[a] : joined[a][f] # 0
     /\ \A f \in File : joined[a][f] # 0 => f \in files[a]
     /\ phase[a] \in {"idle", "fetch", "track", "stamp"} => \A f \in File : joined[a][f] = 0
     /\ phase[a] \in {"fetch", "track", "stamp"} => \A f, g \in files[a] : f = g
     /\ phase[a] \in {"join", "acquire"} =>
          want[a] \subseteq files[a] /\ files[a] \ want[a] \subseteq held[a]
     /\ phase[a] = "join" => \A f \in want[a] : joined[a][f] = 0
     /\ phase[a] = "acquire" =>
          \A f, g \in want[a] : joined[a][f] # 0 /\ joined[a][g] # 0 => f = g
     /\ phase[a] \in {"check", "write", "note"} => files[a] \subseteq held[a]
     /\ phase[a] = "unlock" => \A f \in File : joined[a][f] # 0 => f \in held[a]
     /\ phase[a] = "leave" =>
          \A f, g \in File \ held[a] : joined[a][f] # 0 /\ joined[a][g] # 0 => f = g

\* An agent's stamp is of the version it has seen, unless that changed meanwhile
\* or its call is about to set it.
SeenOK ==
  \A a \in Agent : \A f \in File :
     /\ ~(phase[a] \in {"track", "stamp", "note"} /\ f \in files[a])
     /\ view[a][f] # 0 /\ f \notin excused[a]
     => stamp[a][f] = view[a][f]

\* An edit that does not warn about a path is of the version its agent has seen.
WarnOK ==
  \A a \in Agent : \A f \in files[a] :
     phase[a] = "write" /\ f \notin warned[a] /\ f \notin excused[a]
     => view[a][f] \in {0, version[f]}

\* Paths are locked in the order of their ranks: the one an agent waits for comes
\* after those it holds and before those it has yet to lock.
RankOK ==
  \A a \in Agent :
     /\ phase[a] \in {"join", "acquire"} => \A f \in held[a], g \in want[a] : Rank[f] < Rank[g]
     /\ \A f \in want[a] : WaitsFor(a, f) => \A g \in want[a] : Rank[f] <= Rank[g]

\* The region that a has fetched.
Fetched(a) == {<<f, a \in part>> : f \in files[a]}

\* A recorded mtime is of the version that was served, or the read has slipped,
\* or its call is about to record it.
ShownOK ==
  \A a \in Agent : \A r \in Region :
     dedup[a][r] # 0 /\ ~(phase[a] = "track" /\ r \in Fetched(a))
     => shown[a][r] = dedup[a][r] \/ r \in slipped[a]

FileInv ==
  /\ FileTypeOK /\ EntryOK /\ JoinOK /\ PathExclusive /\ SeenOK /\ WarnOK /\ ClobberWarned
  /\ RankOK /\ ShownOK /\ StubIsCurrent

\* The users of a path are counted by their set.
LEMMA JoinerCount ==
  ASSUME FileAssumption, NEW f \in File, NEW a
  PROVE  /\ IsFiniteSet(Joiners(f)) /\ Cardinality(Joiners(f)) \in Nat
         /\ a \notin Joiners(f) => Cardinality(Joiners(f) \cup {a}) = Cardinality(Joiners(f)) + 1
         /\ a \in Joiners(f) => Cardinality(Joiners(f) \ {a}) = Cardinality(Joiners(f)) - 1
         /\ Cardinality(Joiners(f)) = 1 /\ a \in Joiners(f) => Joiners(f) = {a}
         /\ Cardinality(Joiners(f)) = 0 => Joiners(f) = {}
<1>1. IsFiniteSet(Joiners(f))
  BY FS_Subset DEF Joiners, FileAssumption
<1>2. Cardinality(Joiners(f)) = 1 /\ a \in Joiners(f) => Joiners(f) = {a}
  <2>1. SUFFICES ASSUME Cardinality(Joiners(f)) = 1, a \in Joiners(f)
                 PROVE  Joiners(f) = {a}
    OBVIOUS
  <2>2. Cardinality(Joiners(f) \ {a}) = 0 /\ IsFiniteSet(Joiners(f) \ {a})
    BY <1>1, <2>1, FS_RemoveElement
  <2>3. Joiners(f) \ {a} = {}
    BY <2>2, FS_EmptySet
  <2>4. QED
    BY <2>1, <2>3
<1>3. QED
  BY <1>1, <1>2, FS_AddElement, FS_RemoveElement, FS_CardinalityType, FS_EmptySet

\* Entries change with the registry of locks only.
LEMMA EntrySame ==
  ASSUME EntryOK, UNCHANGED <<lockOf, users, joined>>
  PROVE  EntryOK'
<1>1. \A f : Joiners(f)' = Joiners(f)
  BY DEF Joiners
<1>2. QED
  BY <1>1 DEF EntryOK

\* A lock object is new to everybody, and there is one.
LEMMA FreshIsFresh ==
  ASSUME FileAssumption, FileTypeOK, EntryOK, NEW f \in File, lockOf[f] = 0
  PROVE  FreshLock(f) \in Nat \ {0}
<1>1. Cardinality(Agent) \in Nat
  BY FS_CardinalityType DEF FileAssumption
<1>2. \A b \in Agent : joined[b][f] = 0
  BY DEF EntryOK, Joiners
<1>3. 1 \in 1..(Cardinality(Agent) + 1) /\ \A b \in Agent : joined[b][f] # 1
  BY <1>1, <1>2
<1>4. FreshLock(f) \in 1..(Cardinality(Agent) + 1)
  BY <1>3 DEF FreshLock
<1>5. QED
  BY <1>1, <1>4

-----------------------------------------------------------------------------
(* Every action preserves the invariant *)

\* A stub changes no record.
LEMMA ReadStubKeeps ==
  ASSUME FileAssumption, FileInv, NEW a \in Agent, NEW r \in Region, ReadStub(a, r)
  PROVE  FileInv'
<1> USE DEF FileInv, ReadStub, Begin, Return, records, tracker, locks, call, sights, StepTo
<1>1. FileTypeOK'
  BY DEF FileTypeOK, Steps, FileAssumption
<1>2. EntryOK'
  BY EntrySame
<1>3. JoinOK'
  BY DEF JoinOK, FileTypeOK, FileAssumption
<1>4. PathExclusive'
  BY DEF PathExclusive, JoinOK, FileTypeOK, FileAssumption
<1>5. SeenOK'
  BY DEF SeenOK, JoinOK, FileTypeOK, FileAssumption
<1>6. WarnOK'
  BY DEF WarnOK, SeenOK, JoinOK, PathExclusive, FileTypeOK, FileAssumption
<1>7. ClobberWarned'
  BY DEF ClobberWarned, WarnOK, FileTypeOK, FileAssumption
<1>8. RankOK'
  BY DEF RankOK, WaitsFor, JoinOK, FileTypeOK, FileAssumption
<1>9. ShownOK'
  BY DEF ShownOK, Fetched
<1>10. StubIsCurrent'
  <2>1. version[r[1]] # 0
    BY DEF FileTypeOK, FileAssumption
  <2>2. shown[a][r] = version[r[1]] \/ r \in slipped[a]
    BY <2>1 DEF Current, ShownOK
  <2>3. QED
    BY <2>2 DEF StubIsCurrent
<1>11. QED
  BY <1>1, <1>2, <1>3, <1>4, <1>5, <1>6, <1>7, <1>8, <1>9, <1>10

\* Nor does the start of a read.
LEMMA StartReadKeeps ==
  ASSUME FileAssumption, FileInv, NEW a \in Agent, NEW r \in Region, StartRead(a, r)
  PROVE  FileInv'
<1> USE DEF FileInv, StartRead, Begin, Return, records, tracker, locks, call, sights, StepTo
<1>1. FileTypeOK'
  BY DEF FileTypeOK, Steps, FileAssumption
<1>2. EntryOK'
  BY EntrySame
<1>3. JoinOK'
  BY DEF JoinOK, FileTypeOK, FileAssumption
<1>4. PathExclusive'
  BY DEF PathExclusive, JoinOK, FileTypeOK, FileAssumption
<1>5. SeenOK'
  BY DEF SeenOK, JoinOK, FileTypeOK, FileAssumption
<1>6. WarnOK'
  BY DEF WarnOK, SeenOK, JoinOK, PathExclusive, FileTypeOK, FileAssumption
<1>7. ClobberWarned'
  BY DEF ClobberWarned, WarnOK, FileTypeOK, FileAssumption
<1>8. RankOK'
  BY DEF RankOK, WaitsFor, JoinOK, FileTypeOK, FileAssumption
<1>9. ShownOK'
  BY DEF ShownOK, Fetched, FileTypeOK
<1>10. StubIsCurrent'
  BY DEF StubIsCurrent
<1>11. QED
  BY <1>1, <1>2, <1>3, <1>4, <1>5, <1>6, <1>7, <1>8, <1>9, <1>10

\* What is fetched is not stamped yet.
LEMMA FetchKeeps ==
  ASSUME FileAssumption, FileInv, NEW a \in Agent, Fetch(a)
  PROVE  FileInv'
<1> USE DEF FileInv, Fetch, Return, records, tracker, locks, call, sights, StepTo
<1>1. FileTypeOK'
  <2>1. PICK f, r : /\ f \in files[a]
                    /\ phase' = [phase EXCEPT ![a] = "track"]
                    /\ view' = [view EXCEPT ![a][f] = version[f]]
                    /\ shown' = [shown EXCEPT ![a][r] = version[f]]
    OBVIOUS
  <2>2. version[f] \in Nat
    BY <2>1 DEF FileTypeOK
  <2>3. view' \in [Agent -> [File -> Nat]] /\ shown' \in [Agent -> [Region -> Nat]]
    BY <2>1, <2>2 DEF FileTypeOK
  <2>4. QED
    BY <2>1, <2>3 DEF FileTypeOK, Steps
<1>2. EntryOK'
  BY EntrySame
<1>3. JoinOK'
  BY DEF JoinOK, FileTypeOK, FileAssumption
<1>4. PathExclusive'
  BY DEF PathExclusive, JoinOK, FileTypeOK, FileAssumption
<1>5. SeenOK'
  BY DEF SeenOK, JoinOK, FileTypeOK, FileAssumption
<1>6. WarnOK'
  BY DEF WarnOK, SeenOK, JoinOK, PathExclusive, FileTypeOK, FileAssumption
<1>7. ClobberWarned'
  BY DEF ClobberWarned, WarnOK, FileTypeOK, FileAssumption
<1>8. RankOK'
  BY DEF RankOK, WaitsFor, JoinOK, FileTypeOK, FileAssumption
<1>9. ShownOK'
  <2>1. PICK f, r : /\ f \in files[a] /\ r = <<f, a \in part>>
                    /\ phase[a] = "fetch" /\ phase' = [phase EXCEPT ![a] = "track"]
                    /\ shown' = [shown EXCEPT ![a][r] = version[f]]
                    /\ UNCHANGED <<dedup, slipped, files, part>>
    OBVIOUS
  <2>2. r \in Fetched(a) /\ \A b : Fetched(b)' = Fetched(b)
    BY <2>1 DEF Fetched
  <2> HIDE DEF Fetch
  <2>3. phase'[a] = "track" /\ \A b \in Agent \ {a} : phase'[b] = phase[b]
    BY <2>1 DEF FileTypeOK
  <2>4. \A b \in Agent, q \in Region : b # a \/ q # r => shown'[b][q] = shown[b][q]
    BY <2>1 DEF FileTypeOK
  <2>5. QED
    BY <2>1, <2>2, <2>3, <2>4 DEF ShownOK
<1>10. StubIsCurrent'
  BY DEF StubIsCurrent
<1>11. QED
  BY <1>1, <1>2, <1>3, <1>4, <1>5, <1>6, <1>7, <1>8, <1>9, <1>10

\* A read without content changes no record yet.
LEMMA FetchNothingKeeps ==
  ASSUME FileAssumption, FileInv, NEW a \in Agent, FetchNothing(a)
  PROVE  FileInv'
<1> USE DEF FileInv, records, tracker, locks, sights
<1>0. /\ phase[a] = "fetch" /\ phase'[a] \in {"track", "idle"}
      /\ phase' \in [Agent -> Steps] /\ files' \in [Agent -> SUBSET File] /\ part' \subseteq Agent
      /\ warned' \in [Agent -> SUBSET File] /\ files'[a] \subseteq files[a]
      /\ \A b \in Agent \ {a} : phase'[b] = phase[b] /\ files'[b] = files[b] /\ warned'[b] = warned[b]
                               /\ (b \in part' <=> b \in part)
      /\ phase'[a] = "track" => files'[a] = files[a] /\ (a \in part' <=> a \in part)
  <2>1. CASE StepTo(a, "track") /\ UNCHANGED <<files, part, warned>>
    BY <2>1 DEF FetchNothing, StepTo, FileTypeOK, Steps
  <2>2. CASE Return(a)
    BY <2>2 DEF FetchNothing, Return, StepTo, FileTypeOK, Steps
  <2> QED BY <2>1, <2>2 DEF FetchNothing
<1>00. UNCHANGED <<version, records, tracker, locks, want, calls, sights>>
  BY DEF FetchNothing
<1>1. FileTypeOK'
  BY <1>0, <1>00 DEF FileTypeOK
<1>2. EntryOK'
  BY <1>00, EntrySame
<1>3. JoinOK'
  <2>1. \A f \in File : joined[a][f] = 0
    BY <1>0 DEF JoinOK
  <2>2. held[a] = {} /\ \A f, g \in files'[a] : f = g
    BY <1>0, <2>1 DEF JoinOK, FileTypeOK
  <2>3. \A b \in Agent \ {a} : phase'[b] = phase[b] /\ files'[b] = files[b]
    BY <1>0
  <2>4. UNCHANGED <<joined, held, want>> /\ phase'[a] \in {"track", "idle"}
    BY <1>0, <1>00
  <2> QED BY <2>1, <2>2, <2>3, <2>4 DEF JoinOK
<1>4. PathExclusive'
  BY <1>00 DEF PathExclusive
<1>5. SeenOK'
  <2>1. SUFFICES ASSUME NEW b \in Agent, NEW f \in File,
                        ~(phase'[b] \in {"track", "stamp", "note"} /\ f \in files'[b]),
                        view[b][f] # 0, f \notin excused[b]
                 PROVE  stamp[b][f] = view[b][f]
    BY <1>00 DEF SeenOK
  <2>2. ~(phase[b] \in {"track", "stamp", "note"} /\ f \in files[b])
    BY <1>0, <2>1
  <2> QED BY <2>1, <2>2 DEF SeenOK
<1>6. WarnOK'
  <2>1. \A b \in Agent : phase'[b] = "write" =>
          phase[b] = "write" /\ files'[b] = files[b] /\ warned'[b] = warned[b]
    BY <1>0
  <2> QED BY <1>00, <2>1 DEF WarnOK
<1>7. ClobberWarned'
  BY <1>00 DEF ClobberWarned
<1>8. RankOK'
  <2>1. \A b \in Agent : phase'[b] \in {"join", "acquire"} => phase'[b] = phase[b]
    BY <1>0
  <2> QED BY <1>00, <2>1 DEF RankOK, WaitsFor
<1>9. ShownOK'
  <2>1. SUFFICES ASSUME NEW b \in Agent, NEW q \in Region, dedup[b][q] # 0,
                        ~(phase'[b] = "track" /\ q \in Fetched(b)')
                 PROVE  shown[b][q] = dedup[b][q] \/ q \in slipped[b]
    BY <1>00 DEF ShownOK
  <2>2. ~(phase[b] = "track" /\ q \in Fetched(b))
    <3>1. CASE b = a
      BY <1>0, <3>1
    <3>2. CASE b # a
      BY <1>0, <2>1, <3>2 DEF Fetched
    <3> QED BY <3>1, <3>2
  <2>3. QED
    BY <2>1, <2>2 DEF ShownOK
<1>10. StubIsCurrent'
  BY <1>00 DEF StubIsCurrent
<1>11. QED
  BY <1>1, <1>2, <1>3, <1>4, <1>5, <1>6, <1>7, <1>8, <1>9, <1>10

\* The tracker is not the registry.
LEMMA TrackKeeps ==
  ASSUME FileAssumption, FileInv, NEW a \in Agent, Track(a)
  PROVE  FileInv'
<1> USE DEF FileInv, Track, Return, records, tracker, locks, call, sights, StepTo
<1>1. FileTypeOK'
  <2>1. PICK f, r : /\ f \in files[a] /\ r = <<f, a \in part>>
                    /\ phase' = [phase EXCEPT ![a] = "stamp"]
                    /\ served' = [served EXCEPT ![a] = @ \cup {r}]
                    /\ dedup' = [dedup EXCEPT ![a][r] = version[f]]
                    /\ readTimes' = [readTimes EXCEPT ![a][f] = version[f]]
    OBVIOUS
  <2>2. version[f] \in Nat
    BY <2>1 DEF FileTypeOK
  <2>3. readTimes' \in [Agent -> [File -> Nat]] /\ dedup' \in [Agent -> [Region -> Nat]]
    BY <2>1, <2>2 DEF FileTypeOK
  <2>4. f \in File
    BY <2>1 DEF FileTypeOK
  <2>5. r \in File \X BOOLEAN
    <3>1. ASSUME NEW P \in BOOLEAN
          PROVE  <<f, P>> \in File \X BOOLEAN
      BY <2>4
    <3>2. (a \in part) \in BOOLEAN
      OBVIOUS
    <3>3. <<f, a \in part>> \in File \X BOOLEAN
      BY <3>1, <3>2, Zenon
    <3>4. QED
      BY <2>1, <3>3, Zenon
  <2>6. served' \in [Agent -> SUBSET (File \X BOOLEAN)]
    BY <2>1, <2>5 DEF FileTypeOK
  <2>7. QED
    BY <2>1, <2>3, <2>6 DEF FileTypeOK, Steps
<1>2. EntryOK'
  BY EntrySame
<1>3. JoinOK'
  BY DEF JoinOK, FileTypeOK, FileAssumption
<1>4. PathExclusive'
  BY DEF PathExclusive, JoinOK, FileTypeOK, FileAssumption
<1>5. SeenOK'
  BY DEF SeenOK, JoinOK, FileTypeOK, FileAssumption
<1>6. WarnOK'
  BY DEF WarnOK, SeenOK, JoinOK, PathExclusive, FileTypeOK, FileAssumption
<1>7. ClobberWarned'
  BY DEF ClobberWarned, WarnOK, FileTypeOK, FileAssumption
<1>8. RankOK'
  BY DEF RankOK, WaitsFor, JoinOK, FileTypeOK, FileAssumption
<1>9. ShownOK'
  <2>1. PICK f, r : /\ f \in files[a] /\ r = <<f, a \in part>>
                    /\ phase[a] = "track" /\ phase' = [phase EXCEPT ![a] = "stamp"]
                    /\ dedup' = [dedup EXCEPT ![a][r] = version[f]]
                    /\ slipped' = [slipped EXCEPT ![a] =
                                     IF shown[a][r] = version[f] THEN @ \ {r} ELSE @ \cup {r}]
                    /\ UNCHANGED <<shown, files, part>>
    OBVIOUS
  <2>2. \A q \in Fetched(a) : q = r
    BY <2>1 DEF Fetched, JoinOK
  <2> HIDE DEF Track
  <2>3. SUFFICES ASSUME NEW b \in Agent, NEW q \in Region, dedup'[b][q] # 0,
                        ~(phase'[b] = "track" /\ q \in Fetched(b)')
                 PROVE  shown[b][q] = dedup'[b][q] \/ q \in slipped'[b]
    BY <2>1 DEF ShownOK
  <2>4. CASE b = a /\ q = r
    BY <2>1, <2>3, <2>4 DEF FileTypeOK
  <2>5. CASE b = a /\ q # r
    <3>1. dedup'[b][q] = dedup[b][q] /\ (q \in slipped[b] => q \in slipped'[b])
      BY <2>1, <2>3, <2>5 DEF FileTypeOK
    <3>2. q \notin Fetched(b)
      BY <2>2, <2>5
    <3>3. QED
      BY <2>3, <3>1, <3>2 DEF ShownOK
  <2>6. CASE b # a
    <3>1. dedup'[b] = dedup[b] /\ slipped'[b] = slipped[b] /\ phase'[b] = phase[b]
      BY <2>1, <2>3, <2>6 DEF FileTypeOK
    <3>2. Fetched(b)' = Fetched(b)
      BY <2>1 DEF Fetched
    <3>3. QED
      BY <2>3, <3>1, <3>2 DEF ShownOK
  <2>7. QED
    BY <2>4, <2>5, <2>6
<1>10. StubIsCurrent'
  BY DEF StubIsCurrent
<1>11. QED
  BY <1>1, <1>2, <1>3, <1>4, <1>5, <1>6, <1>7, <1>8, <1>9, <1>10

\* The stamp is of the version seen, or the read was overtaken.
LEMMA StampReadKeeps ==
  ASSUME FileAssumption, FileInv, NEW a \in Agent, StampRead(a)
  PROVE  FileInv'
<1> USE DEF FileInv, StampRead, Recheck, Return, records, tracker, locks, call, sights, StepTo
<1>1. FileTypeOK'
  BY DEF FileTypeOK, Steps, FileAssumption
<1>2. EntryOK'
  BY EntrySame
<1>3. JoinOK'
  BY DEF JoinOK, FileTypeOK, FileAssumption
<1>4. PathExclusive'
  BY DEF PathExclusive, JoinOK, FileTypeOK, FileAssumption
<1>5. SeenOK'
  BY DEF SeenOK, JoinOK, FileTypeOK, FileAssumption
<1>6. WarnOK'
  BY DEF WarnOK, SeenOK, JoinOK, PathExclusive, FileTypeOK, FileAssumption
<1>7. ClobberWarned'
  BY DEF ClobberWarned, WarnOK, FileTypeOK, FileAssumption
<1>8. RankOK'
  BY DEF RankOK, WaitsFor, JoinOK, FileTypeOK, FileAssumption
<1>9. ShownOK'
  BY DEF ShownOK, Fetched, FileTypeOK
<1>10. StubIsCurrent'
  BY DEF StubIsCurrent
<1>11. QED
  BY <1>1, <1>2, <1>3, <1>4, <1>5, <1>6, <1>7, <1>8, <1>9, <1>10

\* An edit starts with no lock.
LEMMA StartEditKeeps ==
  ASSUME FileAssumption, FileInv, NEW a \in Agent, NEW S \in SUBSET File, StartEdit(a, S)
  PROVE  FileInv'
<1> USE DEF FileInv, StartEdit, Begin, Return, records, tracker, locks, call, sights, StepTo
<1>1. FileTypeOK'
  BY DEF FileTypeOK, Steps, FileAssumption
<1>2. EntryOK'
  BY EntrySame
<1>3. JoinOK'
  BY DEF JoinOK, FileTypeOK, FileAssumption
<1>4. PathExclusive'
  BY DEF PathExclusive, JoinOK, FileTypeOK, FileAssumption
<1>5. SeenOK'
  BY DEF SeenOK, JoinOK, FileTypeOK, FileAssumption
<1>6. WarnOK'
  BY DEF WarnOK, SeenOK, JoinOK, PathExclusive, FileTypeOK, FileAssumption
<1>7. ClobberWarned'
  BY DEF ClobberWarned, WarnOK, FileTypeOK, FileAssumption
<1>8. RankOK'
  BY DEF RankOK, WaitsFor, JoinOK, FileTypeOK, FileAssumption
<1>9. ShownOK'
  BY DEF ShownOK, Fetched, FileTypeOK
<1>10. StubIsCurrent'
  BY DEF StubIsCurrent
<1>11. QED
  BY <1>1, <1>2, <1>3, <1>4, <1>5, <1>6, <1>7, <1>8, <1>9, <1>10

\* A path without an entry has no user; one more user is counted.
LEMMA JoinKeeps ==
  ASSUME FileAssumption, FileInv, NEW a \in Agent, Join(a)
  PROVE  FileInv'
<1> USE DEF FileInv, Join, NextPaths, Return, records, tracker, locks, call, sights, StepTo
<1>1. FileTypeOK'
  <2>1. \A f \in File : joined[a][f] = 0 /\ lockOf[f] = 0 => FreshLock(f) \in Nat
    BY FreshIsFresh
  <2>2. \A f \in NextPaths(a) : f \in File /\ (phase[a] = "join" => joined[a][f] = 0)
    BY DEF JoinOK, FileTypeOK
  <2>3. QED
    BY <2>1, <2>2 DEF FileTypeOK, Steps, FileAssumption
<1>2. EntryOK'
  <2>1. PICK f \in NextPaths(a) :
          LET lock == IF lockOf[f] = 0 THEN FreshLock(f) ELSE lockOf[f]
          IN  /\ phase[a] = "join"
              /\ lockOf' = [lockOf EXCEPT ![f] = lock]
              /\ users' = [users EXCEPT ![f] = @ + 1]
              /\ joined' = [joined EXCEPT ![a][f] = lock]
    BY DEF Join
  <2>2. f \in File /\ joined[a][f] = 0
    BY <2>1 DEF JoinOK, FileTypeOK
  <2>3. lockOf'[f] # 0 /\ lockOf'[f] = (IF lockOf[f] = 0 THEN FreshLock(f) ELSE lockOf[f])
    BY <2>1, <2>2, FreshIsFresh DEF FileTypeOK
  <2>4. joined'[a][f] = lockOf'[f]
    BY <2>1, <2>2, <2>3 DEF FileTypeOK
  <2>5. \A b \in Agent, g \in File : b # a \/ g # f => joined'[b][g] = joined[b][g]
    BY <2>1, <2>2 DEF FileTypeOK
  <2>6. \A g \in File \ {f} : lockOf'[g] = lockOf[g] /\ users'[g] = users[g]
    BY <2>1, <2>2 DEF FileTypeOK
  <2>7. Joiners(f)' = Joiners(f) \cup {a} /\ a \notin Joiners(f)
    BY <2>2, <2>3, <2>4, <2>5 DEF Joiners
  <2>8. \A g \in File \ {f} : Joiners(g)' = Joiners(g)
    BY <2>5 DEF Joiners
  <2>9. users'[f] = users[f] + 1
    BY <2>1, <2>2 DEF FileTypeOK
  <2>10. users'[f] = Cardinality(Joiners(f)')
    BY <2>2, <2>7, <2>9, JoinerCount DEF EntryOK
  <2>11. \A b \in Agent : joined'[b][f] # 0 => joined'[b][f] = lockOf'[f]
    <3>1. SUFFICES ASSUME NEW b \in Agent, b # a, joined[b][f] # 0
                   PROVE  joined[b][f] = lockOf'[f]
      BY <2>2, <2>4, <2>5
    <3>2. joined[b][f] = lockOf[f]
      BY <2>2, <3>1 DEF EntryOK
    <3>3. QED
      BY <2>3, <3>1, <3>2
  <2>12. QED
    BY <2>3, <2>5, <2>6, <2>8, <2>10, <2>11, <2>2 DEF EntryOK
<1>3. JoinOK'
  <2>1. \A f \in File : lockOf[f] = 0 => FreshLock(f) # 0
    BY FreshIsFresh
  <2>2. PICK f, n : /\ f \in want[a] /\ n # 0
                    /\ phase[a] = "join" /\ phase' = [phase EXCEPT ![a] = "acquire"]
                    /\ joined' = [joined EXCEPT ![a][f] = n]
    <3>1. PICK f \in NextPaths(a) :
            LET lock == IF lockOf[f] = 0 THEN FreshLock(f) ELSE lockOf[f]
            IN  /\ phase[a] = "join" /\ phase' = [phase EXCEPT ![a] = "acquire"]
                /\ joined' = [joined EXCEPT ![a][f] = lock]
      OBVIOUS
    <3>2. f \in want[a] /\ f \in File
      BY <3>1 DEF FileTypeOK
    <3>3. (IF lockOf[f] = 0 THEN FreshLock(f) ELSE lockOf[f]) # 0
      BY <2>1, <3>2
    <3>4. QED
      BY <3>1, <3>2, <3>3
  <2>3. f \in files[a] /\ f \in File
    BY <2>2 DEF JoinOK, FileTypeOK
  <2>4. \A b \in Agent, g \in File : joined'[b][g] = IF b = a /\ g = f THEN n ELSE joined[b][g]
    BY <2>2, <2>3 DEF FileTypeOK
  <2>5. phase'[a] = "acquire" /\ \A b \in Agent \ {a} : phase'[b] = phase[b]
    BY <2>2 DEF FileTypeOK
  <2>6. files' = files /\ held' = held /\ want' = want
    OBVIOUS
  <2>7. \A b \in Agent : held[b] \subseteq File /\ want[b] \subseteq File
    BY DEF FileTypeOK
  <2> HIDE DEF Join
  <2>8. QED
    BY <2>2, <2>3, <2>4, <2>5, <2>6, <2>7 DEF JoinOK
<1>4. PathExclusive'
  BY DEF PathExclusive, JoinOK, FileTypeOK, FileAssumption
<1>5. SeenOK'
  BY DEF SeenOK, JoinOK, FileTypeOK, FileAssumption
<1>6. WarnOK'
  BY DEF WarnOK, SeenOK, JoinOK, PathExclusive, FileTypeOK, FileAssumption
<1>7. ClobberWarned'
  BY DEF ClobberWarned, WarnOK, FileTypeOK, FileAssumption
<1>8. RankOK'
  <2>1. PICK f, n : /\ f \in want[a] /\ \A g \in want[a] : Rank[f] <= Rank[g]
                    /\ phase[a] = "join" /\ phase' = [phase EXCEPT ![a] = "acquire"]
                    /\ joined' = [joined EXCEPT ![a][f] = n]
                    /\ UNCHANGED <<held, want>>
    OBVIOUS
  <2> HIDE DEF Join
  <2>2. want[a] \subseteq File /\ \A g \in want[a] : joined[a][g] = 0
    BY <2>1 DEF JoinOK, FileTypeOK
  <2>3. \A b \in Agent \ {a} : phase'[b] = phase[b] /\ joined'[b] = joined[b]
    BY <2>1 DEF FileTypeOK
  <2>4. \A g \in want[a] : joined'[a][g] # 0 => g = f
    BY <2>1, <2>2 DEF FileTypeOK
  <2>5. phase'[a] = "acquire"
    BY <2>1 DEF FileTypeOK
  <2>6. QED
    BY <2>1, <2>3, <2>4, <2>5 DEF RankOK, WaitsFor
<1>9. ShownOK'
  BY DEF ShownOK, Fetched, FileTypeOK
<1>10. StubIsCurrent'
  BY DEF StubIsCurrent
<1>11. QED
  BY <1>1, <1>2, <1>3, <1>4, <1>5, <1>6, <1>7, <1>8, <1>9, <1>10

\* Who holds a path's lock has the object that all its users have.
LEMMA AcquireKeeps ==
  ASSUME FileAssumption, FileInv, NEW a \in Agent, Acquire(a)
  PROVE  FileInv'
<1> USE DEF FileInv, Acquire, Free, Return, records, tracker, locks, call, sights, StepTo
<1>1. FileTypeOK'
  BY DEF FileTypeOK, Steps, FileAssumption
<1>2. EntryOK'
  BY EntrySame
<1>3. JoinOK'
  BY DEF JoinOK, FileTypeOK, FileAssumption
<1>4. PathExclusive'
  <2>1. PICK f \in want[a] : /\ joined[a][f] # 0 /\ Free(a, f)
                             /\ held' = [held EXCEPT ![a] = @ \cup {f}]
    BY DEF Acquire
  <2>2. \A b \in Agent : f \notin held[b]
    BY <2>1 DEF JoinOK, EntryOK, FileTypeOK
  <2>3. QED
    BY <2>1, <2>2 DEF PathExclusive, FileTypeOK
<1>5. SeenOK'
  BY DEF SeenOK, JoinOK, FileTypeOK, FileAssumption
<1>6. WarnOK'
  BY DEF WarnOK, SeenOK, JoinOK, PathExclusive, FileTypeOK, FileAssumption
<1>7. ClobberWarned'
  BY DEF ClobberWarned, WarnOK, FileTypeOK, FileAssumption
<1>8. RankOK'
  <2>1. PICK f : /\ f \in want[a] /\ joined[a][f] # 0 /\ phase[a] = "acquire"
                 /\ held' = [held EXCEPT ![a] = @ \cup {f}]
                 /\ want' = [want EXCEPT ![a] = @ \ {f}]
                 /\ phase' = [phase EXCEPT ![a] = IF want[a] = {f} THEN "check" ELSE "join"]
                 /\ UNCHANGED joined
    OBVIOUS
  <2> HIDE DEF Acquire
  <2>2. \A g \in want[a] : Rank[f] <= Rank[g]
    BY <2>1 DEF RankOK, WaitsFor
  <2>3. \A g \in want[a] \ {f} : Rank[f] < Rank[g]
    <3>1. SUFFICES ASSUME NEW g \in want[a] \ {f}
                   PROVE  Rank[f] < Rank[g]
      OBVIOUS
    <3>2. f \in File /\ g \in File
      BY <2>1, <3>1 DEF FileTypeOK
    <3>3. Rank[f] \in Nat /\ Rank[g] \in Nat /\ Rank[f] # Rank[g]
      BY <3>1, <3>2 DEF FileAssumption
    <3>4. QED
      BY <2>2, <3>1, <3>3
  <2>4. \A g \in held[a], h \in want[a] : Rank[g] < Rank[h]
    BY <2>1 DEF RankOK
  <2>5. \A b \in Agent \ {a} : phase'[b] = phase[b] /\ held'[b] = held[b] /\ want'[b] = want[b]
    BY <2>1 DEF FileTypeOK
  <2>6. held'[a] = held[a] \cup {f} /\ want'[a] = want[a] \ {f} /\ phase'[a] # "acquire"
    BY <2>1 DEF FileTypeOK
  <2>7. \A g \in held'[a], h \in want'[a] : Rank[g] < Rank[h]
    BY <2>3, <2>4, <2>6
  <2>8. QED
    BY <2>1, <2>5, <2>6, <2>7 DEF RankOK, WaitsFor
<1>9. ShownOK'
  BY DEF ShownOK, Fetched, FileTypeOK
<1>10. StubIsCurrent'
  BY DEF StubIsCurrent
<1>11. QED
  BY <1>1, <1>2, <1>3, <1>4, <1>5, <1>6, <1>7, <1>8, <1>9, <1>10

\* Without a warning stamp and file agree, so the file is the one seen.
LEMMA CheckKeeps ==
  ASSUME FileAssumption, FileInv, NEW a \in Agent, EditWarnings(a)
  PROVE  FileInv'
<1> USE DEF FileInv, EditWarnings, Stale, Drifted, Return, records, tracker, locks, call, sights, StepTo
<1>1. FileTypeOK'
  BY DEF FileTypeOK, Steps, FileAssumption
<1>2. EntryOK'
  BY EntrySame
<1>3. JoinOK'
  BY DEF JoinOK, FileTypeOK, FileAssumption
<1>4. PathExclusive'
  BY DEF PathExclusive, JoinOK, FileTypeOK, FileAssumption
<1>5. SeenOK'
  BY DEF SeenOK, JoinOK, FileTypeOK, FileAssumption
<1>6. WarnOK'
  <2>1. SUFFICES ASSUME NEW b \in Agent, NEW f \in files[b], phase'[b] = "write",
                        f \notin warned'[b], f \notin excused[b]
                 PROVE  view[b][f] \in {0, version[f]}
    BY DEF WarnOK
  <2>2. f \in File
    BY <2>1 DEF FileTypeOK
  <2>3. CASE b # a
    <3>1. phase[b] = "write" /\ f \notin warned[b]
      BY <2>1, <2>3 DEF FileTypeOK
    <3>2. QED
      BY <2>1, <3>1 DEF WarnOK
  <2>4. CASE b = a
    <3>1. ~Stale(a, f) /\ phase[a] = "check"
      BY <2>1, <2>4 DEF FileTypeOK
    <3>2. view[a][f] # 0 => stamp[a][f] = view[a][f]
      BY <2>1, <2>2, <2>4, <3>1 DEF SeenOK
    <3>3. stamp[a][f] # 0 => stamp[a][f] = version[f]
      BY <3>1
    <3>4. QED
      BY <2>4, <3>2, <3>3
  <2>5. QED
    BY <2>3, <2>4
<1>7. ClobberWarned'
  BY DEF ClobberWarned, WarnOK, FileTypeOK, FileAssumption
<1>8. RankOK'
  BY DEF RankOK, WaitsFor, JoinOK, FileTypeOK, FileAssumption
<1>9. ShownOK'
  BY DEF ShownOK, Fetched, FileTypeOK
<1>10. StubIsCurrent'
  BY DEF StubIsCurrent
<1>11. QED
  BY <1>1, <1>2, <1>3, <1>4, <1>5, <1>6, <1>7, <1>8, <1>9, <1>10

\* Nobody else's path is written, and the writer has seen its own or warns.
LEMMA WriteKeeps ==
  ASSUME FileAssumption, FileInv, NEW a \in Agent, Write(a)
  PROVE  FileInv'
<1> USE DEF FileInv, Write, Replace, Return, records, tracker, locks, call, sights, StepTo
<1>1. FileTypeOK'
  BY DEF FileTypeOK, Steps, FileAssumption
<1>2. EntryOK'
  BY EntrySame
<1>3. JoinOK'
  BY DEF JoinOK, FileTypeOK, FileAssumption
<1>4. PathExclusive'
  BY DEF PathExclusive, JoinOK, FileTypeOK, FileAssumption
<1>5. SeenOK'
  BY DEF SeenOK, JoinOK, FileTypeOK, FileAssumption
<1>6. WarnOK'
  <2>1. SUFFICES ASSUME NEW b \in Agent, NEW f \in files'[b], phase'[b] = "write",
                        f \notin warned'[b], f \notin excused'[b]
                 PROVE  view'[b][f] \in {0, version'[f]}
    BY DEF WarnOK
  <2>2. b # a /\ phase[b] = "write" /\ f \in files[b] /\ f \in File
    BY <2>1 DEF FileTypeOK
  <2>3. f \in held[b] /\ files[a] \subseteq held[a]
    BY <2>2 DEF JoinOK
  <2>4. f \notin files[a]
    BY <2>2, <2>3 DEF PathExclusive
  <2>5. view'[b][f] = view[b][f] /\ version'[f] = version[f]
    BY <2>2, <2>4 DEF FileTypeOK
  <2>6. QED
    BY <2>1, <2>2, <2>5 DEF WarnOK
<1>7. ClobberWarned'
  BY DEF ClobberWarned, WarnOK, FileTypeOK, FileAssumption
<1>8. RankOK'
  BY DEF RankOK, WaitsFor, JoinOK, FileTypeOK, FileAssumption
<1>9. ShownOK'
  BY DEF ShownOK, Fetched, FileTypeOK
<1>10. StubIsCurrent'
  BY DEF StubIsCurrent
<1>11. QED
  BY <1>1, <1>2, <1>3, <1>4, <1>5, <1>6, <1>7, <1>8, <1>9, <1>10

\* What a failing patch has written is its own paths, and seen or warned about.
LEMMA WriteFailsKeeps ==
  ASSUME FileAssumption, FileInv, NEW a \in Agent, WriteFails(a)
  PROVE  FileInv'
<1> USE DEF FileInv, WriteFails, Refresh, Replace, Return, records, tracker, locks, call, sights, StepTo
<1>1. FileTypeOK'
  <2>1. phase' \in [Agent -> Steps]
    BY DEF FileTypeOK, Steps
  <2>2. \A f \in File : version[f] \in Nat \ {0}
    BY DEF FileTypeOK
  <2>3. version' \in [File -> Nat \ {0}] /\ clobbered' \in [Agent -> SUBSET File]
    BY <2>2 DEF FileTypeOK
  <2>4. UNCHANGED <<records, locks, files, part, want, warned, calls, view, shown,
                    slipped, excused, misled>>
    OBVIOUS
  <2>5. Refresh(a, files[a]) \/ UNCHANGED tracker
    OBVIOUS
  <2> HIDE DEF WriteFails
  <2>6. CASE Refresh(a, files[a])
    <3>1. dedup' \in [Agent -> [Region -> Nat]]
      BY <2>6 DEF FileTypeOK
    <3>2. readTimes' \in [Agent -> [File -> Nat]]
      BY <2>2, <2>6 DEF FileTypeOK
    <3>3. QED
      BY <2>1, <2>3, <2>4, <2>6, <3>1, <3>2 DEF FileTypeOK
  <2>7. CASE UNCHANGED tracker
    BY <2>1, <2>3, <2>4, <2>7 DEF FileTypeOK
  <2>8. QED
    BY <2>5, <2>6, <2>7
<1>2. EntryOK'
  BY EntrySame
<1>3. JoinOK'
  BY DEF JoinOK, FileTypeOK, FileAssumption
<1>4. PathExclusive'
  BY DEF PathExclusive, JoinOK, FileTypeOK, FileAssumption
<1>5. SeenOK'
  BY DEF SeenOK, JoinOK, FileTypeOK, FileAssumption
<1>6. WarnOK'
  <2>1. PICK S \in SUBSET files[a] :
          /\ phase[a] = "write" /\ phase' = [phase EXCEPT ![a] = "unlock"]
          /\ version' = [f \in File |-> IF f \in S THEN version[f] + 1 ELSE version[f]]
          /\ UNCHANGED <<files, warned, view, excused>>
    OBVIOUS
  <2>2. SUFFICES ASSUME NEW b \in Agent, NEW f \in files[b], phase'[b] = "write",
                        f \notin warned[b], f \notin excused[b]
                 PROVE  view[b][f] \in {0, version'[f]}
    BY <2>1 DEF WarnOK
  <2>3. b # a /\ phase[b] = "write" /\ f \in File
    BY <2>1, <2>2 DEF FileTypeOK
  <2>4. f \in held[b] /\ files[a] \subseteq held[a]
    BY <2>1, <2>2, <2>3 DEF JoinOK
  <2>5. f \notin S
    BY <2>1, <2>3, <2>4 DEF PathExclusive
  <2>6. QED
    BY <2>1, <2>2, <2>3, <2>5 DEF WarnOK
<1>7. ClobberWarned'
  BY DEF ClobberWarned, WarnOK, FileTypeOK, FileAssumption
<1>8. RankOK'
  BY DEF RankOK, WaitsFor, JoinOK, FileTypeOK, FileAssumption
<1>9. ShownOK'
  BY DEF ShownOK, Fetched, FileTypeOK
<1>10. StubIsCurrent'
  BY DEF StubIsCurrent
<1>11. QED
  BY <1>1, <1>2, <1>3, <1>4, <1>5, <1>6, <1>7, <1>8, <1>9, <1>10

\* The writer's stamp is of what it wrote.
LEMMA NoteKeeps ==
  ASSUME FileAssumption, FileInv, NEW a \in Agent, Note(a)
  PROVE  FileInv'
<1> USE DEF FileInv, Note, Recheck, Refresh, Return, records, tracker, locks, call, sights, StepTo
<1>1. FileTypeOK'
  <2>1. \A f \in File : version[f] \in Nat
    BY DEF FileTypeOK
  <2>2. dedup' \in [Agent -> [Region -> Nat]]
    BY DEF FileTypeOK
  <2>3. readTimes' \in [Agent -> [File -> Nat]] /\ stamp' \in [Agent -> [File -> Nat]]
    BY <2>1 DEF FileTypeOK
  <2>4. lastWriter' \in [File -> Agent \cup {Outside}]
    BY DEF FileTypeOK
  <2>5. partly' \in [Agent -> SUBSET File] /\ newer' \in [Agent -> SUBSET File]
    BY DEF FileTypeOK
  <2>6. excused' \in [Agent -> SUBSET File] /\ phase' \in [Agent -> Steps]
    BY DEF FileTypeOK, Steps
  <2>7. QED
    BY <2>2, <2>3, <2>4, <2>5, <2>6 DEF FileTypeOK
<1>2. EntryOK'
  BY EntrySame
<1>3. JoinOK'
  BY DEF JoinOK, FileTypeOK, FileAssumption
<1>4. PathExclusive'
  BY DEF PathExclusive, JoinOK, FileTypeOK, FileAssumption
<1>5. SeenOK'
  BY DEF SeenOK, JoinOK, FileTypeOK, FileAssumption
<1>6. WarnOK'
  BY DEF WarnOK, SeenOK, JoinOK, PathExclusive, FileTypeOK, FileAssumption
<1>7. ClobberWarned'
  BY DEF ClobberWarned, WarnOK, FileTypeOK, FileAssumption
<1>8. RankOK'
  BY DEF RankOK, WaitsFor, JoinOK, FileTypeOK, FileAssumption
<1>9. ShownOK'
  BY DEF ShownOK, Fetched, FileTypeOK
<1>10. StubIsCurrent'
  BY DEF StubIsCurrent
<1>11. QED
  BY <1>1, <1>2, <1>3, <1>4, <1>5, <1>6, <1>7, <1>8, <1>9, <1>10

\* A released lock is still referenced.
LEMMA UnlockKeeps ==
  ASSUME FileAssumption, FileInv, NEW a \in Agent, Unlock(a)
  PROVE  FileInv'
<1> USE DEF FileInv, Unlock, Return, records, tracker, locks, call, sights, StepTo
<1>1. FileTypeOK'
  BY DEF FileTypeOK, Steps, FileAssumption
<1>2. EntryOK'
  BY EntrySame
<1>3. JoinOK'
  BY DEF JoinOK, FileTypeOK, FileAssumption
<1>4. PathExclusive'
  BY DEF PathExclusive, JoinOK, FileTypeOK, FileAssumption
<1>5. SeenOK'
  BY DEF SeenOK, JoinOK, FileTypeOK, FileAssumption
<1>6. WarnOK'
  BY DEF WarnOK, SeenOK, JoinOK, PathExclusive, FileTypeOK, FileAssumption
<1>7. ClobberWarned'
  BY DEF ClobberWarned, WarnOK, FileTypeOK, FileAssumption
<1>8. RankOK'
  BY DEF RankOK, WaitsFor, JoinOK, FileTypeOK, FileAssumption
<1>9. ShownOK'
  BY DEF ShownOK, Fetched, FileTypeOK
<1>10. StubIsCurrent'
  BY DEF StubIsCurrent
<1>11. QED
  BY <1>1, <1>2, <1>3, <1>4, <1>5, <1>6, <1>7, <1>8, <1>9, <1>10

\* The entry goes with its last user only.
LEMMA LeaveKeeps ==
  ASSUME FileAssumption, FileInv, NEW a \in Agent, Leave(a)
  PROVE  FileInv'
<1> USE DEF FileInv, Leave, Return, records, tracker, locks, call, sights, StepTo
<1>1. FileTypeOK'
  <2>1. \A f \in File : joined[a][f] # 0 => users[f] - 1 \in Nat
    <3>1. SUFFICES ASSUME NEW f \in File, joined[a][f] # 0
                   PROVE  users[f] - 1 \in Nat
      OBVIOUS
    <3>2. a \in Joiners(f)
      BY <3>1 DEF Joiners
    <3>3. Cardinality(Joiners(f)) # 0
      BY <3>2, JoinerCount
    <3>4. users[f] = Cardinality(Joiners(f))
      BY <3>1 DEF EntryOK
    <3>5. Cardinality(Joiners(f)) \in Nat
      BY JoinerCount
    <3>6. QED
      BY <3>3, <3>4, <3>5
  <2>2. users' \in [File -> Nat] /\ lockOf' \in [File -> Nat] /\ joined' \in [Agent -> [File -> Nat]]
    BY <2>1 DEF FileTypeOK
  <2>3. /\ phase' = [phase EXCEPT ![a] = IF held[a] = {} THEN "idle" ELSE "unlock"]
        /\ held[a] = {} => /\ files' = [files EXCEPT ![a] = {}] /\ part' = part \ {a}
                            /\ warned' = [warned EXCEPT ![a] = {}]
        /\ held[a] # {} => files' = files /\ part' = part /\ warned' = warned
    OBVIOUS
  <2>4. UNCHANGED <<version, records, tracker, held, want, calls, sights>>
    OBVIOUS
  <2> HIDE DEF Leave
  <2>5. phase' \in [Agent -> Steps]
    BY <2>3 DEF FileTypeOK, Steps
  <2>6. {} \in SUBSET File
    OBVIOUS
  <2>7. files' \in [Agent -> SUBSET File] /\ warned' \in [Agent -> SUBSET File] /\ part' \subseteq Agent
    <3>1. /\ files \in [Agent -> SUBSET File] /\ warned \in [Agent -> SUBSET File]
          /\ part \subseteq Agent
      BY DEF FileTypeOK
    <3>2. CASE held[a] = {}
      BY <2>3, <2>6, <3>1, <3>2
    <3>3. CASE held[a] # {}
      BY <2>3, <3>1, <3>3
    <3> QED BY <3>2, <3>3
  <2>8. QED
    BY <2>2, <2>4, <2>5, <2>7 DEF FileTypeOK
<1>2. EntryOK'
  <2>1. PICK f \in files[a] \ held[a] :
          /\ joined[a][f] # 0
          /\ users' = [users EXCEPT ![f] = @ - 1]
          /\ lockOf' = [lockOf EXCEPT ![f] = IF users[f] = 1 THEN 0 ELSE @]
          /\ joined' = [joined EXCEPT ![a][f] = 0]
    BY DEF Leave
  <2>2. f \in File
    BY <2>1 DEF FileTypeOK
  <2>3. joined'[a][f] = 0 /\ users'[f] = users[f] - 1
    BY <2>1, <2>2 DEF FileTypeOK
  <2>4. lockOf'[f] = IF users[f] = 1 THEN 0 ELSE lockOf[f]
    BY <2>1, <2>2 DEF FileTypeOK
  <2>5. \A b \in Agent, g \in File : b # a \/ g # f => joined'[b][g] = joined[b][g]
    BY <2>1, <2>2 DEF FileTypeOK
  <2>6. \A g \in File \ {f} : lockOf'[g] = lockOf[g] /\ users'[g] = users[g]
    BY <2>1, <2>2 DEF FileTypeOK
  <2>7. Joiners(f)' = Joiners(f) \ {a} /\ a \in Joiners(f)
    BY <2>1, <2>2, <2>3, <2>5 DEF Joiners
  <2>8. \A g \in File \ {f} : Joiners(g)' = Joiners(g)
    BY <2>5 DEF Joiners
  <2>9. users'[f] = Cardinality(Joiners(f)')
    BY <2>2, <2>3, <2>7, JoinerCount DEF EntryOK
  <2>10. lockOf'[f] = 0 => Joiners(f)' = {}
    <3>1. CASE users[f] = 1
      <4>1. Joiners(f) = {a}
        BY <2>2, <2>7, <3>1, JoinerCount DEF EntryOK
      <4>2. QED
        BY <2>7, <4>1
    <3>2. CASE users[f] # 1
      BY <2>2, <2>4, <2>7, <3>2 DEF EntryOK
    <3>3. QED
      BY <3>1, <3>2
  <2>11. \A b \in Agent : joined'[b][f] # 0 => joined'[b][f] = lockOf'[f]
    <3>1. SUFFICES ASSUME NEW b \in Agent, b # a, joined[b][f] # 0
                   PROVE  joined[b][f] = lockOf'[f]
      BY <2>2, <2>3, <2>5
    <3>2. b \in Joiners(f)
      BY <3>1 DEF Joiners
    <3>3. Cardinality(Joiners(f)) = 1 => Joiners(f) = {a}
      BY <2>2, <2>7, JoinerCount
    <3>4. users[f] # 1
      BY <2>2, <3>1, <3>2, <3>3 DEF EntryOK
    <3>5. QED
      BY <2>2, <2>4, <3>1, <3>4 DEF EntryOK
  <2>12. QED
    BY <2>2, <2>5, <2>6, <2>8, <2>9, <2>10, <2>11 DEF EntryOK
<1>3. JoinOK'
  BY DEF JoinOK, FileTypeOK, FileAssumption
<1>4. PathExclusive'
  BY DEF PathExclusive, JoinOK, FileTypeOK, FileAssumption
<1>5. SeenOK'
  <2>1. phase[a] = "leave" /\ UNCHANGED <<view, excused, stamp>>
    OBVIOUS
  <2>2. /\ phase' = [phase EXCEPT ![a] = IF held[a] = {} THEN "idle" ELSE "unlock"]
        /\ files' = IF held[a] = {} THEN [files EXCEPT ![a] = {}] ELSE files
    OBVIOUS
  <2> HIDE DEF Leave
  <2>3. \A b \in Agent, f \in File :
          phase'[b] \in {"track", "stamp", "note"} /\ f \in files'[b]
          <=> phase[b] \in {"track", "stamp", "note"} /\ f \in files[b]
    BY <2>1, <2>2 DEF FileTypeOK
  <2>4. QED
    BY <2>1, <2>3 DEF SeenOK
<1>6. WarnOK'
  BY DEF WarnOK, SeenOK, JoinOK, PathExclusive, FileTypeOK, FileAssumption
<1>7. ClobberWarned'
  BY DEF ClobberWarned, WarnOK, FileTypeOK, FileAssumption
<1>8. RankOK'
  BY DEF RankOK, WaitsFor, JoinOK, FileTypeOK, FileAssumption
<1>9. ShownOK'
  <2>1. /\ phase[a] = "leave"
        /\ phase' = [phase EXCEPT ![a] = IF held[a] = {} THEN "idle" ELSE "unlock"]
        /\ files' = [files EXCEPT ![a] = IF held[a] = {} THEN {} ELSE @]
        /\ part' = IF held[a] = {} THEN part \ {a} ELSE part
        /\ UNCHANGED <<dedup, shown, slipped>>
    BY DEF FileTypeOK
  <2> HIDE DEF Leave
  <2>2. phase'[a] # "track"
    BY <2>1 DEF FileTypeOK
  <2>3. \A b \in Agent \ {a} :
          phase'[b] = phase[b] /\ files'[b] = files[b] /\ (b \in part' <=> b \in part)
    BY <2>1 DEF FileTypeOK
  <2>4. \A b \in Agent \ {a} : Fetched(b)' = Fetched(b)
    BY <2>3 DEF Fetched
  <2>5. ASSUME NEW r \in Region
        PROVE  dedup[a][r] # 0 => shown[a][r] = dedup[a][r] \/ r \in slipped[a]
    BY <2>1 DEF ShownOK
  <2>6. QED
    BY <2>1, <2>2, <2>3, <2>4, <2>5 DEF ShownOK
<1>10. StubIsCurrent'
  BY DEF StubIsCurrent
<1>11. QED
  BY <1>1, <1>2, <1>3, <1>4, <1>5, <1>6, <1>7, <1>8, <1>9, <1>10

\* A compressed context changes no record.
LEMMA CompactKeeps ==
  ASSUME FileAssumption, FileInv, NEW a \in Agent, Compact(a)
  PROVE  FileInv'
<1> USE DEF FileInv, Compact, Return, records, tracker, locks, call, sights, StepTo
<1>1. FileTypeOK'
  BY DEF FileTypeOK, Steps, FileAssumption
<1>2. EntryOK'
  BY EntrySame
<1>3. JoinOK'
  BY DEF JoinOK, FileTypeOK, FileAssumption
<1>4. PathExclusive'
  BY DEF PathExclusive, JoinOK, FileTypeOK, FileAssumption
<1>5. SeenOK'
  BY DEF SeenOK, JoinOK, FileTypeOK, FileAssumption
<1>6. WarnOK'
  BY DEF WarnOK, SeenOK, JoinOK, PathExclusive, FileTypeOK, FileAssumption
<1>7. ClobberWarned'
  BY DEF ClobberWarned, WarnOK, FileTypeOK, FileAssumption
<1>8. RankOK'
  BY DEF RankOK, WaitsFor, JoinOK, FileTypeOK, FileAssumption
<1>9. ShownOK'
  BY DEF ShownOK, Fetched, FileTypeOK
<1>10. StubIsCurrent'
  BY DEF StubIsCurrent
<1>11. QED
  BY <1>1, <1>2, <1>3, <1>4, <1>5, <1>6, <1>7, <1>8, <1>9, <1>10

\* An outside edit is excused while an edit of the same path is under way.
LEMMA EditOutsideKeeps ==
  ASSUME FileAssumption, FileInv, NEW f \in File, EditOutside(f)
  PROVE  FileInv'
<1> USE DEF FileInv, EditOutside, records, tracker, locks, call
<1>1. FileTypeOK'
  BY DEF FileTypeOK, Steps, FileAssumption
<1>2. EntryOK'
  BY EntrySame
<1>3. JoinOK'
  BY DEF JoinOK, FileTypeOK, FileAssumption
<1>4. PathExclusive'
  BY DEF PathExclusive, JoinOK, FileTypeOK, FileAssumption
<1>5. SeenOK'
  BY DEF SeenOK, JoinOK, FileTypeOK, FileAssumption
<1>6. WarnOK'
  BY DEF WarnOK, SeenOK, JoinOK, PathExclusive, FileTypeOK, FileAssumption
<1>7. ClobberWarned'
  BY DEF ClobberWarned, WarnOK, FileTypeOK, FileAssumption
<1>8. RankOK'
  BY DEF RankOK, WaitsFor, JoinOK, FileTypeOK, FileAssumption
<1>9. ShownOK'
  BY DEF ShownOK, Fetched, FileTypeOK
<1>10. StubIsCurrent'
  BY DEF StubIsCurrent
<1>11. QED
  BY <1>1, <1>2, <1>3, <1>4, <1>5, <1>6, <1>7, <1>8, <1>9, <1>10

-----------------------------------------------------------------------------
(* The invariant, and what follows from it *)

\* The invariant holds initially.
LEMMA FileInitHolds ==
  ASSUME FileAssumption, FileInit
  PROVE  FileInv
<1> USE DEF FileInit
<1>1. {} \in SUBSET File /\ {} \in SUBSET Region
  OBVIOUS
<1>2. FileTypeOK
  BY <1>1 DEF FileTypeOK, Steps
<1>3. \A f \in File : Joiners(f) = {}
  BY DEF Joiners
<1>4. EntryOK
  BY <1>3, FS_EmptySet DEF EntryOK
<1>5. JoinOK /\ PathExclusive /\ SeenOK /\ WarnOK /\ ClobberWarned
  BY DEF JoinOK, PathExclusive, SeenOK, WarnOK, ClobberWarned
<1>6. RankOK /\ ShownOK /\ StubIsCurrent
  BY DEF RankOK, WaitsFor, ShownOK, StubIsCurrent
<1>7. QED
  BY <1>2, <1>4, <1>5, <1>6 DEF FileInv

\* Every step, and a stutter, preserves it.
LEMMA FileNextKeeps ==
  ASSUME FileAssumption, FileInv, [FileNext]_fileVars
  PROVE  FileInv'
<1>1. ASSUME NEW a \in Agent, CallStep(a)
      PROVE  FileInv'
  BY <1>1, FetchKeeps, FetchNothingKeeps, TrackKeeps, StampReadKeeps, JoinKeeps, AcquireKeeps,
     CheckKeeps, WriteKeeps, WriteFailsKeeps, NoteKeeps, UnlockKeeps, LeaveKeeps DEF CallStep
<1>2. ASSUME NEW a \in Agent, Compact(a)
      PROVE  FileInv'
  BY <1>2, CompactKeeps
<1>3. ASSUME NEW a \in Agent, NEW r \in Region, ReadStub(a, r) \/ StartRead(a, r)
      PROVE  FileInv'
  BY <1>3, ReadStubKeeps, StartReadKeeps
<1>4. ASSUME NEW a \in Agent, NEW S \in Edits, StartEdit(a, S)
      PROVE  FileInv'
  BY <1>4, StartEditKeeps DEF FileAssumption
<1>5. ASSUME NEW f \in Exposed, EditOutside(f)
      PROVE  FileInv'
  BY <1>5, EditOutsideKeeps DEF FileAssumption
<1>6. CASE UNCHANGED fileVars
  <2> USE <1>6 DEF FileInv, fileVars, records, tracker, locks, call, sights
  <2>1. FileTypeOK'
    BY DEF FileTypeOK
  <2>2. EntryOK' /\ JoinOK' /\ PathExclusive'
    BY EntrySame DEF JoinOK, PathExclusive
  <2>3. SeenOK' /\ WarnOK' /\ ClobberWarned'
    BY DEF SeenOK, WarnOK, ClobberWarned
  <2>4. RankOK' /\ ShownOK' /\ StubIsCurrent'
    BY DEF RankOK, WaitsFor, ShownOK, Fetched, StubIsCurrent
  <2>5. QED
    BY <2>1, <2>2, <2>3, <2>4
<1>7. QED
  BY <1>1, <1>2, <1>3, <1>4, <1>5, <1>6 DEF FileNext

\* The invariant holds in every reachable state.
THEOREM FileInvariant == FileSpec => []FileInv
<1>1. FileInit => FileInv
  BY FileAssumption, FileInitHolds
<1>2. FileInv /\ [FileNext]_fileVars => FileInv'
  BY FileAssumption, FileNextKeeps
<1>3. QED
  BY <1>1, <1>2, PTL DEF FileSpec

\* The variables keep their types.
THEOREM FileTyped == FileSpec => []FileTypeOK
<1>1. FileInv => FileTypeOK
  BY DEF FileInv
<1>2. QED
  BY <1>1, FileInvariant, PTL

\* The locks of a path exclude each other.
THEOREM PathsAreExclusive == FileSpec => []PathExclusive
<1>1. FileInv => PathExclusive
  BY DEF FileInv
<1>2. QED
  BY <1>1, FileInvariant, PTL

\* An agent is warned with an edit of a version it has not seen, if its stamp is of what
\* it had seen; the stamp of a read that was answered by an error is not.
THEOREM ClobbersAreWarned == FileSpec => []ClobberWarned
<1>1. FileInv => ClobberWarned
  BY DEF FileInv
<1>2. QED
  BY <1>1, FileInvariant, PTL

\* Who is told that a region is unchanged has been served it, if the recorded mtime is
\* of what it was served.
THEOREM StubsAreCurrent == FileSpec => []StubIsCurrent
<1>1. FileInv => StubIsCurrent
  BY DEF FileInv
<1>2. QED
  BY <1>1, FileInvariant, PTL

-----------------------------------------------------------------------------
(* Somebody moves *)

\* Who waits has joined the lock of a path it wants.
WaitOK ==
  \A a \in Agent : phase[a] = "acquire" => \E f \in want[a] : joined[a][f] # 0

LEMMA WaitInit == FileInit => WaitOK
BY DEF FileInit, WaitOK

\* Only Join takes an agent to the lock, and it has joined it then.
LEMMA WaitStep ==
  ASSUME FileInv, FileInv', WaitOK, [FileNext]_fileVars
  PROVE  WaitOK'
<1>2. ASSUME NEW a \in Agent, phase'[a] # "acquire",
             \A b \in Agent \ {a} : phase'[b] = phase[b] /\ joined'[b] = joined[b] /\ want'[b] = want[b]
      PROVE  WaitOK'
  BY <1>2 DEF WaitOK
<1>3. ASSUME UNCHANGED <<phase, joined, want>>
      PROVE  WaitOK'
  BY <1>3 DEF WaitOK
<1> USE DEF FileInv, FileTypeOK
<1>1. ASSUME NEW a \in Agent, Join(a)
      PROVE  WaitOK'
  <2>1. PICK f \in NextPaths(a) :
          LET lock == IF lockOf[f] = 0 THEN FreshLock(f) ELSE lockOf[f]
          IN  phase[a] = "join" /\ StepTo(a, "acquire") /\ joined' = [joined EXCEPT ![a][f] = lock]
    BY <1>1 DEF Join
  <2>2. f \in want[a] /\ f \in File /\ want' = want
    BY <1>1, <2>1 DEF NextPaths, Join
  <2>3. joined'[a][f] # 0
    <3>1. CASE lockOf[f] = 0
      <4>1. FreshLock(f) # 0
        BY <2>2, <3>1, FreshIsFresh, FileAssumption
      <4>2. joined' = [joined EXCEPT ![a][f] = FreshLock(f)]
        BY <2>1, <3>1
      <4> QED BY <2>2, <4>1, <4>2
    <3>2. CASE lockOf[f] # 0
      <4>1. joined' = [joined EXCEPT ![a][f] = lockOf[f]]
        BY <2>1, <3>2
      <4> QED BY <2>2, <3>2, <4>1
    <3> QED BY <3>1, <3>2
  <2>4. \A b \in Agent \ {a} : phase'[b] = phase[b] /\ joined'[b] = joined[b]
    BY <2>1 DEF StepTo
  <2> QED BY <2>2, <2>3, <2>4 DEF WaitOK
<1>4. ASSUME NEW a \in Agent,
             \/ Fetch(a) \/ FetchNothing(a) \/ Track(a) \/ StampRead(a) \/ EditWarnings(a)
             \/ Write(a) \/ WriteFails(a) \/ Note(a) \/ (\E r \in Region : StartRead(a, r))
      PROVE  WaitOK'
  <2>1. \E step \in Steps \ {"acquire"} : phase' = [phase EXCEPT ![a] = step]
    BY <1>4
    DEF Fetch, FetchNothing, Track, StampRead, EditWarnings, Write, WriteFails, Note, StartRead,
        StepTo, Return, Steps
  <2>2. joined' = joined /\ want' = want
    BY <1>4
    DEF Fetch, FetchNothing, Track, StampRead, EditWarnings, Write, WriteFails, Note, StartRead,
        locks
  <2>3. phase'[a] # "acquire" /\ \A b \in Agent \ {a} : phase'[b] = phase[b]
    BY <2>1
  <2> QED BY <1>2, <2>2, <2>3
<1>5. ASSUME NEW a \in Agent, NEW S, StartEdit(a, S)
      PROVE  WaitOK'
  <2>1. phase' = [phase EXCEPT ![a] = "join"] /\ want' = [want EXCEPT ![a] = S] /\ joined' = joined
    BY <1>5 DEF StartEdit, StepTo, locks
  <2>2. /\ phase'[a] # "acquire"
        /\ \A b \in Agent \ {a} : phase'[b] = phase[b] /\ want'[b] = want[b]
    BY <2>1
  <2> QED BY <1>2, <2>1, <2>2
<1>6. ASSUME NEW a \in Agent, Acquire(a)
      PROVE  WaitOK'
  <2>1. PICK f : /\ want' = [want EXCEPT ![a] = @ \ {f}] /\ joined' = joined
                 /\ \E step \in {"check", "join"} : phase' = [phase EXCEPT ![a] = step]
    BY <1>6 DEF Acquire, StepTo
  <2>2. /\ phase'[a] # "acquire"
        /\ \A b \in Agent \ {a} : phase'[b] = phase[b] /\ want'[b] = want[b]
    BY <2>1
  <2> QED BY <1>2, <2>1, <2>2
<1>7. ASSUME NEW a \in Agent, Unlock(a) \/ Leave(a)
      PROVE  WaitOK'
  <2>1. PICK f : /\ want' = want
                 /\ joined' = joined \/ joined' = [joined EXCEPT ![a][f] = 0]
                 /\ \E step \in {"idle", "unlock", "leave"} : phase' = [phase EXCEPT ![a] = step]
    BY <1>7 DEF Unlock, Leave, StepTo, Return
  <2>2. /\ phase'[a] # "acquire"
        /\ \A b \in Agent \ {a} : phase'[b] = phase[b] /\ joined'[b] = joined[b]
    BY <2>1
  <2> QED BY <1>2, <2>1, <2>2
<1>8. ASSUME \/ \E a \in Agent : Compact(a) \/ \E r \in Region : ReadStub(a, r)
             \/ \E f \in Exposed : EditOutside(f)
             \/ UNCHANGED fileVars
      PROVE  WaitOK'
  BY <1>3, <1>8 DEF Compact, ReadStub, EditOutside, fileVars, locks, call
<1> QED BY <1>1, <1>4, <1>5, <1>6, <1>7, <1>8 DEF FileNext, CallStep

\* One of finitely many is the furthest.
LEMMA FurthestExists ==
  ASSUME NEW S, IsFiniteSet(S), S # {}, NEW r, \A s \in S : r[s] \in Nat
  PROVE  \E s \in S : \A u \in S : r[u] <= r[s]
<1> DEFINE Beyond(s) == {u \in S : r[s] < r[u]}
           Beyonds == {Beyond(s) : s \in S}
<1>1. Beyonds # {} /\ Beyonds \subseteq FiniteSubsetsOf(S)
  <2>1. ASSUME NEW s \in S
        PROVE  Beyond(s) \in FiniteSubsetsOf(S)
    <3>1. Beyond(s) \subseteq S
      OBVIOUS
    <3> HIDE DEF Beyond
    <3>2. IsFiniteSet(Beyond(s))
      BY <3>1, FS_Subset
    <3> QED BY <3>1, <3>2 DEF FiniteSubsetsOf
  <2> QED BY <2>1
<1>2. \E B \in Beyonds : \A C \in Beyonds : ~ (<<C, B>> \in StrictSubsetOrdering(S))
  <2> HIDE DEF Beyonds
  <2> QED BY <1>1, FS_StrictSubsetOrderingWellFounded, WFMin
<1>3. PICK s \in S : \A u \in S : ~ (<<Beyond(u), Beyond(s)>> \in StrictSubsetOrdering(S))
  BY <1>2
<1>4. ASSUME NEW u \in S
      PROVE  r[u] <= r[s]
  <2>1. SUFFICES ASSUME r[s] < r[u]
                 PROVE  FALSE
    OBVIOUS
  <2>2. \A v \in Beyond(u) : v \in Beyond(s)
    BY <2>1
  <2>3. u \in Beyond(s) /\ u \notin Beyond(u)
    BY <2>1
  <2>4. Beyond(u) \subseteq Beyond(s) /\ Beyond(u) # Beyond(s) /\ Beyond(s) \subseteq S
    BY <2>2, <2>3
  <2>5. <<Beyond(u), Beyond(s)>> \in StrictSubsetOrdering(S)
    <3> HIDE DEF Beyond
    <3> QED BY <2>4 DEF StrictSubsetOrdering
  <2> QED BY <1>3, <2>5
<1> QED BY <1>4

\* The path whose lock a waits for.
Wanted(a) == CHOOSE f \in want[a] : joined[a][f] # 0

\* Who is blocked waits for a path whose holder is further on.
LEMMA HolderIsFurther ==
  ASSUME FileInv, WaitOK, NEW a \in Agent, Blocked(a)
  PROVE  /\ Wanted(a) \in File
         /\ \E b \in Agent :
               /\ phase[b] # "idle"
               /\ Blocked(b) => Wanted(b) \in File /\ Rank[Wanted(a)] < Rank[Wanted(b)]
<1> USE DEF FileInv, FileTypeOK
<1>1. \A b \in Agent : Blocked(b) => Wanted(b) \in want[b] /\ joined[b][Wanted(b)] # 0
  BY DEF WaitOK, Blocked, Wanted
<1>2. \A b \in Agent : want[b] \subseteq File
  OBVIOUS
<1>3. PICK b \in Agent : Wanted(a) \in held[b]
  BY <1>1 DEF Blocked, Free
<1>4. phase[b] # "idle"
  BY <1>1, <1>2, <1>3 DEF JoinOK
<1>5. Blocked(b) => Wanted(b) \in File /\ Rank[Wanted(a)] < Rank[Wanted(b)]
  BY <1>1, <1>2, <1>3 DEF RankOK, Blocked
<1> QED BY <1>1, <1>2, <1>4, <1>5

\* Of all calls under way, the one that waits for the last path would be behind a
\* holder that waits for a later one.
LEMMA MovesSomeone ==
  ASSUME FileInv, WaitOK
  PROVE  SomeoneMoves
<1> DEFINE Busy == {a \in Agent : phase[a] # "idle"}
           rank == [a \in Busy |-> Rank[Wanted(a)]]
<1>1. SUFFICES ASSUME Busy # {}, \A a \in Busy : Blocked(a)
               PROVE  FALSE
  BY DEF SomeoneMoves
<1>2. \A a \in Busy : /\ rank[a] \in Nat
                      /\ \E b \in Busy : rank[a] < rank[b]
  <2>1. ASSUME NEW a \in Busy
        PROVE  rank[a] \in Nat /\ \E b \in Busy : rank[a] < rank[b]
    <3>1. Wanted(a) \in File
      BY <1>1, HolderIsFurther
    <3>2. PICK b \in Agent : phase[b] # "idle" /\ (Blocked(b) => Rank[Wanted(a)] < Rank[Wanted(b)])
      BY <1>1, HolderIsFurther
    <3>3. b \in Busy /\ rank[a] < rank[b]
      BY <1>1, <3>2
    <3> QED BY <3>1, <3>3, FileAssumption
  <2> QED BY <2>1
<1>3. IsFiniteSet(Busy)
  <2>1. Busy \subseteq Agent
    OBVIOUS
  <2> HIDE DEF Busy
  <2> QED BY <2>1, FS_Subset, FileAssumption
<1> HIDE DEF Busy, rank
<1>4. PICK a \in Busy : \A b \in Busy : rank[b] <= rank[a]
  BY <1>1, <1>2, <1>3, FurthestExists
<1>5. PICK b \in Busy : rank[a] < rank[b]
  BY <1>2
<1> QED BY <1>2, <1>4, <1>5

\* The file tools never come to a stand.
THEOREM LocksNeverStand == FileSpec => []SomeoneMoves
<1>1. FileInit => WaitOK
  BY WaitInit
<1>2. FileInv /\ FileInv' /\ WaitOK /\ [FileNext]_fileVars => WaitOK'
  BY WaitStep
<1>3. FileInv /\ WaitOK => SomeoneMoves
  BY MovesSomeone
<1> QED BY <1>1, <1>2, <1>3, FileInvariant, PTL DEF FileSpec

==============================================================================
