---------------------------- MODULE WebUIProofs -----------------------------
(***************************************************************************)
(* Proofs about the kubeconfig file, for any number of processes, clusters *)
(* and entries of the user's own, and about the web UI.  Its jobs use the  *)
(* file as Kubeconfig allows, so what is proved of the file holds under    *)
(* the web UI; one job per cluster at a time is what keeps the entry of a  *)
(* new cluster from being that of an older one.                            *)
(***************************************************************************)
EXTENDS WebUI, TLAPS

-----------------------------------------------------------------------------
(* The kubeconfig file.                                                    *)

(* What a process writes, and what is read back.                           *)

LEMMA ContentOfConfig ==
  ASSUME K!KubeconfigAssumption, NEW f \in K!Config
  PROVE  K!Whole(f) /\ K!HasContent(f) /\ K!Content(f) = f
  BY Zenon DEF K!KubeconfigAssumption, K!Whole, K!HasContent, K!Content

LEMMA BlankConfig ==
  K!Blank \in K!Config /\ K!Resolves(K!Blank) /\ \A e \in K!Entries : K!Blank.entries[e] = None
  BY Zenon DEF K!Blank, K!Config, K!Resolves

LEMMA ContentType ==
  ASSUME NEW f \in K!Config \cup {NoFile, Empty, Torn}
  PROVE  K!Content(f) \in K!Config
  BY Zenon, BlankConfig DEF K!Content, K!Whole

LEMMA UpsertFacts ==
  ASSUME K!KubeconfigAssumption, NEW f \in K!Config, NEW c \in Clusters, NEW v \in Incarnations
  PROVE  /\ K!upsert(f, c, v) \in K!Config
         /\ \A e \in K!Entries \ {c} : K!upsert(f, c, v).entries[e] = f.entries[e]
         /\ K!upsert(f, c, v).entries[c] = v
         /\ K!Resolves(K!upsert(f, c, v))
  <1>1. c \in K!Entries /\ v # None
    BY Zenon DEF K!KubeconfigAssumption, K!Entries
  <1> QED
    BY Zenon, <1>1 DEF K!upsert, K!Config, K!Resolves

LEMMA DropFacts ==
  ASSUME K!KubeconfigAssumption, NEW f \in K!Config, NEW c \in Clusters
  PROVE  /\ K!drop(f, c) \in K!Config
         /\ \A e \in K!Entries \ {c} : K!drop(f, c).entries[e] = f.entries[e]
         /\ K!drop(f, c).entries[c] = None
         /\ K!Resolves(f) => K!Resolves(K!drop(f, c))
  <1>1. c \in K!Entries /\ c # None
    BY Zenon DEF K!KubeconfigAssumption, K!Entries
  <1> QED
    BY Zenon, <1>1 DEF K!drop, K!Config, K!Resolves

LEMMA DestFacts ==
  ASSUME K!KubeconfigAssumption, K!TypeOK, NEW p \in Jobs
  PROVE  /\ K!dest(p) \in K!Config
         /\ \A e \in UserEntries : K!dest(p).entries[e] = raw[p].entries[e]
         /\ \A c \in Clusters \ {arg[p]} : K!dest(p).entries[c] = raw[p].entries[c]
         /\ K!dest(p).entries[arg[p]] = IF op[p] = "merge" THEN item[p] ELSE None
         /\ K!Resolves(raw[p]) => K!Resolves(K!dest(p))
  <1>1. raw[p] \in K!Config /\ arg[p] \in Clusters /\ item[p] \in Incarnations
    BY Zenon DEF K!TypeOK
  <1>2. UserEntries \subseteq K!Entries \ {arg[p]} /\ Clusters \subseteq K!Entries
    BY Zenon, <1>1 DEF K!KubeconfigAssumption, K!Entries
  <1>3. CASE op[p] = "merge"
    <2>1. K!dest(p) = K!upsert(raw[p], arg[p], item[p])
      BY Zenon, <1>3 DEF K!dest
    <2>2. /\ K!dest(p) \in K!Config
          /\ \A e \in K!Entries \ {arg[p]} : K!dest(p).entries[e] = raw[p].entries[e]
          /\ K!dest(p).entries[arg[p]] = item[p]
          /\ K!Resolves(K!dest(p))
      BY <1>1, <2>1, UpsertFacts
    <2> QED
      BY Zenon, <1>2, <1>3, <2>2
  <1>4. CASE op[p] # "merge"
    <2>1. K!dest(p) = K!drop(raw[p], arg[p])
      BY Zenon, <1>4 DEF K!dest
    <2>2. /\ K!dest(p) \in K!Config
          /\ \A e \in K!Entries \ {arg[p]} : K!dest(p).entries[e] = raw[p].entries[e]
          /\ K!dest(p).entries[arg[p]] = None
          /\ K!Resolves(raw[p]) => K!Resolves(K!dest(p))
      BY <1>1, <2>1, DropFacts
    <2> QED
      BY Zenon, <1>2, <1>4, <2>2
  <1> QED
    BY Zenon, <1>3, <1>4

-----------------------------------------------------------------------------
(* Types.                                                                  *)

LEMMA FileInitTypes ==
  ASSUME K!KubeconfigAssumption, K!Init
  PROVE  K!TypeOK
  <1>1. /\ (CHOOSE c \in Clusters : TRUE) \in Clusters
        /\ (CHOOSE v \in Incarnations : TRUE) \in Incarnations
    BY Zenon DEF K!KubeconfigAssumption
  <1>2. original \in K!Config \cup {NoFile}
    BY Zenon DEF K!Init, K!KubeconfigAssumption
  <1> QED
    BY Zenon, <1>1, <1>2, BlankConfig DEF K!Init, K!TypeOK, K!Rest

LEMMA FileStepTypes ==
  ASSUME K!KubeconfigAssumption, K!TypeOK, [K!Next]_(K!vars)
  PROVE  K!TypeOK'
  <1> USE DEF K!Goto, K!Rest, K!Holding
  <1>1. CASE UNCHANGED K!vars
    BY Zenon, <1>1 DEF K!vars, K!procs, K!TypeOK
  <1>2. ASSUME NEW p \in Jobs, NEW o \in {"merge", "remove"}, NEW c \in Clusters, NEW v \in Incarnations,
               K!Begin(p, o, c, v)
        PROVE  K!TypeOK'
    BY Zenon, <1>2 DEF K!Begin, K!TypeOK
  <1>3. K!Content(file) \in K!Config
    BY Zenon, ContentType DEF K!TypeOK
  <1>4. ASSUME NEW p \in Jobs, K!ReadToMerge(p) PROVE K!TypeOK'
    <2>1. torn' \in BOOLEAN
      BY Zenon, <1>4 DEF K!ReadToMerge
    <2> QED
      BY Zenon, <1>3, <1>4, <2>1 DEF K!ReadToMerge, K!TypeOK
  <1>5. ASSUME NEW p \in Jobs, K!ReadToRemove(p) PROVE K!TypeOK'
    <2>1. torn' \in BOOLEAN
      BY Zenon, <1>5 DEF K!ReadToRemove
    <2> QED
      BY Zenon, <1>3, <1>5, <2>1 DEF K!ReadToRemove, K!TypeOK
  <1>6. ASSUME NEW p \in Jobs, K!StatBackup(p) PROVE K!TypeOK'
    BY Zenon, <1>6 DEF K!StatBackup, K!TypeOK
  <1>7. ASSUME NEW p \in Jobs, K!CreateBackup(p) PROVE K!TypeOK'
    <2>1. exposed' \in BOOLEAN
      BY Zenon, <1>7 DEF K!CreateBackup
    <2> QED
      BY Zenon, <1>7, <2>1 DEF K!CreateBackup, K!TypeOK
  <1>8. ASSUME NEW p \in Jobs, K!SaveBackup(p) PROVE K!TypeOK'
    BY Zenon, <1>8 DEF K!SaveBackup, K!TypeOK
  <1>9. ASSUME NEW p \in Jobs, K!Truncate(p) PROVE K!TypeOK'
    <2>1. exposed' \in BOOLEAN /\ torn' \in BOOLEAN
      BY Zenon, <1>9 DEF K!Truncate
    <2> QED
      BY Zenon, <1>9, <2>1 DEF K!Truncate, K!TypeOK
  <1>10. ASSUME NEW p \in Jobs, K!Write(p) PROVE K!TypeOK'
    <2>1. K!dest(p) \in K!Config
      BY Zenon, DestFacts
    <2>2. file' \in K!Config \cup {NoFile, Empty, Torn}
      BY Zenon, <1>10, <2>1 DEF K!Write
    <2>3. wanted' \in [Clusters -> Incarnations \cup {None}] /\ raced' \subseteq Clusters
      BY Zenon, <1>10 DEF K!Write, K!TypeOK
    <2> QED
      BY Zenon, <1>10, <2>2, <2>3 DEF K!Write, K!TypeOK
  <1>11. ASSUME NEW p \in Jobs, K!Kill(p) PROVE K!TypeOK'
    <2>1. torn' \in BOOLEAN
      BY Zenon, <1>11 DEF K!Kill
    <2> QED
      BY Zenon, <1>11, <2>1 DEF K!Kill, K!TypeOK
  <1> QED
    BY Zenon, <1>1, <1>2, <1>4, <1>5, <1>6, <1>7, <1>8, <1>9, <1>10, <1>11 DEF K!Next, K!Step

-----------------------------------------------------------------------------
(* The entries.                                                            *)

\* What a process that holds a content of the file, or the next to read it, relies on.
UserRight(f) == \A e \in UserEntries : f.entries[e] = K!Content(original).entries[e]

Right(f) ==
  /\ UserRight(f) /\ K!Resolves(f)
  /\ \A c \in Clusters \ raced : f.entries[c] = wanted[c]

NobodyWrites == \A p \in Jobs : pc[p] # "writing"

\* Until a write is torn: one process writes at a time, into an empty file; without a
\* writer the file is right, and so is what any process holds.
Kept ==
  ~torn =>
    /\ \A p \in Jobs, q \in Jobs : pc[p] = "writing" /\ pc[q] = "writing" => p = q
    /\ \A p \in Jobs : pc[p] = "writing" => file = Empty
    /\ NobodyWrites => file # Torn /\ Right(K!Content(file))
    /\ \A p \in Jobs : pc[p] \in K!Holding => Right(raw[p])

KeptInv == K!TypeOK /\ Kept

LEMMA InitKept ==
  ASSUME K!KubeconfigAssumption, K!Init
  PROVE  Kept
  <1>1. NobodyWrites /\ \A p \in Jobs : pc[p] \notin K!Holding
    BY Zenon DEF K!Init, NobodyWrites, K!Holding
  <1>2. file # Torn /\ file = original /\ wanted = [c \in Clusters |-> None]
    BY Zenon DEF K!Init, K!KubeconfigAssumption
  <1>3. K!Resolves(K!Content(original)) /\ \A c \in Clusters : K!Content(original).entries[c] = None
    <2>1. CASE original = NoFile
      BY Zenon, <2>1, BlankConfig DEF K!Content, K!Whole, K!Entries
    <2>2. CASE original # NoFile
      BY <2>2, ContentOfConfig DEF K!Init, K!KubeconfigAssumption
    <2> QED
      BY Zenon, <2>1, <2>2
  <1> QED
    BY Zenon, <1>1, <1>2, <1>3 DEF Kept, Right, UserRight, NobodyWrites

\* Steps that leave the file, the ghosts and what is held alone.
LEMMA SameKept ==
  ASSUME KeptInv, NEW p \in Jobs, NEW l, pc' = [pc EXCEPT ![p] = l],
         UNCHANGED <<original, file, raw, wanted, raced>>,
         ~torn' => ~torn,
         pc[p] # "writing" \/ torn', l # "writing",
         l \in K!Holding => pc[p] \in K!Holding
  PROVE  Kept'
  <1> SUFFICES ASSUME ~torn', ~torn PROVE Kept'
    BY Zenon DEF Kept
  <1>1. \A q \in Jobs : /\ pc'[q] = "writing" <=> pc[q] = "writing"
                        /\ pc'[q] \in K!Holding => pc[q] \in K!Holding
    BY Zenon DEF KeptInv, K!TypeOK
  <1>2. NobodyWrites' => NobodyWrites
    BY Zenon, <1>1 DEF NobodyWrites
  <1>3. \A f : Right(f) => Right(f)'
    BY Zenon DEF Right, UserRight, K!Resolves, K!Content, K!Whole
  <1> QED
    BY Zenon, <1>1, <1>2, <1>3 DEF KeptInv, Kept

LEMMA StepKept ==
  ASSUME K!KubeconfigAssumption, KeptInv, [K!Next]_(K!vars)
  PROVE  Kept'
  <1>1. CASE UNCHANGED K!vars
    BY <1>1 DEF K!vars, K!procs, KeptInv, Kept, Right, UserRight, NobodyWrites
  <1>2. ASSUME NEW p \in Jobs, NEW o \in {"merge", "remove"}, NEW c \in Clusters, NEW v \in Incarnations,
               K!Begin(p, o, c, v)
        PROVE  Kept'
    <2>1. /\ pc' = [pc EXCEPT ![p] = "read"] /\ pc[p] # "writing" /\ "read" \notin K!Holding
          /\ UNCHANGED <<original, file, raw, wanted, raced, torn>>
      BY Zenon, <1>2 DEF K!Begin, K!Goto, K!Rest, K!Holding
    <2> QED
      BY Zenon, <2>1, SameKept
  <1>3. ASSUME NEW p \in Jobs, K!StatBackup(p) \/ K!CreateBackup(p) \/ K!SaveBackup(p) PROVE Kept'
    <2>1. PICK l \in {"backup", "write", "saving"} :
            /\ pc' = [pc EXCEPT ![p] = l] /\ pc[p] \in {"stat", "backup", "saving"}
            /\ UNCHANGED <<original, file, raw, wanted, raced, torn>>
      BY Zenon, <1>3 DEF K!StatBackup, K!CreateBackup, K!SaveBackup, K!Goto
    <2>2. pc[p] # "writing" /\ pc[p] \in K!Holding /\ l # "writing"
      BY Zenon, <2>1 DEF K!Holding
    <2> QED
      BY Zenon, <2>1, <2>2, SameKept
  <1>4. ASSUME NEW p \in Jobs, K!Kill(p) PROVE Kept'
    <2>1. /\ pc' = [pc EXCEPT ![p] = "failed"] /\ "failed" \notin K!Holding
          /\ UNCHANGED <<original, file, raw, wanted, raced>>
      BY Zenon, <1>4 DEF K!Kill, K!Goto, K!Holding
    <2>2. /\ ~torn' => ~torn
          /\ pc[p] # "writing" \/ torn'
      BY Zenon, <1>4 DEF K!Kill
    <2> QED
      BY Zenon, <2>1, <2>2, SameKept
  <1>5. ASSUME NEW p \in Jobs, K!ReadToMerge(p) \/ K!ReadToRemove(p) PROVE Kept'
    <2> SUFFICES ASSUME ~torn' PROVE Kept'
      BY Zenon DEF Kept
    <2>1. ~torn /\ ~K!Others(p, {"writing"})
      BY Zenon, <1>5 DEF K!ReadToMerge, K!ReadToRemove
    <2>2. /\ raw' = [raw EXCEPT ![p] = K!Content(file)] /\ pc[p] = "read"
          /\ UNCHANGED <<original, file, raced>>
      BY Zenon, <1>5 DEF K!ReadToMerge, K!ReadToRemove
    <2>3. NobodyWrites
      BY Zenon, <2>1, <2>2 DEF K!Others, NobodyWrites
    <2>4. file # Torn /\ Right(K!Content(file))
      BY Zenon, <2>1, <2>3 DEF KeptInv, Kept
    <2>5. PICK l \in {"failed", "stat", "write", "done"} : pc' = [pc EXCEPT ![p] = l]
      BY Zenon, <1>5 DEF K!ReadToMerge, K!ReadToRemove, K!Goto
    <2>6. \A c \in Clusters \ raced : wanted'[c] = wanted[c]
      <3>1. CASE UNCHANGED wanted
        BY Zenon, <3>1
      <3>2. CASE ~K!HasContent(file) /\ wanted' = [wanted EXCEPT ![arg[p]] = None]
        <4>1. K!Content(file) = K!Blank
          BY Zenon, <3>2 DEF K!HasContent, K!Content, K!Whole
        <4>2. \A c \in Clusters \ raced : wanted[c] = None
          BY Zenon, <2>4, <4>1, BlankConfig DEF Right, K!Entries
        <4> QED
          BY Zenon, <3>2, <4>2 DEF KeptInv, K!TypeOK
      <3> QED
        BY Zenon, <1>5, <3>1, <3>2 DEF K!ReadToMerge, K!ReadToRemove
    <2>7. \A f : Right(f) => Right(f)'
      BY Zenon, <2>2, <2>6 DEF Right, UserRight
    <2>8. NobodyWrites'
      BY Zenon, <2>3, <2>5 DEF NobodyWrites, KeptInv, K!TypeOK
    <2>9. ASSUME NEW q \in Jobs, pc'[q] \in K!Holding PROVE Right(raw[q])'
      <3>1. CASE q = p
        BY Zenon, <2>2, <2>4, <2>7, <3>1 DEF KeptInv, K!TypeOK
      <3>2. CASE q # p
        <4>1. pc[q] \in K!Holding /\ raw'[q] = raw[q]
          BY Zenon, <2>2, <2>5, <2>9, <3>2 DEF KeptInv, K!TypeOK
        <4>2. Right(raw[q])
          BY Zenon, <2>1, <4>1 DEF KeptInv, Kept
        <4> QED
          BY Zenon, <2>7, <4>1, <4>2
      <3> QED
        BY Zenon, <3>1, <3>2
    <2>10. file' # Torn /\ Right(K!Content(file))'
      BY Zenon, <2>2, <2>4, <2>7
    <2> QED
      BY Zenon, <2>8, <2>9, <2>10 DEF Kept, NobodyWrites
  <1>6. ASSUME NEW p \in Jobs, K!Truncate(p) PROVE Kept'
    <2> SUFFICES ASSUME ~torn' PROVE Kept'
      BY Zenon DEF Kept
    <2>1. ~torn /\ ~K!Others(p, {"writing"})
      BY Zenon, <1>6 DEF K!Truncate
    <2>2. /\ pc[p] = "write" /\ pc' = [pc EXCEPT ![p] = "writing"] /\ file' = Empty
          /\ UNCHANGED <<original, raw, wanted, raced>>
      BY Zenon, <1>6 DEF K!Truncate, K!Goto
    <2>3. \A q \in Jobs : pc'[q] = "writing" <=> q = p
      BY Zenon, <2>1, <2>2 DEF K!Others, KeptInv, K!TypeOK
    <2>4. \A q \in Jobs : pc'[q] \in K!Holding => pc[q] \in K!Holding
      BY Zenon, <2>2 DEF KeptInv, K!TypeOK, K!Holding
    <2>5. \A q \in Jobs : pc'[q] \in K!Holding => Right(raw[q])'
      BY <2>1, <2>2, <2>4 DEF KeptInv, Kept, Right, UserRight
    <2> QED
      BY Zenon, <2>2, <2>3, <2>5 DEF Kept, NobodyWrites
  <1>7. ASSUME NEW p \in Jobs, K!Write(p) PROVE Kept'
    <2> SUFFICES ASSUME ~torn' PROVE Kept'
      BY Zenon DEF Kept
    <2>1. /\ ~torn /\ pc[p] = "writing" /\ pc' = [pc EXCEPT ![p] = "done"]
          /\ UNCHANGED <<original, raw>>
          /\ wanted' = [wanted EXCEPT ![arg[p]] = IF op[p] = "merge" THEN item[p] ELSE None]
          /\ raced' = IF K!Others(p, K!Holding) THEN raced \cup {arg[p]} ELSE raced \ {arg[p]}
      BY Zenon, <1>7 DEF K!Write, K!Goto
    <2>2. file = Empty /\ Right(raw[p])
      BY Zenon, <2>1 DEF KeptInv, Kept, K!Holding
    <2>3. file' = K!dest(p) /\ arg[p] \in Clusters /\ raw[p] \in K!Config
      BY Zenon, <1>7, <2>2 DEF K!Write, KeptInv, K!TypeOK
    <2>4. NobodyWrites'
      BY Zenon, <2>1 DEF NobodyWrites, KeptInv, Kept, K!TypeOK
    <2>5. /\ wanted'[arg[p]] = IF op[p] = "merge" THEN item[p] ELSE None
          /\ \A c \in Clusters \ {arg[p]} : wanted'[c] = wanted[c]
      BY Zenon, <2>1, <2>3 DEF KeptInv, K!TypeOK
    <2> DEFINE new == K!dest(p)
    <2>6. /\ new \in K!Config /\ UserRight(new) /\ K!Resolves(new)
          /\ \A c \in Clusters \ {arg[p]} : new.entries[c] = raw[p].entries[c]
          /\ new.entries[arg[p]] = wanted'[arg[p]]
      BY <2>2, <2>5, DestFacts DEF KeptInv, Right, UserRight
    <2>7. ASSUME NEW c \in Clusters \ raced' PROVE new.entries[c] = wanted'[c]
      <3>1. CASE c = arg[p]
        BY Zenon, <2>6, <3>1
      <3>2. CASE c # arg[p]
        <4>1. c \notin raced
          BY Zenon, <2>1, <3>2
        <4> QED
          BY Zenon, <2>2, <2>5, <2>6, <3>2, <4>1 DEF Right
      <3> QED
        BY Zenon, <3>1, <3>2
    <2>8. file' = new /\ K!Content(file') = new /\ file' # Torn
      BY Zenon, <2>3, <2>6, ContentOfConfig DEF K!KubeconfigAssumption
    <2> HIDE DEF new
    <2>9. Right(K!Content(file))'
      BY <2>1, <2>6, <2>7, <2>8 DEF Right, UserRight, K!Content, K!Whole
    <2>10. ASSUME NEW q \in Jobs, pc'[q] \in K!Holding PROVE Right(raw[q])'
      <3>1. q # p /\ pc[q] \in K!Holding
        BY Zenon, <2>1, <2>10 DEF KeptInv, K!TypeOK, K!Holding
      <3>2. Right(raw[q])
        BY Zenon, <2>1, <3>1 DEF KeptInv, Kept
      <3>3. raced' = raced \cup {arg[p]}
        BY Zenon, <2>1, <3>1 DEF K!Others
      <3> QED
        BY Zenon, <2>1, <2>5, <3>2, <3>3 DEF Right, UserRight
    <2> QED
      BY Zenon, <2>4, <2>8, <2>9, <2>10 DEF Kept, NobodyWrites
  <1> QED
    BY Zenon, <1>1, <1>2, <1>3, <1>4, <1>5, <1>6, <1>7 DEF K!Next, K!Step

LEMMA KeptSuffices ==
  ASSUME KeptInv
  PROVE  K!EntriesKept
  BY Zenon DEF KeptInv, Kept, K!EntriesKept, K!Quiet, NobodyWrites, Right, UserRight, K!Holding

LEMMA InitKeptInv == K!KubeconfigAssumption /\ K!Init => KeptInv
  BY Zenon, FileInitTypes, InitKept DEF KeptInv

LEMMA StepKeptInv == K!KubeconfigAssumption /\ KeptInv /\ [K!Next]_(K!vars) => KeptInv'
  BY Zenon, FileStepTypes, StepKept DEF KeptInv

\* The content of the file stays within its types under any number of processes.
THEOREM KubeconfigTypes ==
  ASSUME K!KubeconfigAssumption
  PROVE  K!Spec => []K!TypeOK
  <1>1. K!Init => K!TypeOK
    BY Zenon, FileInitTypes
  <1>2. K!TypeOK /\ [K!Next]_(K!vars) => K!TypeOK'
    BY Zenon, FileStepTypes
  <1> QED
    BY <1>1, <1>2, PTL DEF K!Spec

\* mergeKubeconfig and removeKubeconfig, in any number of processes that overlap and
\* are killed, lose entries only by the two races that EntriesKept names.
THEOREM KubeconfigKeepsEntries ==
  ASSUME K!KubeconfigAssumption
  PROVE  K!Spec => []K!EntriesKept
  <1>1. K!Init => KeptInv
    BY Zenon, InitKeptInv
  <1>2. KeptInv /\ [K!Next]_(K!vars) => KeptInv'
    BY Zenon, StepKeptInv
  <1>3. KeptInv => K!EntriesKept
    BY Zenon, KeptSuffices
  <1> QED
    BY <1>1, <1>2, <1>3, PTL DEF K!Spec

-----------------------------------------------------------------------------
(* The backup.                                                             *)

\* No content has an entry of the user's that the original lacks, or another value.
NoForeign(f) == \A e \in UserEntries : f.entries[e] \in {K!Content(original).entries[e], None}

Foreign ==
  /\ NoForeign(K!Content(file)) /\ NoForeign(K!Content(backup))
  /\ \A p \in Jobs : NoForeign(raw[p])

\* Until one is truncated without the other: the user's entries are in the file or the
\* backup, in the backup while somebody writes the file, in a whole backup, and in
\* whatever a process is about to save as the backup.
Saved ==
  ~exposed =>
    /\ UserRight(K!Content(file)) \/ UserRight(K!Content(backup))
    /\ K!Whole(backup) => UserRight(K!Content(backup))
    /\ \A p \in Jobs :
         /\ pc[p] \in {"backup", "saving"} => UserRight(raw[p])
         /\ pc[p] = "stat" /\ backup = NoFile => UserRight(raw[p])
         /\ pc[p] = "writing" => UserRight(K!Content(backup))

SavedInv == KeptInv /\ Foreign /\ Saved

LEMMA BlankNoForeign == NoForeign(K!Blank)
  BY Zenon, BlankConfig DEF NoForeign, K!Entries

\* A user without entries has none to lose.
LEMMA NothingToLose ==
  ASSUME NEW f, NoForeign(f), UserRight(K!Blank)
  PROVE  UserRight(f)
  BY Zenon, BlankConfig DEF NoForeign, UserRight, K!Entries

LEMMA NotWhole ==
  ASSUME NEW f, ~K!Whole(f)
  PROVE  K!Content(f) = K!Blank
  BY Zenon DEF K!Content

LEMMA InitSaved ==
  ASSUME K!KubeconfigAssumption, K!Init
  PROVE  Foreign /\ Saved
  <1>1. /\ file = original /\ backup = NoFile /\ \A p \in Jobs : raw[p] = K!Blank /\ pc[p] = "idle"
    BY Zenon DEF K!Init
  <1>2. K!Content(backup) = K!Blank /\ ~K!Whole(backup)
    BY Zenon, <1>1 DEF K!Content, K!Whole
  <1>3. Foreign
    BY Zenon, <1>1, <1>2, BlankNoForeign DEF Foreign, NoForeign
  <1> QED
    BY Zenon, <1>1, <1>2, <1>3 DEF Saved, UserRight

LEMMA StepForeign ==
  ASSUME K!KubeconfigAssumption, SavedInv, [K!Next]_(K!vars)
  PROVE  Foreign'
  <1>0. original' = original /\ \A f : NoForeign(f)' <=> NoForeign(f)
    <2>1. original' = original
      BY DEF K!Next, K!Step, K!Begin, K!ReadToMerge, K!ReadToRemove, K!StatBackup, K!CreateBackup, K!SaveBackup,
             K!Truncate, K!Write, K!Kill, K!vars
    <2> QED
      BY Zenon, <2>1 DEF NoForeign
  <1>1. ASSUME UNCHANGED <<file, backup, raw>> PROVE Foreign'
    BY Zenon, <1>0, <1>1 DEF SavedInv, Foreign
  <1>2. ASSUME NEW p \in Jobs, K!ReadToMerge(p) \/ K!ReadToRemove(p) PROVE Foreign'
    <2>1. UNCHANGED <<file, backup>> /\ raw' = [raw EXCEPT ![p] = K!Content(file)]
      BY Zenon, <1>2 DEF K!ReadToMerge, K!ReadToRemove
    <2> QED
      BY Zenon, <1>0, <2>1 DEF SavedInv, KeptInv, K!TypeOK, Foreign
  <1>3. ASSUME NEW p \in Jobs, K!CreateBackup(p) PROVE Foreign'
    BY Zenon, <1>0, <1>3, BlankNoForeign DEF K!CreateBackup, SavedInv, Foreign, K!Content, K!Whole
  <1>4. ASSUME NEW p \in Jobs, K!SaveBackup(p) PROVE Foreign'
    <2>1. raw[p] \in K!Config /\ backup' = raw[p] /\ UNCHANGED <<file, raw>>
      BY Zenon, <1>4 DEF K!SaveBackup, SavedInv, KeptInv, K!TypeOK
    <2>2. K!Content(backup') = raw[p]
      BY Zenon, <2>1, ContentOfConfig
    <2> QED
      BY Zenon, <1>0, <2>1, <2>2 DEF SavedInv, Foreign
  <1>5. ASSUME NEW p \in Jobs, K!Truncate(p) PROVE Foreign'
    BY Zenon, <1>0, <1>5, BlankNoForeign DEF K!Truncate, SavedInv, Foreign, K!Content, K!Whole
  <1>6. ASSUME NEW p \in Jobs, K!Write(p) PROVE Foreign'
    <2>1. UNCHANGED <<backup, raw>> /\ file' \in {K!dest(p), Torn}
      BY Zenon, <1>6 DEF K!Write
    <2>2. K!dest(p) \in K!Config /\ NoForeign(K!dest(p))
      BY Zenon, DestFacts DEF SavedInv, KeptInv, Foreign, NoForeign
    <2>3. K!Content(file') \in {K!dest(p), K!Blank}
      BY Zenon, <2>1, <2>2, ContentOfConfig DEF K!Content, K!Whole
    <2> QED
      BY Zenon, <1>0, <2>1, <2>2, <2>3, BlankNoForeign DEF SavedInv, Foreign
  <1>7. ASSUME UNCHANGED K!vars PROVE Foreign'
    BY Zenon, <1>1, <1>7 DEF K!vars, K!procs
  <1>8. ASSUME NEW p \in Jobs, K!StatBackup(p) \/ K!Kill(p) PROVE Foreign'
    BY Zenon, <1>1, <1>8 DEF K!StatBackup, K!Kill
  <1>9. ASSUME NEW p \in Jobs, NEW o \in {"merge", "remove"}, NEW c \in Clusters, NEW v \in Incarnations,
               K!Begin(p, o, c, v)
        PROVE  Foreign'
    BY Zenon, <1>1, <1>9 DEF K!Begin
  <1> QED
    BY Zenon, <1>2, <1>3, <1>4, <1>5, <1>6, <1>7, <1>8, <1>9 DEF K!Next, K!Step

LEMMA StepSaved ==
  ASSUME K!KubeconfigAssumption, SavedInv, [K!Next]_(K!vars)
  PROVE  Saved'
  <1> USE DEF SavedInv
  <1>0. \A f : UserRight(f)' <=> UserRight(f)
    <2>1. original' = original
      BY DEF K!Next, K!Step, K!Begin, K!ReadToMerge, K!ReadToRemove, K!StatBackup, K!CreateBackup, K!SaveBackup,
             K!Truncate, K!Write, K!Kill, K!vars
    <2> QED
      BY Zenon, <2>1 DEF UserRight
  <1>a. K!TypeOK
    BY Zenon DEF KeptInv
  <1>1. CASE UNCHANGED K!vars
    BY Zenon, <1>0, <1>1 DEF K!vars, K!procs, Saved
  <1>2. ASSUME NEW p \in Jobs, NEW l \in {"read", "failed"}, pc' = [pc EXCEPT ![p] = l],
               UNCHANGED <<file, backup, raw, exposed>>
        PROVE  Saved'
    BY Zenon, <1>0, <1>2, <1>a DEF Saved, K!TypeOK
  <1>3. ASSUME NEW p \in Jobs, NEW o \in {"merge", "remove"}, NEW c \in Clusters, NEW v \in Incarnations,
               K!Begin(p, o, c, v)
        PROVE  Saved'
    BY Zenon, <1>2, <1>3 DEF K!Begin, K!Goto
  <1>4. ASSUME NEW p \in Jobs, K!Kill(p) PROVE Saved'
    BY Zenon, <1>2, <1>4 DEF K!Kill, K!Goto
  <1>5. ASSUME NEW p \in Jobs, K!ReadToMerge(p) \/ K!ReadToRemove(p) PROVE Saved'
    <2>1. /\ UNCHANGED <<file, backup, exposed>> /\ raw' = [raw EXCEPT ![p] = K!Content(file)]
      BY Zenon, <1>5 DEF K!ReadToMerge, K!ReadToRemove
    <2>2. PICK l \in {"failed", "stat", "write", "done"} : pc' = [pc EXCEPT ![p] = l]
      BY Zenon, <1>5 DEF K!ReadToMerge, K!ReadToRemove, K!Goto
    <2>3. ~exposed /\ backup = NoFile => UserRight(K!Content(file))
      <3>1. backup = NoFile => K!Content(backup) = K!Blank
        BY Zenon DEF K!Content, K!Whole
      <3> QED
        BY Zenon, <3>1, NothingToLose DEF Saved, Foreign
    <2>4. raw'[p] = K!Content(file) /\ pc'[p] = l
          /\ \A q \in Jobs \ {p} : raw'[q] = raw[q] /\ pc'[q] = pc[q]
      BY Zenon, <1>a, <2>1, <2>2 DEF K!TypeOK
    <2> QED
      BY Zenon, <1>0, <2>1, <2>2, <2>3, <2>4 DEF Saved
  <1>6. ASSUME NEW p \in Jobs, K!StatBackup(p) PROVE Saved'
    <2>1. /\ pc[p] = "stat" /\ pc' = [pc EXCEPT ![p] = IF backup = NoFile THEN "backup" ELSE "write"]
          /\ UNCHANGED <<file, backup, raw, exposed>>
      BY Zenon, <1>6 DEF K!StatBackup, K!Goto
    <2> QED
      BY Zenon, <1>0, <1>a, <2>1 DEF Saved, K!TypeOK
  <1>7. ASSUME NEW p \in Jobs, K!CreateBackup(p) PROVE Saved'
    <2> SUFFICES ASSUME ~exposed' PROVE Saved'
      BY Zenon DEF Saved
    <2>1. /\ pc[p] = "backup" /\ pc' = [pc EXCEPT ![p] = "saving"] /\ backup' = Empty
          /\ UNCHANGED <<file, raw>>
      BY Zenon, <1>7 DEF K!CreateBackup, K!Goto
    <2>2. ~exposed /\ (K!Whole(backup) => ~torn /\ K!Whole(file))
      BY Zenon, <1>7 DEF K!CreateBackup
    <2>3. K!Content(backup') = K!Blank /\ ~K!Whole(backup') /\ backup' # NoFile
      BY Zenon, <2>1 DEF K!Content, K!Whole, K!KubeconfigAssumption
    <2>4. CASE K!Whole(backup)
      <3>1. NobodyWrites
        BY Zenon, <2>2, <2>4 DEF KeptInv, Kept, NobodyWrites, K!Whole
      <3>2. UserRight(K!Content(file))
        BY Zenon, <2>2, <2>4, <3>1 DEF KeptInv, Kept, Right
      <3> QED
        BY Zenon, <1>0, <1>a, <2>1, <2>2, <2>3, <3>1, <3>2 DEF Saved, NobodyWrites, K!TypeOK
    <2>5. CASE ~K!Whole(backup)
      <3>1. K!Content(backup) = K!Blank
        BY Zenon, <2>5, NotWhole
      <3> QED
        BY Zenon, <1>0, <1>a, <2>1, <2>2, <2>3, <3>1 DEF Saved, K!TypeOK
    <2> QED
      BY Zenon, <2>4, <2>5
  <1>8. ASSUME NEW p \in Jobs, K!SaveBackup(p) PROVE Saved'
    <2>1. /\ pc[p] = "saving" /\ pc' = [pc EXCEPT ![p] = "write"] /\ backup' = raw[p]
          /\ UNCHANGED <<file, raw, exposed>>
      BY Zenon, <1>8 DEF K!SaveBackup, K!Goto
    <2>2. raw[p] \in K!Config
      BY Zenon, <1>a DEF K!TypeOK
    <2>3. K!Content(backup') = raw[p] /\ backup' # NoFile
      BY Zenon, <2>1, <2>2, ContentOfConfig DEF K!KubeconfigAssumption
    <2> QED
      BY Zenon, <1>0, <1>a, <2>1, <2>3 DEF Saved, K!TypeOK
  <1>9. ASSUME NEW p \in Jobs, K!Truncate(p) PROVE Saved'
    <2> SUFFICES ASSUME ~exposed' PROVE Saved'
      BY Zenon DEF Saved
    <2>1. /\ pc[p] = "write" /\ pc' = [pc EXCEPT ![p] = "writing"] /\ file' = Empty
          /\ UNCHANGED <<backup, raw>>
      BY Zenon, <1>9 DEF K!Truncate, K!Goto
    <2>2. ~exposed /\ (K!Whole(file) => K!Whole(backup))
      BY Zenon, <1>9 DEF K!Truncate
    <2>3. UserRight(K!Content(backup))
      <3>1. CASE K!Whole(file)
        BY Zenon, <2>2, <3>1 DEF Saved
      <3>2. CASE ~K!Whole(file)
        BY Zenon, <2>2, <3>2, NotWhole, NothingToLose DEF Saved, Foreign
      <3> QED
        BY Zenon, <3>1, <3>2
    <2> QED
      BY Zenon, <1>0, <1>a, <2>1, <2>2, <2>3 DEF Saved, K!TypeOK
  <1>10. ASSUME NEW p \in Jobs, K!Write(p) PROVE Saved'
    <2>1. /\ pc[p] = "writing" /\ pc' = [pc EXCEPT ![p] = "done"] /\ UNCHANGED <<backup, raw, exposed>>
      BY Zenon, <1>10 DEF K!Write, K!Goto
    <2>2. ~exposed => UserRight(K!Content(backup))
      BY Zenon, <2>1 DEF Saved
    <2> QED
      BY Zenon, <1>0, <1>a, <2>1, <2>2 DEF Saved, K!TypeOK
  <1> QED
    BY Zenon, <1>1, <1>3, <1>4, <1>5, <1>6, <1>7, <1>8, <1>9, <1>10 DEF K!Next, K!Step

LEMMA StepSavedInv == K!KubeconfigAssumption /\ SavedInv /\ [K!Next]_(K!vars) => SavedInv'
  BY Zenon, StepKeptInv, StepForeign, StepSaved DEF SavedInv

LEMMA InitSavedInv == K!KubeconfigAssumption /\ K!Init => SavedInv
  BY Zenon, InitKeptInv, InitSaved DEF SavedInv

LEMMA SavedSuffices == SavedInv => K!Recoverable
  BY Zenon DEF SavedInv, Saved, K!Recoverable, UserRight

\* The first backup that mergeKubeconfig makes protects the user's own entries from
\* every later crash inside a write, of any number of processes, as Recoverable states.
THEOREM KubeconfigRecoverable ==
  ASSUME K!KubeconfigAssumption
  PROVE  K!Spec => []K!Recoverable
  <1>1. K!Init => SavedInv
    BY Zenon, InitSavedInv
  <1>2. SavedInv /\ [K!Next]_(K!vars) => SavedInv'
    BY Zenon, StepSavedInv
  <1> QED
    BY <1>1, <1>2, SavedSuffices, PTL DEF K!Spec

-----------------------------------------------------------------------------
(* The jobs.                                                               *)

LEMMA JobIsIncarnation == ASSUME NEW i \in Jobs PROVE i \in Incarnations
  BY WebUIAssumption DEF Jobs, Incarnations

\* A job from its request to the deferred call that frees its cluster.
Active(i) == exec[i] \notin {"none", "ended"}

Succeeded(i) ==
  \/ exec[i] = "config" /\ pc[i] = "done"
  \/ exec[i] = "ok"
  \/ exec[i] = "recorded" /\ jobs[i].status = "done"

\* Jobs are numbered from 1, and a job that was started has its record.
Numbered ==
  /\ \A i \in Jobs : i > next => exec[i] = "none"
  /\ \A i \in Jobs : exec[i] # "none" => jobs[i] \in Job

\* A cluster has one active job, which the busy set knows.
OneJob ==
  /\ \A i \in Jobs : Active(i) => jobs[i].cluster \in busy
  /\ \A i \in Jobs, j \in Jobs :
       Active(i) /\ Active(j) /\ jobs[i].cluster = jobs[j].cluster => i = j

\* A command changes the entry of its own cluster.
OwnEntry ==
  /\ \A i \in Jobs : exec[i] # "config" => pc[i] \in K!Rest
  /\ \A i \in Jobs : exec[i] = "config" => arg[i] = jobs[i].cluster

\* The entry that a creation has merged is the one wanted.
Merged ==
  \A i \in Jobs :
    Active(i) /\ jobs[i].verb = "create" =>
      /\ exec[i] = "config" =>
           op[i] = "merge" /\ pc[i] # "idle" /\ item[i] = incarnation[jobs[i].cluster]
      /\ Succeeded(i) => wanted[jobs[i].cluster] = incarnation[jobs[i].cluster]

JobsInv == Numbered /\ OneJob /\ OwnEntry /\ Merged

WebInv == TypeOK /\ JobsInv

-----------------------------------------------------------------------------
(* Every step is one of the kubeconfig or leaves it alone.                 *)

LEMMA StepUses ==
  ASSUME TypeOK, JobsInv, Next
  PROVE  K!Next \/ UNCHANGED config
  <1>1. ASSUME NEW c \in Clusters, Request(c) PROVE UNCHANGED config
    BY Zenon, <1>1 DEF Request, createCluster, deleteCluster, nodeAction, startJob
  <1>2. ASSUME NEW i \in Jobs, Create(i) PROVE K!Next
    <2>1. jobs[i].cluster \in Clusters /\ i \in Incarnations /\ K!Begin(i, "merge", jobs[i].cluster, i)
      BY Zenon, <1>2, JobIsIncarnation DEF Create, JobsInv, Numbered, Job
    <2> QED
      BY Zenon, <2>1 DEF K!Next
  <1>3. ASSUME NEW i \in Jobs, Delete(i) PROVE K!Next
    <2>1. jobs[i].cluster \in Clusters /\ item[i] \in Incarnations
          /\ K!Begin(i, "remove", jobs[i].cluster, item[i])
      BY Zenon, <1>3 DEF Delete, JobsInv, Numbered, Job, TypeOK, K!TypeOK
    <2> QED
      BY Zenon, <2>1 DEF K!Next
  <1>4. ASSUME NEW i \in Jobs, ConfigStep(i) \/ KillCommand(i) PROVE K!Next
    BY Zenon, <1>4 DEF ConfigStep, KillCommand, K!Next
  <1>5. ASSUME NEW i \in Jobs, Command(i) \/ CommandEnds(i) \/ SetStatus(i) \/ Unbusy(i)
        PROVE  UNCHANGED config
    BY Zenon, <1>5 DEF Command, CommandEnds, SetStatus, Unbusy
  <1> QED
    BY Zenon, <1>1, <1>2, <1>3, <1>4, <1>5 DEF Next, Goroutine

-----------------------------------------------------------------------------
(* Types.                                                                  *)

LEMMA Assumed == MaxJobs \in Nat /\ K!KubeconfigAssumption
  BY Zenon, WebUIAssumption

LEMMA InitTypes == Init => TypeOK
  <1> SUFFICES ASSUME Init PROVE TypeOK
    BY Zenon
  <1>1. K!TypeOK
    BY Zenon, Assumed, FileInitTypes DEF Init
  <1>2. 0 \in Incarnations /\ 0 \in 0 .. MaxJobs
    BY Assumed DEF Incarnations
  <1> QED
    BY Zenon, <1>1, <1>2 DEF Init, TypeOK

LEMMA ConfigTypes ==
  ASSUME TypeOK, JobsInv, [Next]_vars
  PROVE  K!TypeOK'
  <1>1. K!Next \/ UNCHANGED config
    BY Zenon, StepUses DEF vars
  <1>2. K!TypeOK /\ [K!Next]_(K!vars)
    BY Zenon, <1>1 DEF TypeOK, config, K!vars, K!procs
  <1> QED
    BY Zenon, <1>2, Assumed, FileStepTypes

LEMMA StepTypes ==
  ASSUME TypeOK, JobsInv, [Next]_vars
  PROVE  TypeOK'
  <1>1. K!TypeOK'
    BY Zenon, ConfigTypes
  <1>2. CASE UNCHANGED vars
    BY Zenon, <1>1, <1>2 DEF vars, server, clusters, TypeOK
  <1>3. ASSUME NEW c \in Clusters, Request(c) PROVE TypeOK'
    <2>1. PICK v \in {"create", "delete", "node"} : startJob(c, v)
      BY Zenon, <1>3 DEF Request, createCluster, deleteCluster, nodeAction
    <2>2. next + 1 \in Jobs /\ next' \in 0 .. MaxJobs
      BY <2>1, Assumed DEF startJob, TypeOK, Jobs
    <2>3. [cluster |-> c, verb |-> v, status |-> "running"] \in Job
      BY Zenon DEF Job
    <2> QED
      BY Zenon, <1>1, <2>1, <2>2, <2>3 DEF startJob, clusters, TypeOK
  <1>4. ASSUME NEW i \in Jobs, Create(i) PROVE TypeOK'
    BY Zenon, <1>1, <1>4, JobIsIncarnation DEF Create, server, TypeOK
  <1>5. ASSUME NEW i \in Jobs, Delete(i) PROVE TypeOK'
    BY Zenon, <1>1, <1>5 DEF Delete, server, TypeOK
  <1>6. ASSUME NEW i \in Jobs, Command(i) PROVE TypeOK'
    BY Zenon, <1>1, <1>6 DEF Command, server, clusters, TypeOK
  <1>7. ASSUME NEW i \in Jobs, ConfigStep(i) \/ KillCommand(i) PROVE TypeOK'
    BY Zenon, <1>1, <1>7 DEF ConfigStep, KillCommand, server, clusters, TypeOK
  <1>8. ASSUME NEW i \in Jobs, CommandEnds(i) PROVE TypeOK'
    BY Zenon, <1>1, <1>8 DEF CommandEnds, server, clusters, TypeOK
  <1>9. ASSUME NEW i \in Jobs, SetStatus(i) PROVE TypeOK'
    <2>1. jobs[i] \in Job
      BY Zenon, <1>9 DEF SetStatus, JobsInv, Numbered
    <2>2. PICK s \in {"done", "failed"} : jobs' = [jobs EXCEPT ![i].status = s]
      BY Zenon, <1>9 DEF SetStatus
    <2>3. [jobs[i] EXCEPT !.status = s] \in Job
      BY Zenon, <2>1 DEF Job
    <2>4. jobs' \in [Jobs -> Job \cup {None}]
      BY Zenon, <2>2, <2>3 DEF TypeOK
    <2> QED
      BY Zenon, <1>1, <1>9, <2>4 DEF SetStatus, clusters, TypeOK
  <1>10. ASSUME NEW i \in Jobs, Unbusy(i) PROVE TypeOK'
    BY Zenon, <1>1, <1>10 DEF Unbusy, clusters, TypeOK
  <1> QED
    BY Zenon, <1>2, <1>3, <1>4, <1>5, <1>6, <1>7, <1>8, <1>9, <1>10 DEF Next, Goroutine

-----------------------------------------------------------------------------
(* One job per cluster, and what its command does to the file.             *)

\* A step of a kubeconfig command ends it only with its own entry wanted.
LEMMA StepEffect ==
  ASSUME K!TypeOK, NEW i \in Jobs, K!Step(i) \/ K!Kill(i)
  PROVE  /\ UNCHANGED <<op, arg, item>>
         /\ pc[i] \notin K!Rest /\ pc'[i] # "idle" /\ \A j \in Jobs \ {i} : pc'[j] = pc[j]
         /\ \A c \in Clusters \ {arg[i]} : wanted'[c] = wanted[c]
         /\ op[i] = "merge" /\ pc'[i] = "done" => wanted'[arg[i]] = item[i]
  <1> USE DEF K!TypeOK, K!Goto, K!Rest
  <1>1. CASE K!ReadToMerge(i)
    BY Zenon, <1>1 DEF K!ReadToMerge
  <1>2. CASE K!ReadToRemove(i)
    BY Zenon, <1>2 DEF K!ReadToRemove
  <1>3. CASE K!StatBackup(i)
    BY Zenon, <1>3 DEF K!StatBackup
  <1>4. CASE K!CreateBackup(i)
    BY Zenon, <1>4 DEF K!CreateBackup
  <1>5. CASE K!SaveBackup(i)
    BY Zenon, <1>5 DEF K!SaveBackup
  <1>6. CASE K!Truncate(i)
    BY Zenon, <1>6 DEF K!Truncate
  <1>7. CASE K!Write(i)
    BY Zenon, <1>7 DEF K!Write
  <1>8. CASE K!Kill(i)
    BY Zenon, <1>8 DEF K!Kill
  <1> QED
    BY <1>1, <1>2, <1>3, <1>4, <1>5, <1>6, <1>7, <1>8 DEF K!Step

LEMMA InitJobs == Init => JobsInv
  BY DEF Init, JobsInv, Numbered, OneJob, OwnEntry, Merged, Active, K!Init, K!Rest

LEMMA StepJobs ==
  ASSUME TypeOK, JobsInv, [Next]_vars
  PROVE  JobsInv'
  <1> USE DEF JobsInv
  <1>1. CASE UNCHANGED vars
    BY <1>1 DEF vars, server, clusters, config, Numbered, OneJob, OwnEntry, Merged, Active, Succeeded
  <1>2. ASSUME NEW c \in Clusters, Request(c) PROVE JobsInv'
    <2>1. PICK v \in {"create", "delete", "node"} : startJob(c, v)
      BY Zenon, <1>2 DEF Request, createCluster, deleteCluster, nodeAction
    <2> DEFINE n == next + 1
               new == [cluster |-> c, verb |-> v, status |-> "running"]
    <2>2. n \in Jobs /\ n > next /\ next' = n /\ \A j \in Jobs : j > n => j # n /\ j > next
      BY <2>1, Assumed DEF startJob, TypeOK, Jobs
    <2>3. exec[n] = "none" /\ pc[n] \in K!Rest
      BY Zenon, <2>2 DEF Numbered, OwnEntry
    <2>4. new \in Job /\ new.cluster = c
      BY Zenon DEF Job
    <2>5. /\ jobs' = [jobs EXCEPT ![n] = new] /\ exec' = [exec EXCEPT ![n] = "running"]
          /\ c \notin busy /\ busy' = busy \cup {c}
          /\ UNCHANGED <<pc, op, arg, item, wanted, incarnation>>
      BY Zenon, <2>1 DEF startJob, clusters, config
    <2> HIDE DEF n, new
    <2>6. /\ jobs'[n] = new /\ exec'[n] = "running"
          /\ \A j \in Jobs \ {n} : jobs'[j] = jobs[j] /\ exec'[j] = exec[j]
      BY Zenon, <2>2, <2>5 DEF TypeOK
    <2>7. \A j \in Jobs : Active(j) => jobs[j].cluster # c
      BY Zenon, <2>5 DEF OneJob
    <2>8. Numbered'
      BY Zenon, <2>2, <2>4, <2>6 DEF Numbered
    <2>9. OneJob'
      BY <2>3, <2>4, <2>5, <2>6, <2>7 DEF OneJob, Active
    <2>10. OwnEntry'
      BY Zenon, <2>3, <2>5, <2>6 DEF OwnEntry
    <2>11. Merged'
      BY <2>3, <2>5, <2>6 DEF Merged, Active, Succeeded
    <2> QED
      BY Zenon, <2>8, <2>9, <2>10, <2>11
  <1>3. ASSUME NEW i \in Jobs, Create(i) PROVE JobsInv'
    <2> DEFINE c == jobs[i].cluster
    <2>1. /\ exec[i] = "running" /\ UNCHANGED <<busy, jobs, next, wanted>>
          /\ exec' = [exec EXCEPT ![i] = "config"]
          /\ pc' = [pc EXCEPT ![i] = "read"] /\ op' = [op EXCEPT ![i] = "merge"]
          /\ arg' = [arg EXCEPT ![i] = c] /\ item' = [item EXCEPT ![i] = i]
          /\ incarnation' = [incarnation EXCEPT ![c] = i]
      BY Zenon, <1>3 DEF Create, server, K!Begin, K!Goto
    <2>2. c \in Clusters /\ Active(i) /\ jobs[i] \in Job
      BY Zenon, <2>1 DEF Numbered, Active, Job
    <2> HIDE DEF c
    <2>3. /\ exec'[i] = "config" /\ pc'[i] = "read" /\ op'[i] = "merge" /\ arg'[i] = c
          /\ item'[i] = i /\ incarnation'[c] = i
          /\ \A d \in Clusters \ {c} : incarnation'[d] = incarnation[d]
          /\ \A j \in Jobs \ {i} : /\ exec'[j] = exec[j] /\ pc'[j] = pc[j] /\ op'[j] = op[j]
                                  /\ arg'[j] = arg[j] /\ item'[j] = item[j]
      BY Zenon, <2>1, <2>2 DEF TypeOK, K!TypeOK
    <2>4. \A j \in Jobs \ {i} : Active(j) => jobs[j].cluster \in Clusters \ {c}
      BY Zenon, <2>2 DEF Numbered, OneJob, Job, Active, c
    <2>5. Numbered' /\ OneJob' /\ OwnEntry'
      BY <2>1, <2>2, <2>3 DEF Numbered, OneJob, OwnEntry, Active, c
    <2>6. Merged'
      BY <2>1, <2>2, <2>3, <2>4 DEF Merged, Active, Succeeded, c
    <2> QED
      BY Zenon, <2>5, <2>6
  <1>4. ASSUME NEW i \in Jobs, Delete(i) PROVE JobsInv'
    <2>1. /\ exec[i] = "running" /\ jobs[i].verb = "delete"
          /\ UNCHANGED <<busy, jobs, next, wanted, incarnation>>
          /\ exec' = [exec EXCEPT ![i] = "config"]
          /\ pc' = [pc EXCEPT ![i] = "read"] /\ op' = [op EXCEPT ![i] = "remove"]
          /\ arg' = [arg EXCEPT ![i] = jobs[i].cluster] /\ item' = [item EXCEPT ![i] = item[i]]
      BY Zenon, <1>4 DEF Delete, server, K!Begin, K!Goto
    <2>2. /\ exec'[i] = "config" /\ pc'[i] = "read" /\ arg'[i] = jobs[i].cluster
          /\ \A j \in Jobs \ {i} : /\ exec'[j] = exec[j] /\ pc'[j] = pc[j] /\ op'[j] = op[j]
                                  /\ arg'[j] = arg[j] /\ item'[j] = item[j]
      BY <2>1 DEF TypeOK, K!TypeOK, Numbered, Job
    <2>3. Numbered' /\ OneJob' /\ OwnEntry'
      BY <2>1, <2>2 DEF Numbered, OneJob, OwnEntry, Active
    <2>4. Merged'
      BY <2>1, <2>2 DEF Merged, Active, Succeeded
    <2> QED
      BY Zenon, <2>3, <2>4
  <1>5. ASSUME NEW i \in Jobs, Command(i) PROVE JobsInv'
    <2>1. PICK r \in {"ok", "error"} : exec' = [exec EXCEPT ![i] = r] /\ (r = "ok" => jobs[i].verb = "node")
      BY Zenon, <1>5 DEF Command
    <2>2. exec[i] = "running" /\ UNCHANGED <<busy, jobs, next, pc, op, arg, item, wanted, incarnation>>
      BY Zenon, <1>5 DEF Command, server, clusters, config
    <2>3. exec'[i] = r /\ \A j \in Jobs \ {i} : exec'[j] = exec[j]
      BY Zenon, <2>1 DEF TypeOK
    <2>4. Numbered' /\ OneJob' /\ OwnEntry'
      BY <2>2, <2>3 DEF Numbered, OneJob, OwnEntry, Active
    <2>5. Merged'
      BY <2>1, <2>2, <2>3 DEF Merged, Active, Succeeded
    <2> QED
      BY Zenon, <2>4, <2>5
  <1>6. ASSUME NEW i \in Jobs, ConfigStep(i) \/ KillCommand(i) PROVE JobsInv'
    <2>1. exec[i] = "config" /\ UNCHANGED <<busy, jobs, next, exec, incarnation>>
      BY Zenon, <1>6 DEF ConfigStep, KillCommand, server, clusters
    <2>2. /\ UNCHANGED <<op, arg, item>>
          /\ pc[i] \notin K!Rest /\ pc'[i] # "idle" /\ \A j \in Jobs \ {i} : pc'[j] = pc[j]
          /\ \A c \in Clusters \ {arg[i]} : wanted'[c] = wanted[c]
          /\ op[i] = "merge" /\ pc'[i] = "done" => wanted'[arg[i]] = item[i]
      BY Zenon, <1>6, StepEffect DEF ConfigStep, KillCommand, TypeOK
    <2>3. Numbered' /\ OneJob' /\ OwnEntry'
      BY Zenon, <2>1, <2>2 DEF Numbered, OneJob, OwnEntry, Active
    <2>4. \A j \in Jobs \ {i} : Active(j) => jobs[j].cluster \in Clusters \ {arg[i]}
      BY <2>1 DEF Numbered, OneJob, OwnEntry, Job, Active
    <2>5. Merged'
      BY <2>1, <2>2, <2>4 DEF Merged, OwnEntry, Active, Succeeded
    <2> QED
      BY Zenon, <2>3, <2>5
  <1>7. ASSUME NEW i \in Jobs, CommandEnds(i) PROVE JobsInv'
    <2>1. PICK r \in {"ok", "error"} : exec' = [exec EXCEPT ![i] = r] /\ (r = "ok" => pc[i] = "done")
      BY Zenon, <1>7 DEF CommandEnds
    <2>2. /\ exec[i] = "config" /\ pc[i] \in K!Rest
          /\ UNCHANGED <<busy, jobs, next, pc, op, arg, item, wanted, incarnation>>
      BY Zenon, <1>7 DEF CommandEnds, server, clusters, config
    <2>3. exec'[i] = r /\ \A j \in Jobs \ {i} : exec'[j] = exec[j]
      BY Zenon, <2>1 DEF TypeOK
    <2>4. Numbered' /\ OneJob' /\ OwnEntry'
      BY <2>2, <2>3 DEF Numbered, OneJob, OwnEntry, Active
    <2>5. Merged'
      BY <2>1, <2>2, <2>3 DEF Merged, Active, Succeeded
    <2> QED
      BY Zenon, <2>4, <2>5
  <1>8. ASSUME NEW i \in Jobs, SetStatus(i) PROVE JobsInv'
    <2>1. PICK s \in {"done", "failed"} :
            jobs' = [jobs EXCEPT ![i].status = s] /\ (s = "done" => exec[i] = "ok")
      BY Zenon, <1>8 DEF SetStatus
    <2>2. /\ exec[i] \in {"ok", "error"} /\ exec' = [exec EXCEPT ![i] = "recorded"]
          /\ UNCHANGED <<busy, next, pc, op, arg, item, wanted, incarnation>>
      BY Zenon, <1>8 DEF SetStatus, clusters, config
    <2>3. exec'[i] = "recorded" /\ \A j \in Jobs \ {i} : exec'[j] = exec[j]
      BY Zenon, <2>2 DEF TypeOK
    <2>4. jobs[i] \in Job
      BY Zenon, <2>2 DEF Numbered
    <2>5. /\ jobs'[i] \in Job /\ jobs'[i].cluster = jobs[i].cluster
          /\ jobs'[i].verb = jobs[i].verb /\ jobs'[i].status = s
          /\ \A j \in Jobs \ {i} : jobs'[j] = jobs[j]
      BY Zenon, <2>1, <2>4 DEF TypeOK, Job
    <2>6. Numbered' /\ OneJob' /\ OwnEntry'
      BY <2>2, <2>3, <2>5 DEF Numbered, OneJob, OwnEntry, Active
    <2>7. Merged'
      BY <2>1, <2>2, <2>3, <2>5 DEF Merged, Active, Succeeded
    <2> QED
      BY Zenon, <2>6, <2>7
  <1>9. ASSUME NEW i \in Jobs, Unbusy(i) PROVE JobsInv'
    <2>1. /\ exec[i] = "recorded" /\ busy' = busy \ {jobs[i].cluster}
          /\ exec' = [exec EXCEPT ![i] = "ended"]
          /\ UNCHANGED <<jobs, next, pc, op, arg, item, wanted, incarnation>>
      BY Zenon, <1>9 DEF Unbusy, clusters, config
    <2>2. exec'[i] = "ended" /\ \A j \in Jobs \ {i} : exec'[j] = exec[j]
      BY Zenon, <2>1 DEF TypeOK
    <2>3. Numbered' /\ OwnEntry'
      BY <2>1, <2>2 DEF Numbered, OwnEntry
    <2>4. OneJob'
      BY <2>1, <2>2 DEF OneJob, Active
    <2>5. Merged'
      BY <2>1, <2>2 DEF Merged, Active, Succeeded
    <2> QED
      BY Zenon, <2>3, <2>4, <2>5
  <1> QED
    BY Zenon, <1>1, <1>2, <1>3, <1>4, <1>5, <1>6, <1>7, <1>8, <1>9 DEF Next, Goroutine

LEMMA InitInv == Init => WebInv
  BY Zenon, InitTypes, InitJobs DEF WebInv

LEMMA StepInv == WebInv /\ [Next]_vars => WebInv'
  BY Zenon, StepTypes, StepJobs DEF WebInv

LEMMA StepRefines == WebInv /\ [Next]_vars => [K!Next]_(K!vars)
  <1> SUFFICES ASSUME WebInv, [Next]_vars PROVE [K!Next]_(K!vars)
    BY Zenon
  <1>1. K!Next \/ UNCHANGED config
    BY Zenon, StepUses DEF vars, WebInv
  <1> QED
    BY Zenon, <1>1 DEF config, K!vars, K!procs

LEMMA MergedSuffices == WebInv /\ K!EntriesKept => EntriesKept
  <1> SUFFICES ASSUME WebInv, K!EntriesKept, K!Quiet, ~torn, NEW i \in Jobs,
                      jobs[i] # None, jobs[i].verb = "create", jobs[i].cluster \notin raced,
                      exec[i] = "ok" \/ (exec[i] = "recorded" /\ jobs[i].status = "done")
               PROVE  K!Content(file).entries[jobs[i].cluster] = incarnation[jobs[i].cluster]
    BY Zenon DEF EntriesKept
  <1>1. jobs[i].cluster \in Clusters \ raced
    BY Zenon DEF WebInv, JobsInv, Numbered, Job
  <1>2. wanted[jobs[i].cluster] = incarnation[jobs[i].cluster]
    BY Zenon DEF WebInv, JobsInv, Merged, Active, Succeeded
  <1> QED
    BY Zenon, <1>1, <1>2 DEF K!EntriesKept

-----------------------------------------------------------------------------
(* The theorems.                                                           *)

\* However many jobs the server has started, busy holds the cluster of every job whose
\* goroutine is still to free it, and no cluster has two of them: WebInv, with the types.
THEOREM OneJobPerCluster == Spec => []WebInv
  <1> QED
    BY InitInv, StepInv, PTL DEF Spec

\* Every behaviour of the server is one of the kubeconfig file under unlocked,
\* overlapping and killed commands: the detailed specification implements Kubeconfig.
THEOREM UsesKubeconfig == Spec => K!Spec
  <1>1. Init => K!Init
    BY Zenon DEF Init
  <1> QED
    BY <1>1, OneJobPerCluster, StepRefines, PTL DEF Spec, K!Spec

\* When a creation has succeeded and nobody is writing, the file has the entry of the
\* cluster just made, and every other entry that should be there, for any number of
\* clusters and jobs, in the cases that EntriesKept names.
THEOREM WebUIKeepsEntries == Spec => []EntriesKept
  <1>1. K!Spec => []K!EntriesKept
    BY Zenon, Assumed, KubeconfigKeepsEntries
  <1> QED
    BY <1>1, UsesKubeconfig, OneJobPerCluster, MergedSuffices, PTL

\* No job, killed or not, loses the user's own entries from both the file and its backup,
\* for any number of clusters and jobs, in the cases that Recoverable names.
THEOREM WebUIRecoverable == Spec => []Recoverable
  <1>1. K!Spec => []K!Recoverable
    BY Zenon, Assumed, KubeconfigRecoverable
  <1>2. K!Recoverable => Recoverable
    BY Zenon DEF Recoverable
  <1> QED
    BY <1>1, <1>2, UsesKubeconfig, PTL
=============================================================================
