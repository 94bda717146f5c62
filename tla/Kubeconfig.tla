----------------------------- MODULE Kubeconfig -----------------------------
(***************************************************************************)
(* The user's kubeconfig file (pkg/cluster/kubeconfig.go) under kiac       *)
(* processes that merge and remove the entries of clusters.  Nothing locks *)
(* the file: a process reads it, saves the first backup, and writes it     *)
(* back with os.WriteFile, which truncates the file first.  Processes      *)
(* overlap, and may be killed anywhere.                                    *)
(***************************************************************************)
CONSTANTS
  Clusters,      \* kiac clusters; kiac-<name> names the entries of one
  UserEntries,   \* entries of the user's own
  Values,        \* what an entry says: the server, the certificates
  Originals,     \* the files that may be there before kiac
  Procs,
  NoFile,        \* no file
  Empty,         \* a file without content
  Torn,          \* a file that is no YAML
  None           \* no entry; no current context

Entries == Clusters \cup UserEntries

\* The clusters, users and contexts of one name are written together: an entry.
Config == [entries : [Entries -> Values \cup {None}], current : Entries \cup {None}]

\* dest before anything is read.
Blank == [entries |-> [e \in Entries |-> None], current |-> None]

Resolves(config) == config.current # None => config.entries[config.current] # None

KubeconfigAssumption ==
  /\ Clusters # {} /\ Values # {}
  /\ Clusters \cap UserEntries = {} /\ None \notin Values \cup Entries
  /\ {NoFile, Empty, Torn} \cap Config = {}
  /\ NoFile # Empty /\ NoFile # Torn /\ Empty # Torn
  /\ \A f \in Originals \ {NoFile} :
       /\ f \in Config /\ Resolves(f)
       /\ \A c \in Clusters : f.entries[c] = None

VARIABLES
  original,        \* the file before kiac
  file, backup,    \* the file and its .kiac.bak now
  pc, op, arg,     \* per process: its step, "merge" or "remove", the cluster
  item,            \* ... the entry that it merges
  raw,             \* ... and what it has read
  wanted,          \* ghost: per cluster the entry last merged, None if removed since
  raced,           \* ghost: clusters written last while another process held an
                   \* older content of the file
  torn,            \* ghost: a process was killed inside a write, or read or wrote the
                   \* file inside the write of another
  exposed          \* ghost: the file was truncated without a whole backup, or a whole
                   \* backup while the file was not whole or a write had been torn

procs == <<pc, op, arg, item, raw>>
vars == <<original, file, backup, procs, wanted, raced, torn, exposed>>

Rest == {"idle", "done", "failed"}
Holding == {"stat", "backup", "saving", "write", "writing"}

TypeOK ==
  /\ original \in Originals
  /\ file \in Config \cup {NoFile, Empty, Torn}
  /\ backup \in Config \cup {NoFile, Empty}
  /\ pc \in [Procs -> Rest \cup {"read"} \cup Holding]
  /\ op \in [Procs -> {"merge", "remove"}] /\ arg \in [Procs -> Clusters]
  /\ item \in [Procs -> Values] /\ raw \in [Procs -> Config]
  /\ wanted \in [Clusters -> Values \cup {None}]
  /\ raced \subseteq Clusters /\ torn \in BOOLEAN /\ exposed \in BOOLEAN

HasContent(f) == f \notin {NoFile, Empty}
Whole(f) == f \notin {NoFile, Empty, Torn}
Content(f) == IF Whole(f) THEN f ELSE Blank

Goto(p, l) == pc' = [pc EXCEPT ![p] = l]

Others(p, at) == \E q \in Procs \ {p} : pc[q] \in at

\* A kiac command reaches its kubeconfig step.
Begin(p, o, c, v) ==
  /\ pc[p] \in Rest
  /\ Goto(p, "read")
  /\ op' = [op EXCEPT ![p] = o] /\ arg' = [arg EXCEPT ![p] = c]
  /\ item' = [item EXCEPT ![p] = v]
  /\ UNCHANGED <<original, file, backup, raw, wanted, raced, torn, exposed>>

\* The entry is replaced or appended, and made the current context.
upsert(config, c, v) == [entries |-> [config.entries EXCEPT ![c] = v], current |-> c]

\* The entry goes, and the current context if it was this one.
drop(config, c) ==
  [entries |-> [config.entries EXCEPT ![c] = None],
   current |-> IF config.current = c THEN None ELSE config.current]

\* What a process writes.
dest(p) == IF op[p] = "merge" THEN upsert(raw[p], arg[p], item[p]) ELSE drop(raw[p], arg[p])

\* mergeKubeconfig reads the file; an absent or an empty one counts as new, one that
\* does not parse is an error.
ReadToMerge(p) ==
  /\ pc[p] = "read" /\ op[p] = "merge"
  /\ raw' = [raw EXCEPT ![p] = Content(file)]
  /\ Goto(p, IF file = Torn THEN "failed" ELSE IF HasContent(file) THEN "stat" ELSE "write")
  /\ torn' = (torn \/ Others(p, {"writing"}))
  /\ UNCHANGED <<original, file, backup, op, arg, item, wanted, raced, exposed>>

\* removeKubeconfig: nothing to do for an absent or an empty file.
ReadToRemove(p) ==
  /\ pc[p] = "read" /\ op[p] = "remove"
  /\ raw' = [raw EXCEPT ![p] = Content(file)]
  /\ Goto(p, IF file = Torn THEN "failed" ELSE IF HasContent(file) THEN "write" ELSE "done")
  /\ torn' = (torn \/ Others(p, {"writing"}))
  /\ wanted' = IF HasContent(file) THEN wanted ELSE [wanted EXCEPT ![arg[p]] = None]
  /\ UNCHANGED <<original, file, backup, op, arg, item, raced, exposed>>

\* Only the first content that is found is backed up.
StatBackup(p) ==
  /\ pc[p] = "stat"
  /\ Goto(p, IF backup = NoFile THEN "backup" ELSE "write")
  /\ UNCHANGED <<original, file, backup, op, arg, item, raw, wanted, raced, torn, exposed>>

\* The backup: created, then written with what was read.
CreateBackup(p) ==
  /\ pc[p] = "backup"
  /\ backup' = Empty
  /\ Goto(p, "saving")
  /\ exposed' = (exposed \/ (Whole(backup) /\ (torn \/ ~Whole(file))))
  /\ UNCHANGED <<original, file, op, arg, item, raw, wanted, raced, torn>>

\* Faulty variant: the file, rather than what was read from it, is copied.
SaveBackup_copies(p) ==
  /\ pc[p] = "saving"
  /\ backup' = Content(file)
  /\ Goto(p, "write")
  /\ UNCHANGED <<original, file, op, arg, item, raw, wanted, raced, torn, exposed>>

SaveBackup(p) ==
  /\ pc[p] = "saving"
  /\ backup' = raw[p]
  /\ Goto(p, "write")
  /\ UNCHANGED <<original, file, op, arg, item, raw, wanted, raced, torn, exposed>>

\* os.WriteFile: truncated, then written from the start.  What another process wrote
\* in between may be longer and stick out behind the end.
Truncate(p) ==
  /\ pc[p] = "write"
  /\ file' = Empty
  /\ Goto(p, "writing")
  /\ torn' = (torn \/ Others(p, {"writing"}))
  /\ exposed' = (exposed \/ (Whole(file) /\ ~Whole(backup)))
  /\ UNCHANGED <<original, backup, op, arg, item, raw, wanted, raced>>

Write(p) ==
  /\ pc[p] = "writing"
  /\ file' \in {dest(p)} \cup (IF file = Empty THEN {} ELSE {Torn})
  /\ wanted' = [wanted EXCEPT ![arg[p]] = IF op[p] = "merge" THEN item[p] ELSE None]
  /\ raced' = IF Others(p, Holding) THEN raced \cup {arg[p]} ELSE raced \ {arg[p]}
  /\ Goto(p, "done")
  /\ UNCHANGED <<original, backup, op, arg, item, raw, torn, exposed>>

Kill(p) ==
  /\ pc[p] \notin Rest
  /\ torn' = (torn \/ pc[p] = "writing")
  /\ Goto(p, "failed")
  /\ UNCHANGED <<original, file, backup, op, arg, item, raw, wanted, raced, exposed>>

Init ==
  /\ original \in Originals /\ file = original /\ backup = NoFile
  /\ pc = [p \in Procs |-> "idle"] /\ op = [p \in Procs |-> "merge"]
  /\ arg = [p \in Procs |-> CHOOSE c \in Clusters : TRUE]
  /\ item = [p \in Procs |-> CHOOSE v \in Values : TRUE]
  /\ raw = [p \in Procs |-> Blank]
  /\ wanted = [c \in Clusters |-> None]
  /\ raced = {} /\ torn = FALSE /\ exposed = FALSE

Step(p) ==
  \/ ReadToMerge(p) \/ ReadToRemove(p) \/ StatBackup(p) \/ CreateBackup(p) \/ SaveBackup(p)
  \/ Truncate(p) \/ Write(p)

Next ==
  \E p \in Procs :
    \/ \E o \in {"merge", "remove"}, c \in Clusters, v \in Values : Begin(p, o, c, v)
    \/ Step(p) \/ Kill(p)

Spec == Init /\ [][Next]_vars

-----------------------------------------------------------------------------
(* Properties.                                                             *)

Quiet == \A p \in Procs : pc[p] \notin Holding

\* Whatever processes overlapped or were killed, as long as no write itself was cut
\* off or overlapped: the user's own entries are in the file as they were, a cluster
\* has the entry that was merged last and none once it was removed, but for clusters
\* written last while another process held an older content, and the current context
\* names an entry of the file.
EntriesKept ==
  Quiet /\ ~torn =>
    /\ \A e \in UserEntries : Content(file).entries[e] = Content(original).entries[e]
    /\ \A c \in Clusters \ raced : Content(file).entries[c] = wanted[c]
    /\ Resolves(Content(file))

\* The user's own entries are in the file or in the backup, wherever processes
\* overlapped and were killed, unless the file was truncated without a whole backup,
\* by a removal before any merge or after a merge died inside its backup, or the
\* backup of one merge by another that began to save one at the same time, when the
\* file was not whole or a write had been torn.
Recoverable ==
  Quiet /\ ~exposed =>
    \A e \in UserEntries :
      Content(original).entries[e] \in {Content(file).entries[e], Content(backup).entries[e]}
=============================================================================
