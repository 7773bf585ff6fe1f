---------------------------- MODULE FileCheckpoints ----------------------------
(***************************************************************************)
(* Snapshots of a working folder before the first edit of a run, and the   *)
(* rewind to one: AutoCheckpointer in front of the tools of the runs of    *)
(* several agent-native processes, the CheckpointStore each process opens  *)
(* on the folder's snapshot area, and `checkpoints rewind`.                *)
(*                                                                         *)
(* What a file holds is the set of the runs whose edits are in it.  A run  *)
(* takes at most one snapshot, which is known by the run.                  *)
(***************************************************************************)
EXTENDS Naturals, SequencesExt

CONSTANTS Run, Process, NoRun,
          Path, Skipped,  \* files; those under a directory of SKIPPED_NAMES
          Original,       \* files the folder has at first
          MaxFaults,      \* bound: failed snapshots and ended processes
          MaxRewinds      \* bound: rewinds

\* What the constants are.
Setting == NoRun \notin Run

VARIABLES
  folder,     \* [Path -> what the file holds]
  host,       \* [Run -> the process it is served by, NoRun before its first edit]
  at,         \* [Run -> "idle", "copying", "saving", "free": its snapshot is behind it, "dead"]
  left,       \* [Run -> files still to be copied]
  copy,       \* [Run -> [Path -> what its snapshot has of the file]]
  known,      \* _checkpoints: [Process -> runs whose snapshot it lists]
  payload,    \* [Run -> the list that is being written to the index]
  listed,     \* index.json: the snapshots a later process finds
  target,     \* the snapshot that is being restored
  unmirrored  \* files the restore has yet to visit

\* What happened, for the properties.
VARIABLES
  edited,     \* runs that edited the folder
  unsafe,     \* runs whose snapshot failed
  rewound,    \* the snapshot that is or was restored last, while nothing is edited
  rewinds, faults

snapshots == <<host, at, left, copy, known, payload, listed>>
history == <<edited, unsafe, rewound, rewinds, faults>>
vars == <<folder, snapshots, target, unmirrored, history>>

Absent == {NoRun}
Kept == Path \ Skipped
Nowhere == [p \in Path |-> Absent]

Init ==
  /\ folder = [p \in Path |-> IF p \in Original THEN {} ELSE Absent]
  /\ host = [r \in Run |-> NoRun]
  /\ at = [r \in Run |-> "idle"] /\ left = [r \in Run |-> {}]
  /\ copy = [r \in Run |-> Nowhere]
  /\ known = [h \in Process |-> <<>>] /\ payload = [r \in Run |-> <<>>]
  /\ listed = <<>>
  /\ target = NoRun /\ unmirrored = {}
  /\ edited = {} /\ unsafe = {} /\ rewound = NoRun /\ rewinds = 0 /\ faults = 0

------------------------------------------------------------------------------
(* AutoCheckpointer.before_tool and CheckpointStore.create, in a thread.    *)
FirstEdit(r) ==
  /\ at[r] = "idle"
  /\ at' = [at EXCEPT ![r] = "copying"]
  /\ \E h \in Process : host' = [host EXCEPT ![r] = h]
  /\ left' = [left EXCEPT ![r] = Kept]
  /\ UNCHANGED <<folder, copy, known, payload, listed, target, unmirrored, history>>

CopyFile(r, p) ==
  /\ at[r] = "copying" /\ p \in left[r]
  /\ copy' = [copy EXCEPT ![r][p] = folder[p]]
  /\ left' = [left EXCEPT ![r] = @ \ {p}]
  /\ UNCHANGED <<folder, host, at, known, payload, listed, target, unmirrored, history>>

Add(r) ==
  /\ at[r] = "copying" /\ left[r] = {}
  /\ at' = [at EXCEPT ![r] = "saving"]
  /\ known' = [known EXCEPT ![host[r]] = Append(@, r)]
  /\ payload' = [payload EXCEPT ![r] = known'[host[r]]]
  /\ UNCHANGED <<folder, host, left, copy, listed, target, unmirrored, history>>

\* The index is replaced as a whole by what this thread wrote.
SaveIndex(r) ==
  /\ at[r] = "saving"
  /\ at' = [at EXCEPT ![r] = "free"]
  /\ listed' = payload[r]
  /\ UNCHANGED <<folder, host, left, copy, known, payload, target, unmirrored, history>>

\* The hook manager swallows what create raises, and the run is marked already.
SnapshotFails(r) ==
  /\ at[r] \in {"copying", "saving"} /\ faults < MaxFaults
  /\ at' = [at EXCEPT ![r] = "free"]
  /\ unsafe' = unsafe \cup {r} /\ faults' = faults + 1
  /\ UNCHANGED <<folder, host, left, copy, known, payload, listed, target, unmirrored,
                 edited, rewound, rewinds>>

\* Mutant of MayEdit: the snapshot is not awaited.
MayEditMeanwhile(r) == at[r] \in {"copying", "saving", "free"}
MayEdit(r) == at[r] = "free"

\* A tool of the run writes the file or deletes it.
Edit(r, p) ==
  /\ MayEdit(r)
  /\ folder' \in {[folder EXCEPT ![p] = (@ \ Absent) \cup {r}], [folder EXCEPT ![p] = Absent]}
  /\ edited' = edited \cup {r} /\ rewound' = NoRun
  /\ UNCHANGED <<snapshots, target, unmirrored, unsafe, rewinds, faults>>

\* A process ends where it stands; what it had in memory is gone.
ProcessEnds(h) ==
  /\ faults < MaxFaults
  /\ at' = [r \in Run |-> IF host[r] = h THEN "dead" ELSE at[r]]
  /\ known' = [known EXCEPT ![h] = <<>>]
  /\ faults' = faults + 1
  /\ UNCHANGED <<folder, host, left, copy, payload, listed, target, unmirrored, edited,
                 unsafe, rewound, rewinds>>

------------------------------------------------------------------------------
(* CheckpointStore.load and restore.                                        *)
Rewind(r) ==
  /\ target = NoRun /\ rewinds < MaxRewinds /\ r \in ToSet(listed)
  /\ target' = r /\ unmirrored' = Path
  /\ rewound' = r /\ rewinds' = rewinds + 1
  /\ UNCHANGED <<folder, snapshots, edited, unsafe, faults>>

\* _mirror: first what the snapshot has, then what it does not have.
MirrorFile(p) ==
  /\ target # NoRun /\ p \in unmirrored
  /\ \/ copy[target][p] # Absent
     \/ \A q \in unmirrored : copy[target][q] = Absent
  /\ folder' = [folder EXCEPT ![p] = copy[target][p]]
  /\ unmirrored' = unmirrored \ {p}
  /\ UNCHANGED <<snapshots, target, history>>

\* The restore is over; or it was cut short.
Restored ==
  /\ target # NoRun /\ unmirrored = {}
  /\ target' = NoRun
  /\ UNCHANGED <<folder, snapshots, unmirrored, history>>

CutShort ==
  /\ target # NoRun /\ faults < MaxFaults
  /\ target' = NoRun /\ rewound' = NoRun /\ faults' = faults + 1
  /\ UNCHANGED <<folder, snapshots, unmirrored, edited, unsafe, rewinds>>

Next ==
  \/ \E r \in Run : \/ FirstEdit(r) \/ Add(r) \/ SaveIndex(r) \/ SnapshotFails(r) \/ Rewind(r)
                    \/ \E p \in Path : CopyFile(r, p) \/ Edit(r, p)
  \/ \E h \in Process : ProcessEnds(h)
  \/ \E p \in Path : MirrorFile(p)
  \/ Restored \/ CutShort

Spec == Init /\ [][Next]_vars

------------------------------------------------------------------------------
\* A listed snapshot is what to go back to: it is whole and has no edit of the run it was
\* taken for, whatever the other runs did meanwhile, and a restore that ran to its end with
\* nobody editing leaves in the folder what the snapshot has and nothing besides, also
\* after one that was cut short (checkpoint.py 71-77 and 255-261).
RewindUndoesTheRun ==
  /\ \A r \in ToSet(listed) : left[r] = {} /\ \A p \in Path : r \notin copy[r][p]
  /\ (target = NoRun /\ rewound # NoRun) => folder = copy[rewound]

\* A run that edited the folder can be undone by a later process (checkpoint.py 237-238:
\* "two runs on the same folder share one store (and a later `rewind` finds it)"), unless
\* its snapshot failed.  TLC refutes it: a process starts from an empty list and its first
\* snapshot replaces the index of the earlier ones.
LaterRewindFindsIt == edited \ unsafe \subseteq ToSet(listed)

\* A rewind deletes only what came into the folder since (checkpoint.py 102: "any file the
\* target has that the snapshot doesn't - created since, so drop it").  TLC refutes it: the
\* files under the skipped directories are in no snapshot.
DropsOnlyTheNew ==
  (rewound # NoRun /\ edited = {}) => \A p \in Original : folder[p] # Absent

===============================================================================
