----------------------------- MODULE NameSpace -----------------------------
(***************************************************************************)
(* What the calls of TecnicoFS make of its one directory (Exercise1/fs,    *)
(* operations.c), whatever tables and counters they do it with: a call     *)
(* adds or removes one entry, a file does not change its kind while it has *)
(* an entry, and it is gone with its last one.  A name may have several    *)
(* entries: tfs_link and tfs_sym_link take names that exist.               *)
(***************************************************************************)
EXTENDS Naturals

CONSTANTS Names, Targets, Files, None

VARIABLES
  entries,   \* how many entries each name has for each file
  files      \* what each file is

Nothing    == [is |-> "nothing", target |-> None]
File       == [is |-> "file", target |-> None]
LinkTo(q)  == [is |-> "symlink", target |-> q]

Init == /\ entries = [p \in Names |-> [f \in Files |-> 0]]
        /\ files = [f \in Files |-> Nothing]

Named(f) == {p \in Names : entries[p][f] > 0}

\* tfs_open with TFS_O_CREAT: a file for a name that has no entry.
Create(p, f) ==
  /\ \A g \in Files : entries[p][g] = 0
  /\ files[f] = Nothing
  /\ entries' = [entries EXCEPT ![p][f] = 1]
  /\ files' = [files EXCEPT ![f] = File]

\* tfs_sym_link: when the entry does not fit, the inode it took is lost.
SymLink(p, f, q) ==
  /\ files[f] = Nothing
  /\ \/ entries' = [entries EXCEPT ![p][f] = 1]
     \/ UNCHANGED entries
  /\ files' = [files EXCEPT ![f] = LinkTo(q)]

\* tfs_link: one more entry for a file that has one and is no link.
Link(p, f) ==
  /\ Named(f) # {} /\ files[f] = File
  /\ entries' = [entries EXCEPT ![p][f] = @ + 1]
  /\ UNCHANGED files

\* tfs_unlink: one entry less, and the file goes with its last one.
Unlink(p, f) ==
  /\ entries[p][f] > 0
  /\ entries' = [entries EXCEPT ![p][f] = @ - 1]
  /\ files' = IF Named(f) = {p} /\ entries[p][f] = 1
              THEN [files EXCEPT ![f] = Nothing] ELSE files

\* A call that changes something changes this much, and at one step.
Next ==
  /\ <<entries, files>> # <<entries, files>>'
  /\ \E p \in Names, f \in Files :
       \/ Create(p, f) \/ Link(p, f) \/ Unlink(p, f)
       \/ \E q \in Targets : SymLink(p, f, q)

Spec == Init /\ [][Next]_<<entries, files>>
=============================================================================
