------------------------------ MODULE FileStore ------------------------------
(***************************************************************************)
(* What a vfs.WriteFS promises the commands that share it: a tree of names, *)
(* files that live as long as a name or a handle leads to them, contents    *)
(* that change through writable handles alone, and a budget for the bytes   *)
(* held.  Each call takes effect at once or not at all.  There are no       *)
(* reference counts, byte counters, file positions or error values here:    *)
(* Memory is shown to implement this module.                                *)
(***************************************************************************)
EXTENDS Paths, FiniteSets

CONSTANTS
  Path,        \* valid names
  File,        \* identities of files and directories
  Root,        \* the directory "."
  Handle,      \* open files
  Byte,        \* file contents are sequences of bytes
  Limit,       \* how many bytes the filesystem holds
  MaxEntries   \* how many names it holds

VARIABLES
  tree,     \* the names, a function from a set of paths to files
  dirs,     \* the files in use that are directories
  content,  \* the bytes of each file
  open,     \* what each handle is open on, or NotOpen
  reply     \* the answer of the last call: was it refused, and what was read

names == <<tree, dirs, open>>
vars == <<tree, dirs, content, open, reply>>

NotOpen == [file |-> Root, read |-> FALSE, write |-> FALSE]

Done == [refused |-> FALSE, bytes |-> <<>>]
Refused == [refused |-> TRUE, bytes |-> <<>>]

\* The files a name or a handle leads to.
Held(t, o) == {t[p] : p \in DOMAIN t} \cup
              {o[h].file : h \in {g \in Handle : o[g] # NotOpen}}

Stored(c) == UNION {{f} \X DOMAIN c[f] : f \in File}

\* A file that nothing leads to any more gives its bytes back.
Contents(c) == content' = [f \in File |-> IF f \in Held(tree', open') THEN c[f] ELSE <<>>]

Directories(ds) == dirs' = ds \cap Held(tree', open')

IsEmptyDir(p) == \A q \in DOMAIN tree : Dir(q) = p => q = p

-----------------------------------------------------------------------------

Init ==
  /\ tree = [p \in {<<>>} |-> Root]
  /\ dirs = {Root}
  /\ content = [f \in File |-> <<>>]
  /\ open = [h \in Handle |-> NotOpen]
  /\ reply = Done

\* A refused call changes nothing.
Refuse == reply' = Refused /\ UNCHANGED <<names, content>>

\* A call that only looks, or that sets permissions, times or a position.
Look == reply' = Done /\ UNCHANGED <<names, content>>

\* What is read is a piece of the file the handle is open on.
Read(h) ==
  /\ open[h].read
  /\ LET c == content[open[h].file] IN
     \E i, j \in 0..Len(c) : reply' = [refused |-> FALSE, bytes |-> SubSeq(c, i + 1, j)]
  /\ UNCHANGED <<names, content>>

\* A new name for a file that was not in use, in an existing directory.
Enter(p, f, isDir) ==
  /\ p \notin DOMAIN tree
  /\ Dir(p) \in DOMAIN tree /\ tree[Dir(p)] \in dirs
  /\ Cardinality(DOMAIN tree) < MaxEntries
  /\ f \notin Held(tree, open)
  /\ tree' = [q \in DOMAIN tree \cup {p} |-> IF q = p THEN f ELSE tree[q]]
  /\ Directories(IF isDir THEN dirs \cup {f} ELSE dirs)
  /\ Contents(content)

Mkdir(p, f) ==
  /\ Enter(p, f, TRUE)
  /\ reply' = Done
  /\ UNCHANGED open

\* The new file is opened, or the call is refused for its flags only after it
\* has made the file.
Create(h, p, f) ==
  /\ Enter(p, f, FALSE)
  /\ \/ /\ open[h] = NotOpen
        /\ open' = [open EXCEPT ![h] = [file |-> f, read |-> open'[h].read,
                                        write |-> open'[h].write]]
        /\ reply' = Done
     \/ reply' = Refused /\ UNCHANGED open

\* Opening for writing may empty the file; directories open for reading alone.
Open(h, p) ==
  /\ open[h] = NotOpen
  /\ p \in DOMAIN tree
  /\ open' = [open EXCEPT ![h] = [file |-> tree[p], read |-> open'[h].read,
                                  write |-> open'[h].write]]
  /\ tree[p] \in dirs => ~open'[h].write
  /\ \/ content' = content
     \/ open'[h].write /\ content' = [content EXCEPT ![tree[p]] = <<>>]
  /\ reply' = Done
  /\ UNCHANGED <<tree, dirs>>

\* A write or a truncation, whatever the file is called by now.
Change(h) ==
  /\ open[h].write
  /\ content' = [content EXCEPT ![open[h].file] = content'[open[h].file]]
  /\ content'[open[h].file] \in Seq(Byte)
  /\ Cardinality(Stored(content')) <= Limit
  /\ reply' = Done
  /\ UNCHANGED names

Close(h) ==
  /\ open[h] # NotOpen
  /\ open' = [open EXCEPT ![h] = NotOpen]
  /\ tree' = tree
  /\ Directories(dirs)
  /\ Contents(content)
  /\ reply' = Done

\* Removes one file or empty directory.
Remove(p) ==
  /\ p \in DOMAIN tree \ {<<>>}
  /\ IsEmptyDir(p)
  /\ tree' = [q \in DOMAIN tree \ {p} |-> tree[q]]
  /\ open' = open
  /\ Directories(dirs)
  /\ Contents(content)
  /\ reply' = Done

\* All of p's subtree moves at once; what q named before is replaced if it is
\* of the same kind and empty.
Rename(p, q) ==
  LET moved == {r \in DOMAIN tree : Under(r, p)}
      target == {Rebase(r, p, q) : r \in moved}
  IN /\ p \in DOMAIN tree \ {<<>>}
     /\ q # <<>> /\ ~Under(q, p)
     /\ Dir(q) \in DOMAIN tree /\ tree[Dir(q)] \in dirs
     /\ q \in DOMAIN tree => /\ tree[p] \in dirs <=> tree[q] \in dirs
                             /\ IsEmptyDir(q)
     /\ tree' = [r \in (DOMAIN tree \ moved) \cup target |->
                   IF r \in target THEN tree[Rebase(r, q, p)] ELSE tree[r]]
     /\ open' = open
     /\ Directories(dirs)
     /\ Contents(content)
     /\ reply' = Done

Next ==
  \/ Refuse
  \/ Look
  \/ \E h \in Handle : Read(h) \/ Change(h) \/ Close(h)
  \/ \E p \in Path :
       \/ Remove(p)
       \/ \E q \in Path : Rename(p, q)
       \/ \E f \in File : Mkdir(p, f)
       \/ \E h \in Handle : Open(h, p) \/ \E f \in File : Create(h, p, f)

Spec == Init /\ [][Next]_vars
=============================================================================
