------------------------------- MODULE Files -------------------------------
(***************************************************************************)
(* Directories, path names, current directories and file descriptors       *)
(* (filesys/directory.c, filesys/filesys.c and the file calls of           *)
(* userprog/syscall.c).                                                    *)
(*                                                                         *)
(* A path is a sequence of names and whether it starts with a slash.  The  *)
(* contents of files are those of module Inode; here an inode is what the  *)
(* directory layer sees of it.  A directory is the sequence of its slots,  *)
(* a plain file has slots too: it may become a current directory.          *)
(*                                                                         *)
(* One process makes calls at a time: each process waits for the child it  *)
(* started, and processes form a stack.  A child uses the struct dir of    *)
(* its parent.  machine = "lost" is a use of a freed struct dir or of a    *)
(* free sector as an inode, or a directory made on a full disk, over the   *)
(* sector of the free map.                                                 *)
(***************************************************************************)
EXTENDS Naturals, FiniteSets, SequencesExt

CONSTANTS
  Names,        \* names of files
  Sectors,      \* where inodes can be, the root among them
  Paths,        \* what open and chdir are called with
  MakePaths,    \* what create and mkdir are called with: new names
  RemovePaths,  \* what remove is called with: not the parent
  MaxProcs, MaxFd, MaxInodes, MaxCount,   \* bounds
  NULL

ROOT == 1
FREED == 0   \* the inode of a struct dir, or of an entry, that is no longer there

\* Without these, dir_lookup or parse_path use a variable they never set.
WellFormed(path) ==
  /\ path.abs \in BOOLEAN /\ path.names # << >>
  /\ path.names \in Seq(Names \cup {".", ".."})
  /\ \A n \in {Len(path.names), Len(path.names) - 1} :
       (path.abs /\ n > 0) \/ n > 1 => \E i \in 1..n : path.names[i] # "."

ASSUME FilesAssumption ==
  /\ ROOT \in Sectors /\ Sectors \subseteq Nat \ {FREED} /\ IsFiniteSet(Sectors)
  /\ "." \notin Names /\ ".." \notin Names
  /\ \A path \in Paths \cup MakePaths \cup RemovePaths : WellFormed(path)
  /\ \A path \in MakePaths : Last(path.names) \in Names
  /\ \A path \in RemovePaths : Last(path.names) # ".."
  /\ {MaxProcs, MaxFd, MaxInodes, MaxCount} \subseteq Nat

VARIABLES
  inodes,    \* by sector, those in use
  stack,     \* the processes, the running one last
  next_fd,
  born,      \* history: inodes ever made
  made,      \* history: the name and the inode the last call made
  machine

vars == <<inodes, stack, next_fd, born, made, machine>>

\* struct inode, and what the disk holds of it.  id tells inodes apart that
\* follow each other in a sector.
NewInode(dir, id) ==
  [dir |-> dir, slots |-> << >>, open_cnt |-> 0, removed |-> FALSE, id |-> id]

\* struct dir_entry.
InUse(name, s) == [name |-> name, inode_sector |-> s]
Unused == InUse("", FREED)

\* curr_dir; it is the parent's own struct dir when it is shared.
NewProcess(cwd, shared) == [curr_dir |-> cwd, shared |-> shared, fds |-> << >>]

Init ==
  /\ inodes = (ROOT :> NewInode(TRUE, 0))
  /\ stack = <<NewProcess(ROOT, FALSE)>>
  /\ next_fd = 2 /\ born = 0 /\ made = NULL /\ machine = "running"

-----------------------------------------------------------------------------
(* Inodes and directories.  ino is the function inodes in the course of a  *)
(* call.                                                                   *)

current == Last(stack)
curr_dir == current.curr_dir
SetCurrent(proc) == Front(stack) \o <<proc>>

\* inode_open.  The root is never removed, and its count is not kept.
inode_open(ino, s) == IF s = ROOT THEN ino ELSE [ino EXCEPT ![s].open_cnt = @ + 1]

\* Mutant: a removed inode is released while others have it open.
MutInodeClose(ino, s) ==
  IF s = ROOT THEN ino
  ELSE IF ino[s].open_cnt > 1 /\ ~ino[s].removed THEN [ino EXCEPT ![s].open_cnt = @ - 1]
  ELSE IF ino[s].removed THEN [t \in DOMAIN ino \ {s} |-> ino[t]]
  ELSE [ino EXCEPT ![s].open_cnt = 0]

\* inode_close: the last one releases the sectors of a removed inode.
inode_close(ino, s) ==
  IF s = ROOT THEN ino
  ELSE IF ino[s].open_cnt > 1 THEN [ino EXCEPT ![s].open_cnt = @ - 1]
  ELSE IF ino[s].removed THEN [t \in DOMAIN ino \ {s} |-> ino[t]]
  ELSE [ino EXCEPT ![s].open_cnt = 0]

\* lookup: the slots of that name.
lookup(ino, s, name) ==
  {i \in DOMAIN ino[s].slots : ino[s].slots[i] # Unused /\ ino[s].slots[i].name = name}
Entry(ino, s, name) == ino[s].slots[Min(lookup(ino, s, name))].inode_sector

\* dir_add: into the first slot that is not in use, or at the end.
dir_add(ino, s, name, sector) ==
  LET unused == {i \in DOMAIN ino[s].slots : ino[s].slots[i] = Unused} IN
    IF lookup(ino, s, name) # {} THEN ino
    ELSE IF unused = {} THEN [ino EXCEPT ![s].slots = Append(@, InUse(name, sector))]
    ELSE [ino EXCEPT ![s].slots[Min(unused)] = InUse(name, sector)]

\* dir_readdir: the next slot with an entry other than "..", or 0.
dir_readdir(ino, s, pos) ==
  LET found == {i \in DOMAIN ino[s].slots :
                  i > pos /\ ino[s].slots[i] # Unused /\ ino[s].slots[i].name # ".."}
  IN  IF found = {} THEN 0 ELSE Min(found)

\* The free sectors; free_map_allocate takes the first.
FreeSectors(ino) == Sectors \ DOMAIN ino

-----------------------------------------------------------------------------
(* Path names.                                                             *)

\* A lookup: where it stands, and the inodes with the counts it took.
At(s, ino) == [inode |-> s, ino |-> ino]

\* One token: "." stays, a name that is not there ends at NULL.
Step(here, name) ==
  IF here.inode \in {NULL, FREED} \/ name = "." THEN here
  ELSE IF lookup(here.ino, here.inode, name) = {} THEN At(NULL, here.ino)
  ELSE LET s == Entry(here.ino, here.inode, name) IN
         IF s \in DOMAIN here.ino THEN At(s, inode_open(here.ino, s)) ELSE At(FREED, here.ino)

\* dir_lookup from dir.  The empty path is the current directory, which is not
\* opened again; "." alone is; what a path goes through stays open.
dir_lookup(ino, dir, names) ==
  IF names = << >> THEN At(curr_dir, ino)
  ELSE IF names = <<".">> THEN At(dir, inode_open(ino, dir))
  ELSE FoldLeft(Step, At(dir, ino), names)

\* parse_path.
Parent(path) == Front(path.names)
file_name(path) == Last(path.names)

\* Where filesys_open and filesys_remove look for the last name.
Directory(ino, path) ==
  IF Parent(path) = << >>
  THEN At(IF path.abs THEN ROOT ELSE curr_dir, ino)
  ELSE dir_lookup(ino, IF path.abs THEN ROOT ELSE curr_dir, Parent(path))

filesys_open(ino, path) ==
  LET d == Directory(ino, path) IN
    IF ino[curr_dir].removed THEN At(NULL, ino)
    ELSE IF d.inode \in {NULL, FREED} THEN d
    ELSE dir_lookup(d.ino, d.inode, <<file_name(path)>>)

\* Mutant: every new name goes to the current directory.
MutCreateIn(ino, path) == At(curr_dir, ino)

\* The directory filesys_create adds to: the parent of "/name" is the empty
\* path, and so the current directory.
CreateIn(ino, path) ==
  dir_lookup(ino, IF path.abs THEN ROOT ELSE curr_dir, Parent(path))

-----------------------------------------------------------------------------
(* System calls.                                                           *)

Running == machine = "running" /\ curr_dir # FREED

\* What a call leaves behind.  No inode is opened more than MaxCount times.
Return(ino, newest, name) ==
  /\ \A s \in DOMAIN ino : ino[s].open_cnt <= MaxCount
  /\ inodes' = ino
  /\ born' = newest
  /\ made' = name

\* A call that uses the current directory after its struct was freed, or that
\* follows an entry to a sector that was released.
Astray ==
  /\ machine = "running"
  /\ curr_dir # FREED => \E path \in Paths : dir_lookup(inodes, curr_dir, path.names).inode = FREED
  /\ machine' = "lost"
  /\ UNCHANGED <<inodes, stack, next_fd, born, made>>

\* The file opened to see whether the name exists is not closed.
create(path) ==
  /\ Running /\ born < MaxInodes
  /\ LET o == filesys_open(inodes, path)
         d == CreateIn(o.ino, path)
         s == Min(FreeSectors(d.ino))
     IN  /\ FREED \notin {o.inode, d.inode}
         /\ IF o.inode # NULL \/ inodes[curr_dir].removed THEN Return(o.ino, born, NULL)
            ELSE IF \/ d.inode = NULL \/ FreeSectors(d.ino) = {}
                    \/ lookup(d.ino, d.inode, file_name(path)) # {}
                 THEN Return(d.ino, born, NULL)
            ELSE Return(dir_add((s :> NewInode(FALSE, born + 1)) @@ d.ino,
                                d.inode, file_name(path), s),
                        born + 1, [path |-> path, inode |-> s])
  /\ UNCHANGED <<stack, next_fd, machine>>

\* Mutant: the new directory is not told its parent.
MutDirCreate(ino, parent, name, s) ==
  dir_add((s :> NewInode(TRUE, born + 1)) @@ ino, parent, name, s)

\* dir_create: the name in the parent, ".." in the directory.
dir_create(ino, parent, name, s) ==
  LET named == dir_add((s :> NewInode(TRUE, born + 1)) @@ ino, parent, name, s)
      inside == dir_add(inode_open(named, s), s, "..", parent)
  IN  inode_close(inside, s)

\* mkdir takes every path from the current directory, and closes the parent
\* when it is another one.
mkdir(path) ==
  /\ Running /\ born < MaxInodes
  /\ LET o == dir_lookup(inodes, curr_dir, path.names)
         d == dir_lookup(o.ino, curr_dir, Parent(path))
         s == Min(FreeSectors(d.ino))
         done == dir_create(d.ino, d.inode, file_name(path), s)
     IN  /\ FREED \notin {o.inode, d.inode}
         /\ \/ o.inode # NULL /\ Return(o.ino, born, NULL) /\ UNCHANGED machine
            \/ /\ o.inode = NULL /\ d.inode = NULL
               /\ Return(d.ino, born, NULL) /\ UNCHANGED machine
            \/ /\ o.inode = NULL /\ d.inode # NULL /\ FreeSectors(d.ino) = {}
               /\ machine' = "lost" /\ UNCHANGED <<inodes, born, made>>
            \/ /\ o.inode = NULL /\ d.inode # NULL /\ FreeSectors(d.ino) # {}
               /\ Return(IF d.inode # curr_dir THEN inode_close(done, d.inode) ELSE done,
                         born + 1, [path |-> path, inode |-> s])
               /\ UNCHANGED machine
  /\ UNCHANGED <<stack, next_fd>>

\* The processes that use the struct dir of the running one.
Sharers ==
  {i \in DOMAIN stack : \A j \in DOMAIN stack : j > i => stack[j].shared}

\* chdir closes the struct dir it had, also under a parent that still uses it.
chdir(path) ==
  /\ Running
  /\ LET d == dir_lookup(inodes, curr_dir, path.names) IN
       \/ d.inode = NULL /\ Return(d.ino, born, NULL) /\ UNCHANGED stack
       \/ /\ d.inode \notin {NULL, FREED}
          /\ Return(inode_close(d.ino, curr_dir), born, NULL)
          /\ stack' = [i \in DOMAIN stack |->
                 IF i = Len(stack)
                 THEN [stack[i] EXCEPT !.curr_dir = d.inode, !.shared = FALSE]
                 ELSE IF i \in Sharers THEN [stack[i] EXCEPT !.curr_dir = FREED]
                 ELSE stack[i]]
  /\ UNCHANGED <<next_fd, machine>>

\* Mutant: a directory with entries is removed too.
MutHolds(ino, s) == FALSE

\* dir_remove refuses a directory with an entry other than "..".
Holds(ino, s) == ino[s].dir /\ dir_readdir(ino, s, 0) # 0

dir_remove(ino, s, name) ==
  LET i == Min(lookup(ino, s, name))
      t == Entry(ino, s, name)
      erased == [ino EXCEPT ![s].slots[i] = Unused, ![t].removed = TRUE]
  IN  IF lookup(ino, s, name) = {} \/ Holds(ino, t) THEN ino
      ELSE inode_close(inode_open(erased, t), t)

remove(path) ==
  /\ Running
  /\ LET d == Directory(inodes, path) IN
       /\ d.inode # FREED
       /\ IF d.inode = NULL THEN Return(d.ino, born, NULL)
          ELSE Return(dir_remove(d.ino, d.inode, file_name(path)), born, NULL)
  /\ UNCHANGED <<stack, next_fd, machine>>

\* open; isdir and the struct dir of a directory go into the descriptor.
open(path) ==
  /\ Running /\ next_fd <= MaxFd
  /\ LET o == filesys_open(inodes, path)
         fd_elem == [inode |-> o.inode, isdir |-> o.ino[o.inode].dir, pos |-> 0,
                     id |-> o.ino[o.inode].id]
     IN  /\ o.inode # FREED
         /\ Return(o.ino, born, NULL)
         /\ IF o.inode = NULL THEN UNCHANGED <<stack, next_fd>>
            ELSE /\ stack' = SetCurrent([current EXCEPT !.fds = (next_fd :> fd_elem) @@ @])
                 /\ next_fd' = next_fd + 1
  /\ UNCHANGED machine

\* close; the struct dir of a directory is not freed.
close(fd) ==
  /\ machine = "running" /\ fd \in DOMAIN current.fds
  /\ Return(inode_close(inodes, current.fds[fd].inode), born, NULL)
  /\ stack' = SetCurrent([current EXCEPT !.fds = [f \in DOMAIN @ \ {fd} |-> @[f]]])
  /\ UNCHANGED <<next_fd, machine>>

\* The process and its descriptors are gone; its current directory stays open.
Exit ==
  /\ Len(stack) > 1
  /\ LET opened == SetToSeq(DOMAIN current.fds)
         Close(ino, fd) == inode_close(ino, current.fds[fd].inode)
     IN  Return(FoldLeft(Close, inodes, opened), born, NULL)
  /\ stack' = Front(stack)
  /\ UNCHANGED <<next_fd, machine>>

\* readdir of a plain file goes through a null struct dir: the process is ended.
readdir(fd) ==
  /\ machine = "running" /\ fd \in DOMAIN current.fds
  /\ LET e == current.fds[fd]
         i == dir_readdir(inodes, e.inode, e.pos)
     IN  IF ~e.isdir THEN Exit
         ELSE /\ stack' = SetCurrent([current EXCEPT !.fds[fd].pos =
                            IF i = 0 THEN Len(inodes[e.inode].slots) ELSE i])
              /\ Return(inodes, born, NULL)
              /\ UNCHANGED <<next_fd, machine>>

\* start_process: the child takes over the pointer to the current directory.
exec ==
  /\ machine = "running" /\ Len(stack) < MaxProcs
  /\ stack' = Append(stack, NewProcess(curr_dir, TRUE))
  /\ UNCHANGED <<inodes, next_fd, born, made, machine>>

exit == machine = "running" /\ Exit

Next ==
  \/ \E path \in MakePaths : create(path) \/ mkdir(path)
  \/ \E path \in Paths : chdir(path) \/ open(path)
  \/ \E path \in RemovePaths : remove(path)
  \/ \E fd \in 2..MaxFd : close(fd) \/ readdir(fd)
  \/ exec \/ exit \/ Astray

Spec == Init /\ [][Next]_vars

-----------------------------------------------------------------------------
(* Properties.                                                             *)

\* The types of the variables.
TypeOK ==
  /\ ROOT \in DOMAIN inodes /\ DOMAIN inodes \subseteq Sectors
  /\ \A s \in DOMAIN inodes :
       /\ inodes[s].dir \in BOOLEAN /\ inodes[s].removed \in BOOLEAN
       /\ inodes[s].open_cnt \in 0..MaxCount /\ inodes[s].id \in 0..MaxInodes
       /\ \A i \in DOMAIN inodes[s].slots :
            inodes[s].slots[i] \in {Unused} \cup
              [name : Names \cup {".."}, inode_sector : Sectors]
  /\ Len(stack) \in 1..MaxProcs
  /\ \A i \in DOMAIN stack :
       /\ stack[i].curr_dir \in Sectors \cup {FREED}
       /\ DOMAIN stack[i].fds \subseteq 2..next_fd-1
  /\ next_fd \in 2..MaxFd+1 /\ born \in 0..MaxInodes /\ machine \in {"running", "lost"}

\* The entries of an inode that lead down, as <<name, sector>>.
Children(ino, s) ==
  {<<e.name, e.inode_sector>> : e \in {f \in Range(ino[s].slots) : f # Unused /\ f.name # ".."}}

\* The inodes a path from the root can lead to, and the links to them.
Below(ino, S) == S \cup {c[2] : c \in UNION {Children(ino, s) : s \in S \cap DOMAIN ino}}
Reachable(ino) ==
  LET Deeper(S, i) == Below(ino, S) IN FoldLeft(Deeper, {ROOT}, [i \in 1..MaxInodes |-> i])
Links(ino) ==
  UNION {{<<s, c[1], c[2]>> : c \in Children(ino, s)} : s \in Reachable(ino) \cap DOMAIN ino}

\* The names under the root form a tree, whatever was made, removed, left open
\* or made current, in whatever order: every entry leads to an inode that is
\* there and not removed, no inode has two names, and ".." of a directory is
\* the directory that names it.
Tree ==
  machine = "running" =>
    LET links == Links(inodes) IN
      /\ \A s \in Reachable(inodes) : s \in DOMAIN inodes /\ ~inodes[s].removed
      /\ \A k, l \in links : (k[3] = l[3] \/ <<k[1], k[2]>> = <<l[1], l[2]>>) => k = l
      /\ \A l \in links : /\ l[3] # ROOT
                          /\ inodes[l[3]].dir => /\ lookup(inodes, l[3], "..") # {}
                                                 /\ Entry(inodes, l[3], "..") = l[1]

\* An inode in use is not released, and its sector not given to another: a
\* descriptor leads to the inode it was opened for, also after that was
\* removed, and the open count covers descriptors and current directories.
InUseKept ==
  machine = "running" =>
    LET own == {i \in DOMAIN stack : ~stack[i].shared}
        Users(s) == Cardinality({i \in own : stack[i].curr_dir = s})
                  + Cardinality({f \in 2..MaxFd : \E i \in DOMAIN stack :
                                   f \in DOMAIN stack[i].fds /\ stack[i].fds[f].inode = s})
    IN  /\ \A i \in DOMAIN stack : \A f \in DOMAIN stack[i].fds :
             LET e == stack[i].fds[f] IN e.inode \in DOMAIN inodes /\ inodes[e.inode].id = e.id
        /\ \A s \in Sectors \ {ROOT} :
             Users(s) > 0 => s \in DOMAIN inodes /\ inodes[s].open_cnt >= Users(s)

\* A call adds one name, of an inode that had none, or takes one away, which is
\* not that of a directory with anything below it.
LeafByLeaf ==
  [][machine' = "running" =>
       LET old == Links(inodes)  new == Links(inodes') IN
         \/ new = old
         \/ \E l \in new : old = new \ {l} /\ l[3] \notin Reachable(inodes)
         \/ \E l \in old : l \notin new /\ (inodes[l[3]].dir => new = old \ {l})]_vars

Named(name) == filesys_open(inodes, name.path).inode = name.inode

\* What create or mkdir made is what open then finds under the same name, when
\* the name starts from a current directory that was not removed.
Created ==
  machine = "running" /\ made # NULL /\ ~made.path.abs /\ ~inodes[curr_dir].removed
    => Named(made)

=============================================================================
