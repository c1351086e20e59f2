----------------------------- MODULE FileStore -----------------------------
(***************************************************************************)
(* What the inode layer promises: files are sequences of bytes that only a *)
(* write to them changes, that grow when written past their end, and that  *)
(* stay readable after their removal until the last opener has gone.       *)
(* Inode is shown to implement this specification.                         *)
(***************************************************************************)
EXTENDS Integers

CONSTANTS
  Ids,      \* identities of files
  MaxLen,   \* no file is longer
  Buffers   \* what writes write: non-empty runs of bytes, counted from 0

VARIABLE file   \* the bytes of each file that exists, counted from 0

Init == file = << >>

Others(id) == \A x \in DOMAIN file \ {id} : file'[x] = file[x]

\* A new file is all zeros.
Create(id) ==
  /\ id \notin DOMAIN file
  /\ DOMAIN file' = DOMAIN file \cup {id}
  /\ Others(id)
  /\ \E n \in 0..MaxLen : file'[id] = [i \in 0..n-1 |-> 0]

\* The bytes of a buffer stand at some offset, the file grows as far as
\* needed, every other byte it had and every other file stay.  Nothing is
\* promised of the bytes between the old end and the offset.
Write(id) ==
  LET old == DOMAIN file[id]
  IN  /\ DOMAIN file' = DOMAIN file
      /\ Others(id)
      /\ \E offset \in 0..MaxLen, buffer \in Buffers :
           LET written == {offset + i : i \in DOMAIN buffer}
           IN  /\ DOMAIN file'[id] = old \cup written \cup 0..offset-1
               /\ \A i \in old \ written : file'[id][i] = file[id][i]
               /\ \A i \in DOMAIN buffer : file'[id][offset + i] = buffer[i]

\* The last opener of a removed file has closed it.
Delete(id) ==
  /\ DOMAIN file' = DOMAIN file \ {id}
  /\ Others(id)

Next ==
  \/ \E id \in Ids : Create(id)
  \/ \E id \in DOMAIN file : Write(id) \/ Delete(id)

Spec == Init /\ [][Next]_file
=============================================================================
