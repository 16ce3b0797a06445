---------------------------- MODULE AddressBook ----------------------------
(***************************************************************************)
(* What an address book promises: a sequence of people, newest first, kept *)
(* in files on demand. Contacts implements it with a linked list.          *)
(***************************************************************************)
EXTENDS Integers, SequencesExt

CONSTANTS Names, Numbers, Files,
          BeforeComma,  (* each name up to its first comma                 *)
          MaxLabels     (* labels before a number that fit in a phone      *)

(***************************************************************************)
(* A phone is a number behind some labels: save writes "phone: " before    *)
(* it, and parser_token leaves out the space only.                         *)
(***************************************************************************)
Person == [name : Names, number : Numbers, labels : 0 .. MaxLabels]

\* What load reads from the line that save has written for p.
ReadBack(p) == [name |-> BeforeComma[p.name], number |-> p.number, labels |-> p.labels + 1]

VARIABLES
  book,  \* the people
  disk,  \* the lines of each file: one that does not exist is as good as empty
  job,   \* what is going on: "menu", "save", "load", or "down"
  file,  \* the file that is saved to or loaded from
  line   \* lines that have been loaded

vars == <<book, disk, job, file, line>>

Init ==
  /\ book = <<>> /\ disk = [f \in Files |-> <<>>]
  /\ job = "menu" /\ file \in Files /\ line = 0

Add(p) ==
  /\ job = "menu"
  /\ book' = Cons(p, book)
  /\ UNCHANGED <<disk, job, file, line>>

\* The first one of that name.
Delete(i) ==
  /\ job = "menu" /\ i \in DOMAIN book
  /\ \A j \in 1 .. i - 1 : book[j].name # book[i].name
  /\ book' = RemoveAt(book, i)
  /\ UNCHANGED <<disk, job, file, line>>

BeginSave(f) ==
  /\ job = "menu" /\ job' = "save" /\ file' = f
  /\ disk' = [disk EXCEPT ![f] = <<>>]
  /\ UNCHANGED <<book, line>>

SaveLine ==
  /\ job = "save" /\ Len(disk[file]) < Len(book)
  /\ disk' = [disk EXCEPT ![file] = Append(@, book[Len(@) + 1])]
  /\ UNCHANGED <<book, job, file, line>>

\* A save is over when the file holds the book.
EndSave ==
  /\ job = "save" /\ disk[file] = book /\ job' = "menu"
  /\ UNCHANGED <<book, disk, file, line>>

BeginLoad(f) ==
  /\ job = "menu" /\ job' = "load" /\ file' = f /\ line' = 0
  /\ UNCHANGED <<book, disk>>

LoadLine ==
  /\ job = "load" /\ line < Len(disk[file])
  /\ disk[file][line + 1].labels < MaxLabels
  /\ book' = Cons(ReadBack(disk[file][line + 1]), book)
  /\ line' = line + 1
  /\ UNCHANGED <<disk, job, file>>

\* At the end of the file, or out of memory.
EndLoad ==
  /\ job = "load" /\ job' = "menu"
  /\ UNCHANGED <<book, disk, file, line>>

\* The files outlive the program.
Stop ==
  /\ job # "down" /\ job' = "down" /\ book' = <<>>
  /\ UNCHANGED <<disk, file, line>>

Start ==
  /\ job = "down" /\ job' = "menu"
  /\ UNCHANGED <<book, disk, file, line>>

Next ==
  \/ \E p \in Person : p.labels = 0 /\ Add(p)
  \/ \E i \in DOMAIN book : Delete(i)
  \/ \E f \in Files : BeginSave(f) \/ BeginLoad(f)
  \/ SaveLine \/ EndSave \/ LoadLine \/ EndLoad \/ Stop \/ Start

Spec == Init /\ [][Next]_vars
=============================================================================
