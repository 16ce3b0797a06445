------------------------------ MODULE Contacts ------------------------------
(***************************************************************************)
(* Contacts/contacts.c: people in a doubly linked list that is saved to    *)
(* and loaded from files. The program has one thread, but it can be killed *)
(* anywhere, and the loops over the list and over a file are a step for    *)
(* each turn.                                                              *)
(*                                                                         *)
(* print_entry and search_entry change nothing and are left out, and so is *)
(* contacts.count, which nothing reads. Names and numbers fit in their     *)
(* arrays; what does not is a phone that has grown. Files hold lines that  *)
(* save_file has written whole: one without a comma, from a full disk or   *)
(* another program, sends parser_token's search for it past the buffer.    *)
(***************************************************************************)
EXTENDS Integers, SequencesExt

CONSTANTS Nodes,        (* bound: blocks of memory for struct person       *)
          NullPtr,
          Names, Numbers, Files,
          BeforeComma,  (* each name up to its first comma                 *)
          MaxLabels     (* labels before a number that fit in a phone      *)

ASSUME NodesAssumption == NullPtr \notin Nodes
ASSUME NamesAssumption == BeforeComma \in [Names -> Names] /\ MaxLabels \in Nat

VARIABLES
  people,      \* cts->people, the head of the list
  prev, next,  \* the links of each node
  person,      \* name and phone in each node, NullPtr if it is not allocated
  pc,          \* "menu", "search" (for delete_entry), "save", "load", "down",
               \* "spin" (in load_file, on a file that cannot be read)
  item,        \* the cursor of person_search and save_file
  key,         \* the name to delete
  file,        \* the file that is saved to or loaded from
  line,        \* lines that load_file has read
  disk,        \* the lines of each file
  order        \* history: the nodes, in the order of the list

listVars == <<people, prev, next, person, order>>
vars == <<listVars, pc, item, key, file, line, disk>>

\* struct person. A phone is a number behind some labels "phone:".
Person == [name : Names, number : Numbers, labels : 0 .. MaxLabels]

ASSUME PersonAssumption == NullPtr \notin Person

Pointers == Nodes \cup {NullPtr}

Init ==
  /\ people = NullPtr /\ order = <<>>
  /\ prev = [n \in Nodes |-> NullPtr] /\ next = [n \in Nodes |-> NullPtr]
  /\ person = [n \in Nodes |-> NullPtr]
  /\ pc = "menu" /\ item = NullPtr /\ key \in Names
  /\ file \in Files /\ line = 0 /\ disk = [f \in Files |-> <<>>]

-----------------------------------------------------------------------------
(* The list *)

Allocated == {n \in Nodes : person[n] # NullPtr}

\* Fault: the old head's prev is not set.
ListInsertOneWay(n, p) ==
  /\ next' = [next EXCEPT ![n] = people]
  /\ prev' = [prev EXCEPT ![n] = NullPtr]
  /\ people' = n
  /\ person' = [person EXCEPT ![n] = p]
  /\ order' = Cons(n, order)

\* LIST_INSERT of a new node for p.
ListInsert(n, p) ==
  /\ next' = [next EXCEPT ![n] = people]
  /\ prev' = [m \in Nodes |-> IF m = n THEN NullPtr ELSE IF m = people THEN n ELSE prev[m]]
  /\ people' = n
  /\ person' = [person EXCEPT ![n] = p]
  /\ order' = Cons(n, order)

\* List_REMOVE and free.
ListRemove(n) ==
  /\ next' = [m \in Nodes |-> IF m = n THEN NullPtr ELSE IF m = prev[n] THEN next[n] ELSE next[m]]
  /\ prev' = [m \in Nodes |-> IF m = n THEN NullPtr ELSE IF m = next[n] THEN prev[n] ELSE prev[m]]
  /\ people' = IF people = n THEN next[n] ELSE people
  /\ person' = [person EXCEPT ![n] = NullPtr]
  /\ \E i \in DOMAIN order : order[i] = n /\ order' = RemoveAt(order, i)

-----------------------------------------------------------------------------
(* The entries of the menu *)

\* insert_entry. Without memory it returns -2 and nothing has changed.
InsertEntry ==
  /\ pc = "menu"
  /\ \E n \in Nodes \ Allocated, p \in Person : p.labels = 0 /\ ListInsert(n, p)
  /\ UNCHANGED <<pc, item, key, file, line, disk>>

\* delete_entry, up to the search. The pointer that scanf writes through is
\* not initialized: the program may be stopped here (see Stop).
DeleteEntry ==
  /\ pc = "menu" /\ pc' = "search"
  /\ key' \in Names /\ item' = people
  /\ UNCHANGED <<listVars, file, line, disk>>

\* Fault: item = item->next is forgotten.
SearchStays ==
  /\ pc = "search" /\ item # NullPtr /\ person[item].name # key
  /\ UNCHANGED vars

\* person_search, a turn of the loop.
SearchNext ==
  /\ pc = "search" /\ item # NullPtr /\ person[item].name # key
  /\ item' = next[item]
  /\ UNCHANGED <<listVars, pc, key, file, line, disk>>

\* "Person don't Exit".
NotFound ==
  /\ pc = "search" /\ item = NullPtr /\ pc' = "menu"
  /\ UNCHANGED <<listVars, item, key, file, line, disk>>

Found ==
  /\ pc = "search" /\ item # NullPtr /\ person[item].name = key
  /\ ListRemove(item)
  /\ pc' = "menu" /\ item' = NullPtr
  /\ UNCHANGED <<key, file, line, disk>>

\* Fault: the file is opened with "a".
SaveEntryAppends ==
  /\ pc = "menu" /\ pc' = "save"
  /\ file' \in Files /\ item' = people
  /\ UNCHANGED <<listVars, key, line, disk>>

\* save_entry: fopen with "w" empties the file. When it fails nothing changes.
SaveEntry ==
  /\ pc = "menu" /\ pc' = "save"
  /\ file' \in Files /\ item' = people
  /\ disk' = [disk EXCEPT ![file'] = <<>>]
  /\ UNCHANGED <<listVars, key, line>>

\* A turn of the loop of save_file: fprintf and fflush.
SaveNext ==
  /\ pc = "save" /\ item # NullPtr
  /\ disk' = [disk EXCEPT ![file] = Append(@, person[item])]
  /\ item' = next[item]
  /\ UNCHANGED <<listVars, pc, key, file, line>>

SaveDone ==
  /\ pc = "save" /\ item = NullPtr /\ pc' = "menu"
  /\ UNCHANGED <<listVars, item, key, file, line, disk>>

LoadEntry ==
  /\ pc = "menu" /\ pc' = "load"
  /\ file' \in Files /\ line' = 0
  /\ UNCHANGED <<listVars, item, key, disk>>

\* parser_token copies the name up to the comma, and then all that comes
\* after a space but the spaces: the label in front of the number as well, and
\* the end of the line, which makes an empty line, to be skipped, in the next
\* file.
ParserToken(p) ==
  [name |-> BeforeComma[p.name], number |-> p.number, labels |-> p.labels + 1]

\* A turn of the loop of load_file.
LoadNext ==
  /\ pc = "load" /\ line < Len(disk[file])
  /\ disk[file][line + 1].labels < MaxLabels
  /\ \E n \in Nodes \ Allocated : ListInsert(n, ParserToken(disk[file][line + 1]))
  /\ line' = line + 1
  /\ UNCHANGED <<pc, item, key, file, disk>>

\* A read error that stays, at any line: at the first if the file is a
\* directory, which fopen opens. fgets then stores nothing, which nobody
\* checks, the empty buffer is skipped, and feof stays false: load_file turns
\* until the process is killed.
LoadFails ==
  /\ pc = "load" /\ pc' = "spin"
  /\ UNCHANGED <<listVars, item, key, file, line, disk>>

\* The end of the file; or malloc fails, which may happen at any line.
LoadDone ==
  /\ pc = "load" /\ pc' = "menu"
  /\ line < Len(disk[file]) => disk[file][line + 1].labels < MaxLabels
  /\ UNCHANGED <<listVars, item, key, file, line, disk>>

\* The process ends. Memory is gone, what has been flushed is not.
Exit ==
  /\ pc' = "down" /\ people' = NullPtr /\ item' = NullPtr /\ order' = <<>>
  /\ prev' = [n \in Nodes |-> NullPtr] /\ next' = [n \in Nodes |-> NullPtr]
  /\ person' = [n \in Nodes |-> NullPtr]
  /\ UNCHANGED <<key, file, line, disk>>

\* A phone that has grown past its array overruns the stack of load_file.
LoadOverrun ==
  /\ pc = "load" /\ line < Len(disk[file])
  /\ disk[file][line + 1].labels >= MaxLabels
  /\ Exit

\* Another key in the menu, the wild pointer of scanf, or a signal, anywhere.
Stop == pc # "down" /\ Exit

Start ==
  /\ pc = "down" /\ pc' = "menu"
  /\ UNCHANGED <<listVars, item, key, file, line, disk>>

LoopStep == \/ SearchNext \/ NotFound \/ Found \/ SaveNext \/ SaveDone
            \/ LoadNext \/ LoadFails \/ LoadDone \/ LoadOverrun

Next == InsertEntry \/ DeleteEntry \/ SaveEntry \/ LoadEntry \/ LoopStep \/ Stop \/ Start

Spec == Init /\ [][Next]_vars

\* The loops run on; users do what they like.
FairSpec == Spec /\ WF_vars(LoopStep)

-----------------------------------------------------------------------------
(* Properties *)

TypeOK ==
  /\ people \in Pointers /\ item \in Pointers
  /\ prev \in [Nodes -> Pointers] /\ next \in [Nodes -> Pointers]
  /\ person \in [Nodes -> Person \cup {NullPtr}]
  /\ pc \in {"menu", "search", "save", "load", "spin", "down"}
  /\ key \in Names /\ file \in Files /\ line \in Nat
  /\ disk \in [Files -> Seq(Person)]
  /\ order \in Seq(Nodes)

\* After any sequence of insertions and removals the list is one: from the
\* head next leads through every allocated node, once, to the null pointer,
\* and prev leads back.
ListLinked ==
  /\ Range(order) = Allocated
  /\ \A i, j \in DOMAIN order : order[i] = order[j] => i = j
  /\ people = IF order = <<>> THEN NullPtr ELSE order[1]
  /\ \A i \in DOMAIN order :
       /\ next[order[i]] = IF i = Len(order) THEN NullPtr ELSE order[i + 1]
       /\ prev[order[i]] = IF i = 1 THEN NullPtr ELSE order[i - 1]

\* The list behaves like a sequence of people: delete removes the first one
\* of its name, a file that has been saved holds them all in order, one that
\* was being saved when the process was killed the first ones.
Book == INSTANCE AddressBook WITH
  book <- [i \in DOMAIN order |-> person[order[i]]],
  job <- CASE pc = "search" -> "menu" [] pc = "spin" -> "load" [] OTHER -> pc

Implements == Book!Spec

\* The loops over the list and over a file come to an end, in the menu or with
\* the process. The one that need not is that of load_file, over a file that
\* cannot be read.
LoopsEnd == pc \in {"search", "save", "load"} ~> pc \in {"menu", "down", "spin"}

\* Load brings back the people that the file was saved from.
LoadBringsBack ==
  (pc = "load" /\ line = Len(disk[file])) =>
    \A i \in DOMAIN disk[file] : \E n \in Allocated : person[n] = disk[file][i]
=============================================================================
