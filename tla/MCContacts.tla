----------------------------- MODULE MCContacts -----------------------------
(* Two names, one of which is the other with a comma and more behind it. *)
EXTENDS Contacts

CONSTANTS ann, annComma

CutAtComma == [n \in Names |-> ann]
=============================================================================
