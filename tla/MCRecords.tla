----------------------------- MODULE MCRecords -----------------------------
(***************************************************************************)
(* Three calls of Put in base 2: lengths of one and of two bytes, an empty *)
(* record, and a long record with a shorter one after it.                  *)
(***************************************************************************)
EXTENDS Records

Empty == <<>>
Short == <<1>>
Long == <<2, 0, 3>>

MCRecordSet == {Empty, Short, Long}
=============================================================================
