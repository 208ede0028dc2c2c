------------------------------ MODULE MCConfig ------------------------------
(***************************************************************************)
(* Every small configuration file: up to three stanzas, an unnamed or      *)
(* empty one among them.                                                   *)
(***************************************************************************)
EXTENDS ConfigLoad, FiniteSets

MCCategories == {"lint", "vet"}
MCEventNames == {"manual", "review", defaultName}

Stanza == [name : EventNames \cup {Nil}, categories : {{}, {"lint"}, {"vet"}}]

FileOf(state, evs) == [state |-> state, events |-> evs, ignore |-> {"gen"}, images |-> {}]

MCFiles ==
  {FileOf("parsed", evs) : evs \in UNION {[1..n -> Stanza] : n \in 0..3}}
    \cup {FileOf(state, <<>>) : state \in {"absent", "unreadable"}}
=============================================================================
