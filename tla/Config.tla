------------------------------- MODULE Config -------------------------------
(***************************************************************************)
(* The per-repository configuration file ".shipshape" and what the driver  *)
(* reads out of it (shipshape/service/config.go).  Everything here is a    *)
(* pure operator; Driver uses them as one step of a run.                   *)
(*                                                                         *)
(* A file is a record: "state" says what ReadFile and the YAML parser make *)
(* of it, "events" is the list of event stanzas in file order, and         *)
(* "ignore" and "images" are the global section (empty when there is no    *)
(* global section: the code then appends nothing).                         *)
(***************************************************************************)
EXTENDS Integers, Sequences

CONSTANTS
  Categories,    \* analysis categories a stanza or a request may name
  EventNames,    \* event names a stanza or a request may carry
  Prefixes,      \* path prefixes a file may ask to ignore
  Images         \* third-party analyzer images a file may ask for

Nil == "nil"                 \* an optional field that is not set
defaultName == "default"     \* the stanza used when no other matches

Event == [name : EventNames \cup {Nil}, categories : SUBSET Categories]

ConfigFile ==
  [state  : {"absent", "unreadable", "parsed"},
   events : Seq(Event),
   ignore : SUBSET Prefixes,
   images : SUBSET Images]

\* What the driver keeps of a file: (nil, nil), (nil, err) or (cfg, nil).
Loaded ==
  [status : {"none", "error", "ok"},
   categories : SUBSET Categories,
   ignore : SUBSET Prefixes,
   images : SUBSET Images]

NoConfig    == [status |-> "none",  categories |-> {}, ignore |-> {}, images |-> {}]
ConfigError == [status |-> "error", categories |-> {}, ignore |-> {}, images |-> {}]

-----------------------------------------------------------------------------

\* ec.GetEvent(): an unset name reads as the empty string.
GetEvent(ec) == IF ec.name = Nil THEN "" ELSE ec.name

\* The stanzas called name that no earlier stanza shares the name with:
\* at most one, the one the loop returns; none stands for the nil result.
eventWithName(events, name) ==
  {events[i] : i \in {j \in DOMAIN events :
                        /\ GetEvent(events[j]) = name
                        /\ \A k \in 1..(j - 1) : GetEvent(events[k]) # name}}

\* Mutant: the default stanza is added to the event's own.
buildMerged(file, name) ==
  LET stanza == eventWithName(file.events, name) \cup eventWithName(file.events, defaultName)
  IN [status     |-> "ok",
      categories |-> UNION {ec.categories : ec \in stanza},
      ignore     |-> file.ignore,
      images     |-> file.images]

\* The categories of the event's stanza, else of the "default" stanza, else
\* none; the global section is copied whatever the event.
buildConfig(file, name) ==
  LET own      == eventWithName(file.events, name)
      fallback == eventWithName(file.events, defaultName)
      stanza   == IF own # {} THEN own ELSE fallback
  IN [status     |-> "ok",
      categories |-> UNION {ec.categories : ec \in stanza},
      ignore     |-> file.ignore,
      images     |-> file.images]

\* Mutant: stanzas of the same name are let through.
validateStanzas(events) ==
  \A i \in DOMAIN events : events[i].name # Nil /\ events[i].categories # {}

\* No error: every stanza is named and has a category, and no two stanzas
\* carry the same name.
validateConfig(events) ==
  /\ \A i \in DOMAIN events : events[i].name # Nil /\ events[i].categories # {}
  /\ \A i, j \in DOMAIN events : GetEvent(events[i]) = GetEvent(events[j]) => i = j

loadConfig(file, name) ==
  CASE file.state = "absent"                                  -> NoConfig
    [] file.state = "unreadable"                              -> ConfigError
    [] file.state = "parsed" /\ ~validateConfig(file.events)  -> ConfigError
    [] file.state = "parsed" /\ validateConfig(file.events)   -> buildConfig(file, name)

\* What the command line asks of a repository before any request: the images
\* of the third-party analyzers to start.
GlobalConfig(file) == loadConfig(file, "").images
=============================================================================
