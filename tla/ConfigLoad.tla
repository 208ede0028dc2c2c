----------------------------- MODULE ConfigLoad -----------------------------
(***************************************************************************)
(* Loading the configuration file of a repository for an event: one call   *)
(* of loadConfig (shipshape/service/config.go).                            *)
(***************************************************************************)
EXTENDS Config

CONSTANT Files   \* the configuration files there may be

ASSUME FilesTyped == Files \subseteq ConfigFile

VARIABLES file, event, loaded

vars == <<file, event, loaded>>

Init == file \in Files /\ event \in EventNames /\ loaded = NoConfig

Load ==
  /\ loaded = NoConfig
  /\ loaded' = loadConfig(file, event)
  /\ UNCHANGED <<file, event>>

Spec == Init /\ [][Load]_vars

\* Orders of the same stanzas.
Reordered(evs) ==
  {[i \in DOMAIN evs |-> evs[p[i]]] :
     p \in {q \in [DOMAIN evs -> DOMAIN evs] : \A i, j \in DOMAIN evs : q[i] = q[j] => i = j}}

\* A file that is accepted means the same in whatever order its stanzas are
\* written, although the lookup takes the first match (config.go:61, 91).
OrderIrrelevant ==
  loaded.status # "none" =>
    \A evs \in Reordered(file.events) :
      loadConfig([file EXCEPT !.events = evs], event) = loaded

\* The stanzas called n.
Named(n) == {ec \in {file.events[i] : i \in DOMAIN file.events} : ec.name = n}

\* An accepted file gives an event the categories of exactly one stanza, its
\* own or else the default one; none only if it has neither, which is what the
\* driver takes for "not configured" (config.go:72, driver.go:153).
OneStanza ==
  loaded.status = "ok" =>
    CASE Named(event) # {} -> Named(event) = {[name |-> event, categories |-> loaded.categories]}
      [] Named(event) = {} /\ Named(defaultName) # {} ->
           Named(defaultName) = {[name |-> defaultName, categories |-> loaded.categories]}
      [] Named(event) = {} /\ Named(defaultName) = {} -> loaded.categories = {}
=============================================================================
