---------------------------- MODULE ConfigProofs ----------------------------
(***************************************************************************)
(* Theorems about configuration files with any number of stanzas: what an  *)
(* accepted one gives an event, and that the order of its stanzas is       *)
(* irrelevant, whatever events and categories there are.                   *)
(***************************************************************************)
EXTENDS ConfigLoad, FiniteSetTheorems, SequenceTheorems, TLAPS

\* The stanzas of a list.
StanzasOf(evs) == {evs[i] : i \in DOMAIN evs}

NamedIn(evs, n) == {ec \in StanzasOf(evs) : ec.name = n}

(***************************************************************************)
(* The lookup.                                                             *)
(***************************************************************************)

\* In a list that is accepted, the first match is the only one.
LEMMA LookupFinds ==
  ASSUME NEW evs \in Seq(Event), validateConfig(evs), NEW n
  PROVE  eventWithName(evs, n) = NamedIn(evs, n)
<1>1. \A i \in DOMAIN evs : GetEvent(evs[i]) = evs[i].name
  BY DEF validateConfig, GetEvent
<1>2. \A i, j \in DOMAIN evs : evs[i].name = evs[j].name => i = j
  BY <1>1 DEF validateConfig
<1>3. DOMAIN evs = 1 .. Len(evs) /\ Len(evs) \in Nat
  OBVIOUS
<1>4. ASSUME NEW j \in DOMAIN evs, evs[j].name = n
      PROVE  \A k \in 1 .. (j - 1) : GetEvent(evs[k]) # n
  BY <1>1, <1>2, <1>3, <1>4
<1>5. {j \in DOMAIN evs : /\ GetEvent(evs[j]) = n
                          /\ \A k \in 1 .. (j - 1) : GetEvent(evs[k]) # n}
        = {j \in DOMAIN evs : evs[j].name = n}
  BY <1>1, <1>4
<1>6. {evs[i] : i \in {j \in DOMAIN evs : evs[j].name = n}} = NamedIn(evs, n)
  BY DEF NamedIn, StanzasOf
<1> QED BY <1>5, <1>6 DEF eventWithName

\* An accepted list has at most one stanza of a name.
LEMMA OneOfAName ==
  ASSUME NEW evs \in Seq(Event), validateConfig(evs), NEW n,
         NEW x \in NamedIn(evs, n), NEW y \in NamedIn(evs, n)
  PROVE  x = y
<1>1. \A i \in DOMAIN evs : GetEvent(evs[i]) = evs[i].name
  BY DEF validateConfig, GetEvent
<1>2. PICK i \in DOMAIN evs, j \in DOMAIN evs : x = evs[i] /\ y = evs[j]
  BY DEF NamedIn, StanzasOf
<1>3. GetEvent(evs[i]) = GetEvent(evs[j])
  BY <1>1, <1>2 DEF NamedIn
<1> QED BY <1>2, <1>3 DEF validateConfig

\* The categories of the stanzas of a name are those of the one there is.
LEMMA CategoriesOfOne ==
  ASSUME NEW evs \in Seq(Event), validateConfig(evs), NEW n, NamedIn(evs, n) # {}
  PROVE  NamedIn(evs, n)
           = {[name |-> n, categories |-> UNION {ec.categories : ec \in NamedIn(evs, n)}]}
<1>1. PICK x : x \in NamedIn(evs, n)
  OBVIOUS
<1>2. NamedIn(evs, n) = {x}
  BY <1>1, OneOfAName
<1>3. x \in Event /\ x.name = n
  <2>1. PICK i \in DOMAIN evs : x = evs[i]
    BY <1>1 DEF NamedIn, StanzasOf
  <2>2. evs[i] \in Event
    BY <2>1
  <2> QED BY <1>1, <2>1, <2>2 DEF NamedIn
<1>4. UNION {ec.categories : ec \in NamedIn(evs, n)} = x.categories
  BY <1>2
<1>5. x = [name |-> n, categories |-> x.categories]
  BY <1>3 DEF Event
<1> QED BY <1>2, <1>4, <1>5

(***************************************************************************)
(* Reordering.                                                             *)
(***************************************************************************)

LEMMA ReorderedSame ==
  ASSUME NEW evs \in Seq(Event), NEW other \in Reordered(evs)
  PROVE  /\ other \in Seq(Event) /\ StanzasOf(other) = StanzasOf(evs)
         /\ validateConfig(other) <=> validateConfig(evs)
<1>1. PICK p \in [DOMAIN evs -> DOMAIN evs] :
        /\ \A i, j \in DOMAIN evs : p[i] = p[j] => i = j
        /\ other = [i \in DOMAIN evs |-> evs[p[i]]]
  BY DEF Reordered
<1>2. DOMAIN evs = 1 .. Len(evs) /\ Len(evs) \in Nat
  OBVIOUS
<1>3. IsFiniteSet(DOMAIN evs)
  BY <1>2, FS_Interval
<1>4. p \in Injection(DOMAIN evs, DOMAIN evs)
  BY <1>1 DEF Injection, IsInjective
<1>5. p \in Surjection(DOMAIN evs, DOMAIN evs)
  BY <1>3, <1>4, FS_Injection
<1>6. \A j \in DOMAIN evs : \E i \in DOMAIN evs : p[i] = j
  BY <1>5 DEF Surjection
<1>7. DOMAIN other = DOMAIN evs /\ \A i \in DOMAIN evs : other[i] = evs[p[i]]
  BY <1>1
<1>8. other \in Seq(Event)
  <2>1. ASSUME NEW i \in 1 .. Len(evs)
        PROVE  evs[p[i]] \in Event
    <3>1. p[i] \in 1 .. Len(evs)
      BY <1>1, <1>2
    <3> QED BY <3>1, ElementOfSeq
  <2>2. other \in [1 .. Len(evs) -> Event]
    BY <1>1, <1>2, <2>1
  <2> QED BY <1>2, <2>2, SeqDef
<1>9. StanzasOf(other) = StanzasOf(evs)
  <2>1. StanzasOf(other) \subseteq StanzasOf(evs)
    BY <1>1, <1>7 DEF StanzasOf
  <2>2. StanzasOf(evs) \subseteq StanzasOf(other)
    <3>1. ASSUME NEW j \in DOMAIN evs
          PROVE  evs[j] \in StanzasOf(other)
      <4>1. PICK i \in DOMAIN evs : p[i] = j
        BY <1>6
      <4> QED BY <1>7, <4>1 DEF StanzasOf
    <3> QED BY <3>1 DEF StanzasOf
  <2> QED BY <2>1, <2>2
<1>10. validateConfig(evs) => validateConfig(other)
  BY <1>1, <1>7 DEF validateConfig
<1>11. ASSUME validateConfig(other)
       PROVE  validateConfig(evs)
  <2>1. ASSUME NEW j \in DOMAIN evs
        PROVE  evs[j].name # Nil /\ evs[j].categories # {}
    <3>1. PICK a \in DOMAIN evs : p[a] = j
      BY <1>6
    <3>2. other[a].name # Nil /\ other[a].categories # {}
      BY <1>7, <1>11 DEF validateConfig
    <3> QED BY <1>7, <3>1, <3>2
  <2>2. ASSUME NEW j \in DOMAIN evs, NEW k \in DOMAIN evs, GetEvent(evs[j]) = GetEvent(evs[k])
        PROVE  j = k
    <3>1. PICK a \in DOMAIN evs, b \in DOMAIN evs : p[a] = j /\ p[b] = k
      BY <1>6
    <3>2. GetEvent(other[a]) = GetEvent(other[b])
      BY <1>7, <2>2, <3>1
    <3> QED BY <1>7, <1>11, <3>1, <3>2 DEF validateConfig
  <2> QED BY <2>1, <2>2 DEF validateConfig
<1> QED BY <1>8, <1>9, <1>10, <1>11

(***************************************************************************)
(* The invariant: what is loaded is what loadConfig makes of the file.     *)
(***************************************************************************)

LoadInv ==
  /\ file \in ConfigFile
  /\ loaded = NoConfig \/ loaded = loadConfig(file, event)

LEMMA LoadCorrect == Spec => []LoadInv
<1>1. Init => LoadInv
  BY FilesTyped DEF Init, LoadInv
<1>2. LoadInv /\ [Load]_vars => LoadInv'
  <2> SUFFICES ASSUME LoadInv, [Load]_vars
               PROVE  LoadInv'
    OBVIOUS
  <2>1. UNCHANGED <<file, event>> /\ loaded' \in {loaded, loadConfig(file, event)}
    BY DEF Load, vars
  <2> QED BY <2>1 DEF LoadInv
<1> QED BY <1>1, <1>2, PTL DEF Spec

\* What loadConfig makes of a file it accepts.
LEMMA Accepted ==
  ASSUME NEW f \in ConfigFile, NEW name, loadConfig(f, name).status = "ok"
  PROVE  /\ f.state = "parsed" /\ validateConfig(f.events)
         /\ loadConfig(f, name) = buildConfig(f, name)
<1>1. f.state \in {"absent", "unreadable", "parsed"}
  BY DEF ConfigFile
<1>2. CASE f.state = "absent"
  BY <1>2, Zenon DEF loadConfig, NoConfig
<1>3. CASE f.state = "unreadable"
  BY <1>3, Zenon DEF loadConfig, ConfigError
<1>4. CASE f.state = "parsed" /\ ~validateConfig(f.events)
  BY <1>4, Zenon DEF loadConfig, ConfigError
<1>5. CASE f.state = "parsed" /\ validateConfig(f.events)
  BY <1>5, Zenon DEF loadConfig
<1> QED BY <1>1, <1>2, <1>3, <1>4, <1>5

\* A configuration that is accepted gives an event the categories of its one
\* stanza, else of the one default stanza, else none (config.go, buildConfig).
THEOREM OneStanzaOnly == Spec => []OneStanza
<1>1. LoadInv => OneStanza
  <2> SUFFICES ASSUME LoadInv, loaded.status = "ok"
               PROVE  OneStanza
    BY DEF OneStanza
  <2> DEFINE evs == file.events
  <2>1. loaded = loadConfig(file, event)
    BY DEF LoadInv, NoConfig
  <2>2. evs \in Seq(Event) /\ validateConfig(evs) /\ loaded = buildConfig(file, event)
    BY <2>1, Accepted DEF LoadInv, ConfigFile
  <2>3. \A n : Named(n) = NamedIn(evs, n)
    BY DEF Named, NamedIn, StanzasOf
  <2>4. \A n : eventWithName(evs, n) = NamedIn(evs, n)
    BY <2>2, LookupFinds
  <2>5. loaded.categories
          = UNION {ec.categories :
                     ec \in IF NamedIn(evs, event) # {} THEN NamedIn(evs, event)
                                                        ELSE NamedIn(evs, defaultName)}
    BY <2>2, <2>4 DEF buildConfig
  <2> HIDE DEF evs
  <2>6. CASE NamedIn(evs, event) # {}
    BY <2>2, <2>3, <2>5, <2>6, CategoriesOfOne DEF OneStanza
  <2>7. CASE NamedIn(evs, event) = {} /\ NamedIn(evs, defaultName) # {}
    BY <2>2, <2>3, <2>5, <2>7, CategoriesOfOne DEF OneStanza
  <2>8. CASE NamedIn(evs, event) = {} /\ NamedIn(evs, defaultName) = {}
    BY <2>3, <2>5, <2>8 DEF OneStanza
  <2> QED BY <2>6, <2>7, <2>8
<1> QED BY <1>1, LoadCorrect, PTL

\* The order of the stanzas of a file makes no difference to what is loaded
\* from it, nor to whether it is accepted (config.go, validateConfig and
\* eventWithName).
THEOREM AnyOrder == Spec => []OrderIrrelevant
<1>1. LoadInv => OrderIrrelevant
  <2> SUFFICES ASSUME LoadInv, loaded.status # "none", NEW other \in Reordered(file.events)
               PROVE  loadConfig([file EXCEPT !.events = other], event) = loaded
    BY DEF OrderIrrelevant
  <2> DEFINE g == [file EXCEPT !.events = other]
  <2>1. loaded = loadConfig(file, event)
    BY DEF LoadInv, NoConfig
  <2>2. file \in ConfigFile /\ file.events \in Seq(Event)
    BY DEF LoadInv, ConfigFile
  <2>3. /\ other \in Seq(Event) /\ StanzasOf(other) = StanzasOf(file.events)
        /\ validateConfig(other) <=> validateConfig(file.events)
    BY <2>2, ReorderedSame
  <2>4. /\ g.state = file.state /\ g.events = other
        /\ g.ignore = file.ignore /\ g.images = file.images
    BY <2>2 DEF ConfigFile
  <2> HIDE DEF g
  <2>5. ASSUME validateConfig(file.events)
        PROVE  buildConfig(g, event) = buildConfig(file, event)
    <3>1. \A n : NamedIn(other, n) = NamedIn(file.events, n)
      BY <2>3 DEF NamedIn
    <3>2. \A n : eventWithName(g.events, n) = eventWithName(file.events, n)
      BY <2>2, <2>3, <2>4, <2>5, <3>1, LookupFinds
    <3> QED BY <2>4, <3>2, Zenon DEF buildConfig
  <2>6. file.state \in {"absent", "unreadable", "parsed"}
    BY <2>2 DEF ConfigFile
  <2>7. loadConfig(g, event) = loadConfig(file, event)
    <3>1. CASE file.state = "absent"
      BY <2>4, <3>1, Zenon DEF loadConfig
    <3>2. CASE file.state = "unreadable"
      BY <2>4, <3>2, Zenon DEF loadConfig
    <3>3. CASE file.state = "parsed" /\ ~validateConfig(file.events)
      BY <2>3, <2>4, <3>3, Zenon DEF loadConfig
    <3>4. CASE file.state = "parsed" /\ validateConfig(file.events)
      BY <2>3, <2>4, <2>5, <3>4, Zenon DEF loadConfig
    <3> QED BY <2>6, <3>1, <3>2, <3>3, <3>4
  <2> QED BY <2>1, <2>7 DEF g
<1> QED BY <1>1, LoadCorrect, PTL
=============================================================================
