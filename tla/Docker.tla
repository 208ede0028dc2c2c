------------------------------- MODULE Docker -------------------------------
(***************************************************************************)
(* The docker commands the command line runs (shipshape/util/docker): what *)
(* each of them does to the daemon's containers, and what the questions    *)
(* asked with "docker ps" and "docker inspect" answer.  All invocations of *)
(* the command line on a machine share one daemon.                         *)
(***************************************************************************)
EXTENDS Integers

CONSTANTS
  ThirdParty, \* the images of third-party analyzers
  Ids,        \* positions in the list of third-party analyzers
  Dirs,       \* host directories one can analyze
  Inside,     \* pairs <<d, e>>: e is d or below it
  Prefixed,   \* pairs <<d, e>>: the path of e starts with the path of d
  SuffixOf,   \* pairs <<a, b>>: the name of image b ends with that of image a
  Released,   \* the images of which there is a new version in the registry
  Absent      \* stands for a container that does not exist

\* A container's name; getContainerAndAddress makes an analyzer's from its
\* image and position.
Service == <<"shipping_container", 0>>
Kythe   == <<"kythe", 0>>
Names   == {Service, Kythe} \cup (ThirdParty \X Ids)
Images  == {"service", "kythe"} \cup ThirdParty

\* 10007 for the service, 10010 and up for analyzers; kythe publishes none.
Port(name) == IF name = Service THEN 10007 ELSE 10010 + name[2]

Container == [image : Images, version : 1 .. 2, dir : Dirs, links : SUBSET Names, up : BOOLEAN]

ASSUME DockerTyped ==
  /\ Inside \subseteq Prefixed /\ Prefixed \subseteq Dirs \X Dirs
  /\ \A d \in Dirs : <<d, d>> \in Inside
  /\ Absent \notin Container /\ Released \subseteq Images
  /\ ThirdParty \cap {"shipping_container", "service", "kythe"} = {}

-----------------------------------------------------------------------------
(* Questions, asked of the containers cs and the pulled images.            *)

\* Mutant: without -a, "docker ps" lists running containers only.
ContainerRunning(cs, name) == cs[name] # Absent /\ cs[name].up

\* "docker ps -a": containers that have stopped count too.
ContainerExists(cs, name) == cs[name] # Absent

ImageMatches(cs, local, image, name) ==
  /\ cs[name] # Absent
  /\ cs[name].image = image /\ cs[name].version = local[image]

\* Mutant: the test for a subdirectory is made the other way round.
MappedBelow(cs, dir, name) == cs[name] # Absent /\ <<dir, cs[name].dir>> \in Prefixed

\* Whether dir starts with the mapped directory, as paths are written.
MappedVolume(cs, dir, name) == cs[name] # Absent /\ <<cs[name].dir, dir>> \in Prefixed

\* A name counts as linked if it occurs anywhere in the list of links.
Occurs(name, link) ==
  name[2] = link[2] /\ (name[1] = link[1] \/ <<name[1], link[1]>> \in SuffixOf)

ContainsLinks(cs, name, linked) ==
  /\ cs[name] # Absent
  /\ \A l \in linked : \E m \in cs[name].links : Occurs(l, m)

-----------------------------------------------------------------------------
(* Commands, as the set of their outcomes: the containers afterwards and   *)
(* whether the command succeeded.                                          *)

Outcome(cs, ok) == [containers |-> cs, ok |-> ok]

Put(cs, name, c) == [cs EXCEPT ![name] = c]

Startable(cs, name, links) ==
  /\ \A l \in links : cs[l] # Absent /\ cs[l].up
  /\ name = Kythe \/ \A m \in Names \ {name, Kythe} :
       cs[m] # Absent /\ cs[m].up => Port(m) # Port(name)

\* "docker run" creates the container and then starts it: when it cannot be
\* started (a port is taken, a link is down) the container is left behind.
DockerRun(cs, name, c) ==
  IF cs[name] # Absent THEN {Outcome(cs, FALSE)}
  ELSE {Outcome(cs, FALSE), Outcome(Put(cs, name, [c EXCEPT !.up = FALSE]), FALSE)}
         \cup IF Startable(cs, name, c.links)
              THEN {Outcome(Put(cs, name, [c EXCEPT !.up = TRUE]), TRUE)} ELSE {}

RunContainer(cs, local, name, image, dir, links) ==
  DockerRun(cs, name, [image |-> image, version |-> local[image], dir |-> dir,
                       links |-> links, up |-> TRUE])

RunService(cs, local, image, dir, linked) == RunContainer(cs, local, Service, image, dir, linked)
RunAnalyzer(cs, local, image, name, dir)  == RunContainer(cs, local, name, image, dir, {})
RunKythe(cs, local, image, dir)           == RunContainer(cs, local, Kythe, image, dir, {})

\* Stop: "docker stop" succeeds on any container there is, running or not,
\* unless the daemon refuses it, which is a fault of its own (StopRefused).
DockerStop(cs, name) ==
  IF cs[name] = Absent THEN Outcome(cs, FALSE)
                       ELSE Outcome(Put(cs, name, [cs[name] EXCEPT !.up = FALSE]), TRUE)

\* "docker rm", which Stop runs only after a successful stop.
DockerRm(cs, name) ==
  IF cs[name] = Absent \/ cs[name].up THEN Outcome(cs, FALSE)
                                      ELSE Outcome(Put(cs, name, Absent), TRUE)

\* Pull: version 2 of the images there is one of, or none of it.
Pull(local, images) ==
  {local, [m \in Images |-> IF m \in images \cap Released THEN 2 ELSE local[m]]}
=============================================================================
