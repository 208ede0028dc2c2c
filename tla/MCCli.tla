-------------------------------- MODULE MCCli --------------------------------
(***************************************************************************)
(* A machine with two directories, one below the other, a third whose path *)
(* starts like the first's, and two third-party analyzers.                 *)
(***************************************************************************)
EXTENDS Cli

MCInside   == {<<d, d>> : d \in Dirs} \cup {<<"/a", "/a/b">>}
MCPrefixed == MCInside \cup {<<"/a", "/ab">>}
MCSuffixOf == {<<"lint", "androidlint">>}

Run(dir, images, stayUp, build) ==
  [mode |-> "run", dir |-> dir, stayUp |-> stayUp, build |-> build,
   analyzers |-> [k \in Ids |-> IF k + 1 \in DOMAIN images THEN images[k + 1] ELSE Nil]]
HotStart(dir, images) == [Run(dir, images, TRUE, FALSE) EXCEPT !.mode = "start"]

MCWorkload ==
  {Run("/a", <<"lint">>, FALSE, TRUE), Run("/a/b", <<"lint">>, TRUE, FALSE),
   Run("/ab", <<>>, TRUE, FALSE), HotStart("/a", <<"androidlint">>)}

TwoAnalyzers == {Run("/a", <<"lint", "androidlint">>, TRUE, FALSE)}
=============================================================================
