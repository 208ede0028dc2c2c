------------------------------ MODULE MCDriver ------------------------------
(***************************************************************************)
(* A small service: two analyzers of the PRE_BUILD stage and two           *)
(* repositories.  "app" is configured and ignores one of its directories;  *)
(* "lib" has no configuration.                                             *)
(***************************************************************************)
EXTENDS DriverService, TLC

MCCategories == {"lint", "vet", "gone"}
MCEventNames == {"manual", "review"}
MCDefaults   == {"lint", "vet"}
MCOffers     == [a1 |-> {"lint"}, a2 |-> {"lint", "vet"}]
MCStageOf    == [a1 |-> "PRE_BUILD", a2 |-> "PRE_BUILD"]

\* One analyzer runs after the build, and a third leaves the stage out of its
\* reply and is the only one that has the category "gone".
MixedStageOf == [a1 |-> "POST_BUILD", a2 |-> "PRE_BUILD", a3 |-> Nil]
SerialOffers == [MCOffers EXCEPT !.a1 = {"lint"}] @@ [a3 |-> {"gone"}]

MCConfigAt ==
  [bad  |-> [state |-> "unreadable", ignore |-> {}, images |-> {}, events |-> <<>>],
   app  |-> [state |-> "parsed", ignore |-> {"gen"}, images |-> {},
             events |-> <<[name |-> "manual", categories |-> {"lint", "vet", "gone"}]>>],
   lib  |-> [state |-> "absent", ignore |-> {}, images |-> {}, events |-> <<>>],
   home |-> [state |-> "absent", ignore |-> {}, images |-> {}, events |-> <<>>]]

MCFilesAt == [app |-> {"main", "made"}, lib |-> {"main"}, bad |-> {"main"}]
MCUnder   == [gen |-> {"made"}]

Run(root, event, triggered, paths) ==
  [kind |-> "run", root |-> root, event |-> event, stage |-> "PRE_BUILD",
   triggered |-> triggered, files |-> paths]

Configured == Run("app", "manual", {}, {})
Defaulted  == Run("lib", "manual", {}, {})
Triggered  == Run("app", "manual", {"lint", "gone"}, {"main"})

Inherited  == Run("lib", "review", {"vet"}, {"main", "made"})
Unknown    == Run("app", "review", {}, {})
Vanished   == Run("void", "manual", {}, {})
Incomplete == Run(Nil, "manual", {}, {})
PostBuild  == [Triggered EXCEPT !.stage = "POST_BUILD"]
OnlyIgnored == [Configured EXCEPT !.files = {"made"}]
Listing    == [NoRequest EXCEPT !.kind = "categories"]
BadConfig  == Run("bad", "manual", {"lint"}, {})

DefaultWorkload == {Defaulted}
OverlapWorkload == {Configured, Defaulted}
SerialWorkload  == {Configured, Defaulted, Triggered, Inherited, Unknown, Vanished,
                    Incomplete, PostBuild, OnlyIgnored, Listing, BadConfig}

Noted(c, p) == [category |-> c, path |-> p]

\* Notes the filter keeps and drops, a partial failure, and an empty answer.
MCReplies ==
  {[notes |-> {Noted("lint", "main"), Noted("lint", "made"), Noted(Nil, "main"),
               Noted("vet", Nil), Noted("vet", "no location")},
    failures |-> {"vet"}],
   [notes |-> {}, failures |-> {}]}

OneReply == {x \in MCReplies : x.notes # {}}

Symmetry == Permutations(Requests)
=============================================================================
