------------------------------ MODULE Analyzers ------------------------------
(***************************************************************************)
(* The analyzers that come with Shipshape (shipshape/analyzers,            *)
(* shipshape/androidlint_analyzer): on what each of them works, and what   *)
(* it makes of one run of its tool or one read of a file.  A unit of work  *)
(* is a file of the request or, for AndroidLint, a project.                *)
(***************************************************************************)
EXTENDS Integers, Sequences

CONSTANTS
  Files,          \* paths a request may name
  Projects,       \* directories with an AndroidManifest.xml
  Ext,            \* the extension of each file
  ProjectsAbove,  \* per working directory, the projects above each file, closest
                  \* first; none for a path that does not exist from there
  Nil

Units == Files \cup Projects

ASSUME UnitsDistinct == Nil \notin Units /\ Files \cap Projects = {}
ASSUME FilesTyped ==
  /\ Ext \in [Files -> {"go", "py", "js", "other"}]
  /\ \A dir \in DOMAIN ProjectsAbove : ProjectsAbove[dir] \in [Files -> Seq(Projects)]

\* A note with the file or project it is about, Nil for a location without a
\* path, and the directory the process was in when it was made.
Note(category, path, dir) == [category |-> category, path |-> path, dir |-> dir]
NoLocation == "no location"

-----------------------------------------------------------------------------
(* What each analyzer works on.                                            *)

getProject(dir, f) ==
  IF ProjectsAbove[dir][f] = << >> THEN Nil ELSE Head(ProjectsAbove[dir][f])

\* What getProject may return for the files when the process is in dir.  A path
\* that cannot be examined is logged and counts as outside of any project, a
\* directory that cannot be read as none.
Lookups(files, dir) ==
  {where \in [files -> Projects \cup {Nil}] :
     \A f \in files : where[f] \in {Nil} \cup {ProjectsAbove[dir][f][i] :
                                               i \in DOMAIN ProjectsAbove[dir][f]}}

getAndroidProjects(where) == {where[f] : f \in DOMAIN where} \ {Nil}

WithExt(files, ext) == {f \in files : Ext[f] = ext}

\* The projects are those getAndroidProjects has found for the files.
UnitsOf(category, files, projects) ==
  CASE category = "go vet"      -> WithExt(files, "go")
    [] category = "PyLint"      -> WithExt(files, "py")
    [] category = "JSHint"      -> WithExt(files, "js")
    [] category = "AndroidLint" -> projects
    [] category = "PostMessage" -> {}
    [] OTHER                    -> files

\* PostMessage says the same on every call, whatever the files.
NotesAtStart(category, dir) ==
  IF category = "PostMessage" THEN {Note(category, Nil, dir)} ELSE {}

-----------------------------------------------------------------------------
(* The wrapped tools.  A run of one ends with an exit status, is killed by *)
(* a signal or cannot be started, and prints less than the wrapper expects *)
(* or what it expects around the issues: none, only some that can be read, *)
(* or one that cannot after some that can.                                 *)

Killed     == -1
NotStarted == -2
ToolRun == [exit : {NotStarted, Killed, 0, 1, 2, 32}, lines : {"few", "none", "good", "bad"}]

\* What the analyzer makes of a unit: whether it found something, whether it
\* returns an error, and whether the unit was looked at to its end.
Seen(found, error, complete) == [found |-> found, error |-> error, complete |-> complete]

\* There must be findings to read from the output of x.
ReadIssues(x) == Seen(x.lines \in {"good", "bad"}, x.lines # "good", x.lines = "good")

\* There are none: x succeeded, or it is an error.
NoIssues(x) == Seen(FALSE, x.exit # 0, x.exit = 0)

GoVet(x)       == IF x.exit = 1 THEN ReadIssues(x) ELSE NoIssues(x)
JSHint(x)      == IF x.exit = 2 THEN ReadIssues(x) ELSE NoIssues(x)

\* A report that cannot be read has no findings at all.
AndroidLint(x) ==
  IF x.exit # 1 THEN NoIssues(x)
  ELSE Seen(x.lines = "good", x.lines \notin {"none", "good"}, x.lines \in {"none", "good"})

\* Any failure but a usage error is read as one with findings, or none.  So are
\* a signal and pylint's fatal status, though it has not seen all of the file.
Fatal == 1
PyLint(x) ==
  IF x.exit \in {NotStarted, 0, 32} THEN NoIssues(x)
  ELSE Seen(x.lines \in {"good", "bad"}, x.lines \notin {"none", "good"},
            x.lines \in {"none", "good"} /\ x.exit \notin {Killed, Fatal})

\* These read the file themselves: an error if they cannot, else a note for
\* each file, or for some.
Unreadable == Seen(FALSE, TRUE, FALSE)
WordCount  == {Unreadable, Seen(TRUE, FALSE, TRUE)}
CodeAlert  == {Unreadable, Seen(TRUE, FALSE, TRUE), Seen(FALSE, FALSE, TRUE)}

Outcomes(category) ==
  CASE category = "go vet"      -> {GoVet(x) : x \in ToolRun}
    [] category = "PyLint"      -> {PyLint(x) : x \in ToolRun}
    [] category = "JSHint"      -> {JSHint(x) : x \in ToolRun}
    [] category = "AndroidLint" -> {AndroidLint(x) : x \in ToolRun}
    [] category = "CodeAlert"   -> CodeAlert
    [] category = "WordCount"   -> WordCount
    [] OTHER                    -> {}

\* These two return no notes with an error; the others what they have.
AllOrNothing == {"WordCount", "CodeAlert"}

\* CodeAlert leaves the location of its notes out.
PathIn(category, u) == IF category = "CodeAlert" THEN NoLocation ELSE u
=============================================================================
