------------------------------- MODULE SetupGlm -------------------------------
(***************************************************************************)
(* .moai/scripts/setup-glm.py: development tooling, a script that puts an  *)
(* API token into three files of the project.  It rewrites them in place   *)
(* (open truncates, the content follows), so a run that ends early leaves  *)
(* them in between, and the next run starts from there.  Two of the files  *)
(* have other owners: developers edit .gitignore, and the session that     *)
(* calls the script keeps its permissions, and may keep environment        *)
(* variables, in settings.local.json.                                      *)
(***************************************************************************)
EXTENDS Naturals

CONSTANTS
    Token,       \* API tokens that pass the length check
    MaxEdits,    \* bound on the edits of each file by others
    Cut, Absent, \* the others' part of a truncated file, and of no file
    None         \* nothing of the script's own, not read, no exit code

ASSUME SetupAssumption ==
    /\ MaxEdits \in Nat
    /\ {Cut, Absent} \cap 0..MaxEdits = {} /\ Cut # Absent
    /\ None \notin Token \cup {"entry"} /\ None \notin {Cut, Absent, 0, 1} \cup 0..MaxEdits

VARIABLES
    file,      \* of each file: the script's own part, and the others'
    private,   \* .env.glm has mode 600
    added,     \* the version of others' variables in the settings' env
    edits,     \* the version of the others' part that they last wrote
    run,       \* the run under way, or the last one
    exposed    \* auxiliary: files edited between their reading and their
               \* rewriting, or whose rewriting was cut off

vars == <<file, private, added, edits, run, exposed>>

File    == {"env", "gitignore", "settings"}
Content == 0..MaxEdits \cup {Cut, Absent}

Run == [pc : {"off", "read", "open", "write", "chmod", "report"},
        at : File, token : Token \cup {None},
        held : Content \cup {None}, exit : {None, 0, 1}]

TypeOK ==
    /\ file \in [File -> [own : Token \cup {"entry", None}, others : Content]]
    /\ private \in BOOLEAN
    /\ added \in 0..MaxEdits \cup {None}
    /\ edits \in [File -> 0..MaxEdits]
    /\ run \in Run
    /\ exposed \subseteq File

NoRun(t) == [pc |-> "off", at |-> "env", token |-> t, held |-> None, exit |-> None]

\* An absent .gitignore is one without lines.
Init ==
    /\ file \in {f \in [File -> [own : {"entry", None}, others : {0, Absent}]] :
                    /\ f["env"] = [own |-> None, others |-> Absent]
                    /\ f["gitignore"].others = 0
                    /\ f["settings"].own = None}
    /\ private = FALSE
    /\ added = IF file["settings"].others = Absent THEN None ELSE 0
    /\ edits = [f \in File |-> 0]
    /\ run = NoRun(None)
    /\ exposed = {}

-----------------------------------------------------------------------------
(* main, and setup_glm one file operation at a time.                         *)

Goto(pc)   == run' = [run EXCEPT !.pc = pc]
MoveTo(f)  == run' = [run EXCEPT !.pc = "read", !.at = f]
Hold(what) == run' = [run EXCEPT !.pc = "open", !.held = what]
Exit(code) == run' = [run EXCEPT !.pc = "off", !.exit = code]

\* (A mutation of Start: an .env.glm that exists is kept.)
StartKeepingEnv(t) ==
    /\ run.pc = "off"
    /\ run' = IF file["env"].others = Absent
              THEN [NoRun(t) EXCEPT !.pc = "open", !.held = 0]
              ELSE [NoRun(t) EXCEPT !.pc = "read", !.at = "gitignore"]
    /\ UNCHANGED <<file, private, added, edits, exposed>>

Start(t) == /\ run.pc = "off"
            /\ run' = [NoRun(t) EXCEPT !.pc = "open", !.held = 0]
            /\ UNCHANGED <<file, private, added, edits, exposed>>

\* No token, or one of less than ten characters: nothing is touched.
RejectArguments == /\ run.pc = "off"
                   /\ run' = [NoRun(None) EXCEPT !.exit = 1]
                   /\ UNCHANGED <<file, private, added, edits, exposed>>

\* (A mutation of ReadGitignore: what was read is not kept.)
ReadGitignoreOnly == /\ run.pc = "read" /\ run.at = "gitignore"
                     /\ Hold(None)
                     /\ UNCHANGED <<file, private, added, edits, exposed>>

\* Any mention of .env.glm counts as the entry.
ReadGitignore ==
    /\ run.pc = "read" /\ run.at = "gitignore"
    /\ IF file["gitignore"].own = "entry" THEN MoveTo("settings")
       ELSE Hold(file["gitignore"].others)
    /\ UNCHANGED <<file, private, added, edits, exposed>>

\* (A mutation of LoadSettings: settings that have a token are refused.)
LoadFreshSettings ==
    /\ run.pc = "read" /\ run.at = "settings"
    /\ IF file["settings"].others \in {Cut, Absent} \/ file["settings"].own # None
       THEN Exit(1) ELSE Hold(file["settings"].others)
    /\ UNCHANGED <<file, private, added, edits, exposed>>

\* (A mutation of LoadSettings: settings that are not JSON count as empty.)
LoadOrEmpty ==
    /\ run.pc = "read" /\ run.at = "settings"
    /\ Hold(IF file["settings"].others = Cut THEN Absent ELSE file["settings"].others)
    /\ UNCHANGED <<file, private, added, edits, exposed>>

\* Without settings, or with settings that are not JSON, the run ends here.
LoadSettings ==
    /\ run.pc = "read" /\ run.at = "settings"
    /\ IF file["settings"].others \in {Cut, Absent} THEN Exit(1)
       ELSE Hold(file["settings"].others)
    /\ UNCHANGED <<file, private, added, edits, exposed>>

\* A truncated file holds nothing; the settings that were loaded come back
\* without their env.
DropEnv == added' = IF run.at = "settings" THEN None ELSE added

Truncate == /\ run.pc = "open"
            /\ file' = [file EXCEPT ![run.at] = [own |-> None, others |-> Cut]]
            /\ DropEnv
            /\ Goto("write")
            /\ UNCHANGED <<private, edits, exposed>>

\* The script's own part: the entry, or the token (in the settings, the env that
\* the script makes, which replaces the one there was).
Own(f) == IF f = "gitignore" THEN "entry" ELSE run.token

\* (A mutation of Write: only the script's own part is written.)
WriteOwn == /\ run.pc = "write"
            /\ file' = [file EXCEPT ![run.at] = [own |-> Own(run.at), others |-> 0]]
            /\ CASE run.at = "env"       -> Goto("chmod")
                 [] run.at = "gitignore" -> MoveTo("settings")
                 [] run.at = "settings"  -> Goto("report")
            /\ DropEnv
            /\ UNCHANGED <<private, edits, exposed>>

\* The token; the lines that were read and the entry; the settings that were
\* loaded, but for their env.
Write == /\ run.pc = "write"
         /\ file' = [file EXCEPT ![run.at] = [own |-> Own(run.at), others |-> run.held]]
         /\ CASE run.at = "env"       -> Goto("chmod")
              [] run.at = "gitignore" -> MoveTo("settings")
              [] run.at = "settings"  -> Goto("report")
         /\ DropEnv
         /\ UNCHANGED <<private, edits, exposed>>

\* Until then a new .env.glm has the umask's mode, an old one keeps its own.
Chmod == /\ run.pc = "chmod"
         /\ private' = TRUE
         /\ MoveTo("gitignore")
         /\ UNCHANGED <<file, added, edits, exposed>>

Report == /\ run.pc = "report"
          /\ Exit(0)
          /\ UNCHANGED <<file, private, added, edits, exposed>>

\* Something raises and both except clauses return False, or the process dies.
EndsEarly == /\ run.pc # "off"
             /\ \E code \in {1, None} : Exit(code)
             /\ exposed' = IF run.pc = "write" THEN exposed \cup {run.at} ELSE exposed
             /\ UNCHANGED <<file, private, added, edits>>

\* Somebody else edits, creates or repairs a file that is not being rewritten,
\* and leaves the script's part of it alone.
OthersEdit(f) ==
    /\ edits[f] < MaxEdits
    /\ ~(run.pc = "write" /\ run.at = f)
    /\ edits' = [edits EXCEPT ![f] = @ + 1]
    /\ file' = [file EXCEPT ![f].others = edits'[f]]
    /\ added' = IF f = "settings" THEN edits'[f] ELSE added
    /\ exposed' = IF run.pc = "open" /\ run.at = f THEN exposed \cup {f} ELSE exposed
    /\ UNCHANGED <<private, run>>

Step == \/ ReadGitignore \/ LoadSettings \/ Truncate \/ Write \/ Chmod \/ Report

Next == \/ \E t \in Token : Start(t)
        \/ RejectArguments \/ Step \/ EndsEarly
        \/ \E f \in {"gitignore", "settings"} : OthersEdit(f)

\* The script runs on, and its user tries again.
Fairness == /\ WF_vars(Step)
            /\ WF_vars(\E t \in Token : Start(t))

Spec == Init /\ [][Next]_vars /\ Fairness

-----------------------------------------------------------------------------
(* Properties.                                                               *)

\* Exit code 0 means that the three files agree on the token of that run, and
\* that .env.glm is private, whatever earlier runs left behind.
SuccessMeansConfigured ==
    run.exit = 0 => private /\ \A f \in File : file[f].own = Own(f)

\* What others put into .gitignore and, outside of env, into settings.local.json
\* survives any number of runs, failed ones too, unless they edited the file
\* between its reading and its rewriting, or the rewriting was cut off.  Their
\* variables in env do not survive a run: the script replaces that object.  It
\* takes them only in exchange for its own: settings in which it has nothing
\* have all that others put there.
NothingElseLost ==
    /\ \A f \in File \ exposed :
          \/ run.pc = "write" /\ run.at = f
          \/ file[f].others \in {edits[f], Absent}
    /\ file["settings"].own = None /\ file["settings"].others = edits["settings"]
          => added = edits["settings"]

\* Success is never reported over the wreck of an earlier run: of settings that
\* were cut off, or that lack what others kept there, no run comes back with exit
\* code 0 until somebody has repaired them.
CutSettingsAreNotPassedOff ==
    run.exit = 0 => file["settings"].others \notin {Cut, Absent}

\* A run that fails or is killed never spoils the next ones, except by cutting
\* off settings.local.json: while that can be loaded, trying again succeeds.
TryingAgainSucceeds ==
    <>[][EndsEarly => LoadSettings]_vars =>
        \/ <>[](file["settings"].others \in {Cut, Absent})
        \/ []<>(run.exit = 0)

=============================================================================
