---------------------------- MODULE SetupGlm_proofs ----------------------------
(***************************************************************************)
(* Theorems about SetupGlm, for any tokens and any number of edits.        *)
(***************************************************************************)
EXTENDS SetupGlm, TLAPS

\* What a run will write of the others' part is what it has read, and, unless
\* the file was exposed, still the newest there is.
HeldIsRead ==
    /\ edits["env"] = 0
    /\ run.pc \in {"open", "write"} =>
          /\ run.held # None
          /\ run.at \notin exposed => run.held \in {edits[run.at], Absent}

\* The files are done one after the other, and the settings only if they load.
InOrder ==
    /\ run.pc # "off" => run.token # None
    /\ run.pc = "chmod" => run.at = "env"
    /\ run.pc = "read" => run.at # "env"
    /\ run.pc = "report" => run.at = "settings"
    /\ run.exit = 0 => run.pc = "off" /\ run.at = "settings"
    /\ run.pc = "chmod" \/ run.at # "env" => file["env"].own = run.token
    /\ run.at # "env" => private
    /\ run.at = "settings" => file["gitignore"].own = "entry"
    /\ run.at = "settings" /\ run.pc \in {"open", "write"} =>
          run.held \notin {Cut, Absent}
    /\ run.pc = "report" \/ run.exit = 0 =>
          /\ file["settings"].own = run.token
          /\ file["settings"].others \notin {Cut, Absent}

IInv == TypeOK /\ HeldIsRead /\ InOrder /\ NothingElseLost

LEMMA InitIInv == Init => IInv
<1> SUFFICES ASSUME Init PROVE IInv OBVIOUS
<1> USE SetupAssumption DEF Init, NoRun, File
<1>1. TypeOK
  <2>1. 0 \in Content /\ Absent \in Content /\ 0 \in 0..MaxEdits BY DEF Content
  <2>2. file \in [File -> [own : Token \cup {"entry", None}, others : Content]]
    BY <2>1
  <2>3. run \in Run BY DEF Run
  <2>4. added \in 0..MaxEdits \cup {None} BY <2>1
  <2>5. QED BY <2>1, <2>2, <2>3, <2>4 DEF TypeOK
<1>2. HeldIsRead BY DEF HeldIsRead
<1>3. InOrder BY DEF InOrder
<1>4. NothingElseLost
  <2>1. \A f \in File : file[f].others \in {0, Absent} /\ edits[f] = 0 OBVIOUS
  <2>2. file["settings"].others = 0 => added = 0 OBVIOUS
  <2>3. QED BY <2>1, <2>2 DEF NothingElseLost
<1>5. QED BY <1>1, <1>2, <1>3, <1>4 DEF IInv

\* The steps of a run that leave the files alone.
Reads == \/ \E t \in Token : Start(t)
         \/ RejectArguments \/ ReadGitignore \/ LoadSettings \/ Chmod \/ Report
         \/ EndsEarly

LEMMA ReadsIInv == IInv /\ Reads => IInv'
<1> SUFFICES ASSUME IInv, Reads PROVE IInv' OBVIOUS
<1> USE DEF IInv, NoRun, Goto, MoveTo, Hold, Exit
<1>1. UNCHANGED <<file, added, edits>> /\ run \in Run
  BY DEF Reads, Start, RejectArguments, ReadGitignore, LoadSettings, Chmod,
         Report, EndsEarly, TypeOK
<1>2. TypeOK'
  <2>1. 0 \in Content BY SetupAssumption DEF Content
  <2>2. \A f \in File : file[f].others \in Content BY DEF TypeOK
  <2>3. run' \in Run
    BY <1>1, <2>1, <2>2 DEF Run, File, Reads, Start, RejectArguments, ReadGitignore,
       LoadSettings, Chmod, Report, EndsEarly
  <2>4. private' \in BOOLEAN /\ exposed' \subseteq File
    BY <1>1 DEF TypeOK, Run, Reads, Start, RejectArguments, ReadGitignore,
       LoadSettings, Chmod, Report, EndsEarly
  <2>5. QED BY <1>1, <2>3, <2>4 DEF TypeOK
<1>3. HeldIsRead'
  <2>1. ASSUME NEW f \in File, f \notin exposed, run.pc # "write"
        PROVE  file[f].others \in {edits[f], Absent}
    BY <2>1 DEF NothingElseLost
  <2>2. \A f \in File : file[f].others # None
    BY SetupAssumption DEF TypeOK, Content, File
  <2>3. CASE ReadGitignore BY <1>1, <2>1, <2>2, <2>3 DEF Run, HeldIsRead, ReadGitignore, File
  <2>4. CASE LoadSettings BY <1>1, <2>1, <2>2, <2>4 DEF Run, HeldIsRead, LoadSettings, File
  <2>5. CASE \E t \in Token : Start(t)
    BY <1>1, <2>5, SetupAssumption DEF Run, HeldIsRead, Start
  <2>6. CASE RejectArguments \/ Chmod \/ Report \/ EndsEarly
    BY <1>1, <2>6 DEF Run, HeldIsRead, RejectArguments, Chmod, Report, EndsEarly
  <2>7. QED BY <2>3, <2>4, <2>5, <2>6 DEF Reads
<1>4. InOrder'
  <2>1. CASE (\E t \in Token : Start(t)) \/ RejectArguments
    <3>1. None # 0 BY SetupAssumption
    <3>2. ASSUME NEW t \in Token, Start(t)
          PROVE  /\ run'.pc = "open" /\ run'.at = "env" /\ run'.exit = None
                 /\ run'.token # None
      BY <3>2, SetupAssumption DEF Start
    <3>3. CASE RejectArguments
      BY <1>1, <3>3 DEF InOrder, RejectArguments
    <3>4. QED BY <2>1, <3>1, <3>2, <3>3 DEF InOrder
  <2>2. CASE ReadGitignore BY <1>1, <2>2 DEF Run, InOrder, ReadGitignore
  <2>3. CASE LoadSettings
    <3>1. CASE Exit(1) BY <1>1, <2>3, <3>1 DEF Run, InOrder, LoadSettings
    <3>2. CASE Hold(file["settings"].others)
      BY <1>1, <2>3, <3>2 DEF Run, InOrder, LoadSettings
    <3>3. QED BY <2>3, <3>1, <3>2 DEF LoadSettings
  <2>4. CASE EndsEarly BY <1>1, <2>4, SetupAssumption DEF Run, InOrder, EndsEarly
  <2>5. CASE Chmod BY <1>1, <2>5 DEF Run, InOrder, Chmod
  <2>6. CASE Report BY <1>1, <2>6 DEF Run, InOrder, Report
  <2>7. QED BY <2>1, <2>2, <2>3, <2>4, <2>5, <2>6 DEF Reads
<1>5. NothingElseLost'
  <2>1. \A f \in File \ exposed' : f \in File \ exposed /\ ~(run.pc = "write" /\ run.at = f)
    BY DEF Reads, Start, RejectArguments, ReadGitignore, LoadSettings, Chmod,
           Report, EndsEarly
  <2>2. QED BY <1>1, <2>1 DEF NothingElseLost
<1>6. QED BY <1>2, <1>3, <1>4, <1>5

LEMMA TruncateIInv == IInv /\ Truncate => IInv'
<1> SUFFICES ASSUME IInv, Truncate PROVE IInv' OBVIOUS
<1> USE DEF IInv, Truncate, Goto, DropEnv
<1>1. TypeOK' BY DEF TypeOK, Run, Content
<1>2. HeldIsRead' BY DEF HeldIsRead, TypeOK, Run
<1>3. InOrder' BY DEF InOrder, TypeOK, Run, File
<1>4. NothingElseLost'
  <2>1. \A f \in File : file'[f] = IF f = run.at THEN [own |-> None, others |-> Cut]
                                   ELSE file[f]
    BY DEF TypeOK
  <2>2. /\ run'.pc = "write" /\ run'.at = run.at
        /\ UNCHANGED <<edits, exposed>>
    BY DEF TypeOK, Run
  <2>3. Cut # edits["settings"] /\ "settings" \in File
    BY SetupAssumption DEF TypeOK, File
  <2>4. QED BY <2>1, <2>2, <2>3 DEF NothingElseLost
<1>5. QED BY <1>1, <1>2, <1>3, <1>4

LEMMA WriteIInv == IInv /\ Write => IInv'
<1> SUFFICES ASSUME IInv, Write PROVE IInv' OBVIOUS
<1> USE DEF IInv, Write, Goto, MoveTo, DropEnv
<1>1. run.at \in File /\ run.held \in Content /\ Own(run.at) \in Token \cup {"entry", None}
  BY DEF TypeOK, Run, HeldIsRead, Own
<1>2. \A f \in File : file'[f] = IF f = run.at THEN [own |-> Own(f), others |-> run.held]
                                 ELSE file[f]
  BY DEF TypeOK
<1>3. TypeOK'
  <2>1. file' \in [File -> [own : Token \cup {"entry", None}, others : Content]]
    BY <1>1 DEF TypeOK
  <2>2. run' \in Run BY <1>1 DEF TypeOK, Run, File
  <2>3. QED BY <2>1, <2>2 DEF TypeOK
<1>4. HeldIsRead'
  <2>1. run'.pc \in {"chmod", "read", "report"} /\ edits' = edits
    BY <1>1 DEF TypeOK, Run, File
  <2>2. QED BY <2>1 DEF HeldIsRead
<1>5. InOrder'
  <2>1. CASE run.at = "env"
    BY <1>1, <1>2, <2>1 DEF InOrder, TypeOK, Run, File, Own
  <2>2. CASE run.at = "gitignore"
    BY <1>1, <1>2, <2>2 DEF InOrder, TypeOK, Run, File, Own
  <2>3. CASE run.at = "settings"
    BY <1>1, <1>2, <2>3 DEF InOrder, TypeOK, Run, File, Own
  <2>4. QED BY <1>1, <2>1, <2>2, <2>3 DEF File
<1>6. NothingElseLost'
  <2>1. run.at = "settings" => Own(run.at) # None
    BY DEF InOrder, Own
  <2>2. "settings" \in File BY DEF File
  <2>3. UNCHANGED <<edits, exposed>> OBVIOUS
  <2>4. run.at = "settings" => file'["settings"].own # None
    BY <1>2, <2>1, <2>2
  <2>5. run.at # "settings" => file'["settings"] = file["settings"] /\ added' = added
    BY <1>2, <2>2
  <2>6. \A f \in File \ exposed :
          (run'.pc = "write" /\ run'.at = f) \/ file'[f].others \in {edits[f], Absent}
    BY <1>1, <1>2 DEF NothingElseLost, HeldIsRead
  <2>7. QED BY <2>3, <2>4, <2>5, <2>6 DEF NothingElseLost
<1>7. QED BY <1>3, <1>4, <1>5, <1>6

LEMMA OthersEditIInv ==
  ASSUME IInv, NEW f \in {"gitignore", "settings"}, OthersEdit(f)
  PROVE  IInv'
<1> USE DEF IInv, OthersEdit
<1>1. /\ f \in File
      /\ edits'[f] \in 0..MaxEdits
      /\ \A g \in File : /\ file'[g].own = file[g].own
                         /\ g # f => file'[g] = file[g] /\ edits'[g] = edits[g]
                         /\ g = f => file'[g].others = edits'[g]
  BY SetupAssumption DEF TypeOK, File
<1>2. TypeOK'
  <2>1. edits'[f] \in Content BY <1>1 DEF Content
  <2>2. file' \in [File -> [own : Token \cup {"entry", None}, others : Content]]
    BY <2>1 DEF TypeOK
  <2>3. QED BY <1>1, <2>2 DEF TypeOK
<1>3. HeldIsRead' BY <1>1 DEF HeldIsRead, TypeOK, Run, File
<1>4. InOrder'
  <2>1. edits'[f] \notin {Cut, Absent} BY <1>1, SetupAssumption
  <2>2. "settings" \in File /\ "gitignore" \in File /\ "env" \in File BY DEF File
  <2>3. file["settings"].others \notin {Cut, Absent}
          => file'["settings"].others \notin {Cut, Absent}
    BY <1>1, <2>1, <2>2
  <2>4. \A g \in File : file'[g].own = file[g].own BY <1>1
  <2>5. UNCHANGED <<run, private>> OBVIOUS
  <2>6. QED BY <2>2, <2>3, <2>4, <2>5 DEF InOrder, TypeOK, Run
<1>5. NothingElseLost' BY <1>1 DEF NothingElseLost
<1>6. QED BY <1>2, <1>3, <1>4, <1>5

LEMMA NextIInv == IInv /\ [Next]_vars => IInv'
<1> SUFFICES ASSUME IInv, [Next]_vars PROVE IInv' OBVIOUS
<1>1. CASE UNCHANGED vars
  BY <1>1 DEF vars, IInv, TypeOK, HeldIsRead, InOrder, NothingElseLost, Own
<1>2. CASE Reads BY <1>2, ReadsIInv
<1>3. CASE Truncate BY <1>3, TruncateIInv
<1>4. CASE Write BY <1>4, WriteIInv
<1>5. CASE \E f \in {"gitignore", "settings"} : OthersEdit(f) BY <1>5, OthersEditIInv
<1>6. QED BY <1>1, <1>2, <1>3, <1>4, <1>5 DEF Next, Step, Reads

LEMMA Invariant == Spec => []IInv
BY InitIInv, NextIInv, PTL DEF Spec

-----------------------------------------------------------------------------

\* The types the script relies on: what it writes it has read before.
THEOREM TypeCorrect == Spec => []TypeOK
<1>1. IInv => TypeOK BY DEF IInv
<1>2. QED BY <1>1, Invariant, PTL

\* Exit code 0 tells the truth: the three files agree on this run's token and
\* .env.glm is private, whatever earlier runs left behind.
THEOREM ExitZeroIsTrue == Spec => []SuccessMeansConfigured
<1>1. IInv => SuccessMeansConfigured
  BY DEF IInv, InOrder, SuccessMeansConfigured, Own, File
<1>2. QED BY <1>1, Invariant, PTL

\* No run loses what others have put into the two shared files outside of env,
\* unless the file was edited under its hands or its rewriting was cut off; and
\* their variables in env are only ever exchanged for the script's.
THEOREM OthersAreKept == Spec => []NothingElseLost
<1>1. IInv => NothingElseLost BY DEF IInv
<1>2. QED BY <1>1, Invariant, PTL

\* Success is never reported over settings that an earlier run cut off.
THEOREM WreckIsNotSuccess == Spec => []CutSettingsAreNotPassedOff
<1>1. IInv => CutSettingsAreNotPassedOff
  BY DEF IInv, InOrder, CutSettingsAreNotPassedOff
<1>2. QED BY <1>1, Invariant, PTL

=============================================================================
