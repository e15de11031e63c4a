-------------------------- MODULE MarkdownFileProofs --------------------------
(***************************************************************************)
(* MarkdownFile for every number of saves, calls, failed writes and crashes: *)
(* its type invariant, and that a quiet watcher means a save that was read.  *)
(***************************************************************************)
EXTENDS MarkdownFile, TLAPS

\* Nothing is later than the clock.
InThePast ==
    /\ file.mtime <= now /\ baseTime <= now
    /\ lastModTime <= now /\ stat <= now

\* writeFile holds the lock from the truncation to its end, and until it is
\* released no other time is noted.
Locked ==
    /\ mu = "writer" <=> sync \in {"fixing", "restore", "writing", "noting"}
    /\ mu = "writer" => lastModTime <= file.mtime

\* A save that met no call of the Client is in the file, or back in it when
\* the write that is under way ends.
LastSaveKept ==
    ~missable /\ ~saving =>
        /\ file.user = saves
        /\ file.whole \/ sync \in {"fixing", "writing"}
        /\ sync \in {"normalise", "fixing", "restore"} \/ Writing => base = saves

\* An event that will pass the comparison of times, also after readFile has put
\* the time back that it found.
EventComing ==
    /\ "write" \in pending /\ file.mtime >= lastModTime
    /\ Reading => baseTime >= lastModTime

\* Something that leads to a report is under way.
Coming ==
    \/ saving \/ report \/ timer # "off" \/ watch = "set"
    \/ watch = "compare" /\ stat >= lastModTime
    \/ EventComing

\* A pull that has not come to reading the file, or is still in readFile.
PullUnderWay == job = "pull" /\ (sync = "stat" \/ Reading)

\* What no pull has read is coming, or a pull is about to read it.
NothingMissed == missable \/ seen = saves \/ Coming \/ PullUnderWay

\* The event of the client's own write, until the lock is released.
EchoUnderWay ==
    sync \in {"restore", "noting"} =>
        \/ missable \/ "write" \in pending \/ watch = "set"
        \/ watch = "compare" /\ stat = file.mtime

IInv ==
    /\ TypeOK
    /\ InThePast /\ Locked /\ LastSaveKept
    /\ NothingMissed /\ EchoUnderWay

\* Every step of the editor and of both goroutines keeps the types.
LEMMA TypeStep ==
    TypeOK /\ [Next]_vars => TypeOK'
<1> SUFFICES ASSUME TypeOK, [Next]_vars PROVE TypeOK'
  OBVIOUS
<1> USE MarkdownFileAssumption DEF TypeOK, Kinds, Jobs, Stamp, Begin, BeginDue, Rest
<1>1. CASE BeginSave
  <2>1. missable' \in BOOLEAN
    BY <1>1, Zenon DEF BeginSave, Racing
  <2> QED
    BY <2>1, <1>1 DEF BeginSave, Disk, Notify, watchVars, syncVars
<1>2. CASE EndSave
  <2> USE <1>2 DEF EndSave
  <2>1. PICK dirty \in BOOLEAN : Disk(saves, dirty, TRUE)
    OBVIOUS
  <2>2. now' \in Nat /\ file' \in [user : 0 .. MaxSaves, dirty : BOOLEAN, whole : BOOLEAN, mtime : Nat]
    BY <2>1 DEF Disk
  <2>3. saves' = saves /\ saving' \in BOOLEAN
    OBVIOUS
  <2>4. missable' \in BOOLEAN
    BY Zenon
  <2> QED
    BY <2>2, <2>3, <2>4 DEF Notify, watchVars, syncVars
<1>3. CASE RenameSave
  BY <1>3 DEF RenameSave, Stamp, Disk, Notify, watchVars, syncVars
<1>4. CASE BeginPull
  <2>1. report' \in BOOLEAN
    BY <1>4, Zenon DEF BeginPull
  <2> QED
    BY <2>1, <1>4 DEF BeginPull, editorVars, watchVars
<1>5. CASE BeginPush
  BY <1>5 DEF BeginPush, editorVars, watchVars
<1>6. CASE StatFile
  BY <1>6 DEF StatFile, editorVars, watchVars
<1>7. CASE ReadNothing
  BY <1>7 DEF ReadNothing, editorVars, watchVars
<1>8. CASE ReadContent
  BY <1>8 DEF ReadContent, Learn, editorVars, watchVars
<1>9. CASE BeginNormalise
  BY <1>9 DEF BeginNormalise, OpenTruncated, Stamp, Disk, Notify, editorVars, watchVars
<1>10. CASE WriteNormalised
  BY <1>10 DEF WriteNormalised, WriteRendered, Stamp, Disk, Notify, editorVars, watchVars
<1>11. CASE RestoreModTime
  BY <1>11 DEF RestoreModTime, Notify, Learn, editorVars, watchVars
<1>12. CASE ReturnLists
  <2>1. fresh' \in BOOLEAN
    BY <1>12, Zenon DEF ReturnLists
  <2> QED
    BY <2>1, <1>12 DEF ReturnLists, editorVars, watchVars
<1>13. CASE UpdateFails
  <2>1. fresh' \in BOOLEAN
    BY <1>13, Zenon DEF UpdateFails
  <2> QED
    BY <2>1, <1>13 DEF UpdateFails, editorVars, watchVars
<1>14. CASE BeginWrite
  BY <1>14 DEF BeginWrite, OpenTruncated, Stamp, Disk, Notify, editorVars, watchVars
<1>15. CASE Write
  BY <1>15 DEF Write, WriteRendered, Stamp, Disk, Notify, editorVars, watchVars
<1>16. CASE NoteModTime
  BY <1>16 DEF NoteModTime, AfterWrite, editorVars, watchVars
<1>17. CASE IgnoreEvent
  BY <1>17 DEF IgnoreEvent, editorVars, watchVars, syncVars
<1>18. CASE TakeEvent
  BY <1>18 DEF TakeEvent, editorVars, syncVars
<1>19. CASE CompareModTime
  BY <1>19 DEF CompareModTime, editorVars, syncVars
<1>20. CASE SetModTime
  BY <1>20 DEF SetModTime, editorVars, syncVars
<1>21. CASE SendReport
  BY <1>21 DEF SendReport, editorVars, syncVars
<1>22. CASE WriteFails
  <2>1. fresh' \in BOOLEAN /\ missable' \in BOOLEAN
    BY <1>22, Zenon DEF WriteFails, CutOff
  <2> QED
    BY <2>1, <1>22 DEF WriteFails, watchVars
<1>23. CASE Crash
  <2>1. fresh' \in BOOLEAN /\ missable' \in BOOLEAN /\ report' \in BOOLEAN
    BY <1>23, Zenon DEF Crash, CutOff
  <2> QED
    BY <2>1, <1>23 DEF Crash
<1>24. CASE UNCHANGED vars
  BY <1>24 DEF vars, editorVars, watchVars, syncVars
<1> QED
  BY <1>1, <1>2, <1>3, <1>4, <1>5, <1>6, <1>7, <1>8, <1>9, <1>10, <1>11, <1>12, <1>13, <1>14, <1>15, <1>16, <1>17, <1>18, <1>19, <1>20, <1>21, <1>22, <1>23, <1>24 DEF Next, Editor, Reader, Writer, WatchLoop

\* Every step of the editor, of both goroutines and every fault keeps the
\* whole invariant.
LEMMA InvariantStep == IInv /\ [Next]_vars => IInv'
<1> SUFFICES ASSUME IInv, [Next]_vars PROVE IInv'
  OBVIOUS
<1>0. TypeOK /\ TypeOK'
  BY TypeStep DEF IInv
<1> SUFFICES (InThePast /\ Locked /\ LastSaveKept /\ NothingMissed /\ EchoUnderWay)'
  BY <1>0 DEF IInv
<1> USE <1>0, MarkdownFileAssumption
    DEF TypeOK, IInv, InThePast, Locked, LastSaveKept, NothingMissed, EchoUnderWay, Coming,
        EventComing, PullUnderWay, Reading, Writing, Racing, Stamp, Begin, BeginDue, Rest
<1>1. CASE BeginSave
  BY <1>1, SMTT(30) DEF BeginSave, Disk, Notify, watchVars, syncVars
<1>2. CASE EndSave
  <2>1. PICK dirty \in BOOLEAN : Disk(saves, dirty, TRUE)
    BY <1>2 DEF EndSave
  <2>2. file'.user = saves' /\ file'.whole /\ file'.mtime = now' /\ ~saving'
    BY <2>1, <1>2 DEF Disk, EndSave
  <2>3. missable' \/ (~missable /\ ~Reading /\ ~Writing)
    BY <1>2, Zenon DEF EndSave, Racing
  <2> QED
    BY <2>2, <2>3, <1>2, SMTT(30) DEF EndSave, Notify, watchVars, syncVars
<1>3. CASE RenameSave
  BY <1>3, SMTT(30) DEF RenameSave, Disk, Notify, watchVars, syncVars
<1>4. CASE BeginPull
  BY <1>4, SMTT(30) DEF BeginPull, editorVars, watchVars
<1>5. CASE BeginPush
  BY <1>5, SMTT(30) DEF BeginPush, editorVars, watchVars
<1>6. CASE StatFile
  BY <1>6, SMTT(30) DEF StatFile, editorVars, watchVars
<1>7. CASE ReadNothing
  BY <1>7, SMTT(30) DEF ReadNothing, editorVars, watchVars
<1>8. CASE ReadContent
  BY <1>8, SMTT(30) DEF ReadContent, Learn, editorVars, watchVars
<1>9. CASE BeginNormalise
  BY <1>9, SMTT(30) DEF BeginNormalise, OpenTruncated, Disk, Notify, editorVars, watchVars
<1>10. CASE WriteNormalised
  BY <1>10, SMTT(30) DEF WriteNormalised, WriteRendered, Disk, Notify, editorVars, watchVars
<1>11. CASE RestoreModTime
  BY <1>11, SMTT(30) DEF RestoreModTime, Notify, Learn, editorVars, watchVars
<1>12. CASE ReturnLists
  BY <1>12, SMTT(30) DEF ReturnLists, editorVars, watchVars
<1>13. CASE UpdateFails
  BY <1>13, SMTT(30) DEF UpdateFails, editorVars, watchVars
<1>14. CASE BeginWrite
  BY <1>14, SMTT(30) DEF BeginWrite, OpenTruncated, Disk, Notify, editorVars, watchVars
<1>15. CASE Write
  BY <1>15, SMTT(30) DEF Write, WriteRendered, Disk, Notify, editorVars, watchVars
<1>16. CASE NoteModTime
  BY <1>16, SMTT(30) DEF NoteModTime, AfterWrite, editorVars, watchVars
<1>17. CASE IgnoreEvent
  BY <1>17, SMTT(30) DEF IgnoreEvent, editorVars, watchVars, syncVars
<1>18. CASE TakeEvent
  BY <1>18, SMTT(30) DEF TakeEvent, editorVars, syncVars
<1>19. CASE CompareModTime
  BY <1>19, SMTT(30) DEF CompareModTime, editorVars, syncVars
<1>20. CASE SetModTime
  BY <1>20, SMTT(30) DEF SetModTime, editorVars, syncVars
<1>21. CASE SendReport
  BY <1>21, SMTT(30) DEF SendReport, editorVars, syncVars
<1>22. CASE WriteFails
  <2>1. missable' \/ (~missable /\ sync \in {"restore", "noting"})
    BY <1>22, Zenon DEF WriteFails, CutOff
  <2> QED
    BY <2>1, <1>22, SMTT(30) DEF WriteFails, watchVars
<1>23. CASE Crash
  <2>1. missable' \/ (~missable /\ sync \notin {"fixing", "writing"})
    BY <1>23, Zenon DEF Crash, CutOff
  <2> QED
    BY <2>1, <1>23, SMTT(30) DEF Crash
<1>24. CASE UNCHANGED vars
  BY <1>24, SMTT(30) DEF vars, editorVars, watchVars, syncVars
<1> QED
  BY <1>1, <1>2, <1>3, <1>4, <1>5, <1>6, <1>7, <1>8, <1>9, <1>10, <1>11, <1>12, <1>13, <1>14, <1>15, <1>16, <1>17, <1>18, <1>19, <1>20, <1>21, <1>22, <1>23, <1>24 DEF Next, Editor, Reader, Writer, WatchLoop

\* What the program starts with has its type.
LEMMA InitTyped == Init => TypeOK
<1> SUFFICES ASSUME Init PROVE TypeOK
  OBVIOUS
<1> USE DEF Init
<1>1. file \in [user : 0 .. MaxSaves, dirty : BOOLEAN, whole : BOOLEAN, mtime : Nat]
      /\ base \in 0 .. MaxSaves /\ seen \in 0 .. MaxSaves /\ saves \in 0 .. MaxSaves
  BY MarkdownFileAssumption
<1>2. {saving, report, fresh, missable} \subseteq BOOLEAN
  BY Zenon
<1>3. now \in Nat /\ lastModTime \in Nat /\ stat \in Nat /\ baseTime \in Nat
      /\ calls \in 0 .. MaxCalls /\ faults \in 0 .. MaxFaults
  BY MarkdownFileAssumption
<1> QED
  BY <1>1, <1>2, <1>3 DEF TypeOK, Kinds, Jobs

\* The types hold in every state of every behaviour, whatever the editor does.
THEOREM TypeCorrect == Spec => []TypeOK
<1> QED
  BY InitTyped, TypeStep, PTL DEF Spec

\* The user's last save does not escape the watcher, for any number of saves,
\* calls, failed writes and crashes, and any clock (watcher.go, client.go
\* readFile and writeFile).
THEOREM ReadAtRest == Spec => []QuietMeansRead
<1>1. Init => IInv
  BY InitTyped
     DEF Init, IInv, InThePast, Locked, LastSaveKept, NothingMissed, EchoUnderWay, Writing
<1>2. IInv /\ [Next]_vars => IInv'
  BY InvariantStep
<1>3. IInv => QuietMeansRead
  BY DEF IInv, NothingMissed, Coming, EventComing, PullUnderWay, Reading, QuietMeansRead, Quiet
<1> QED
  BY <1>1, <1>2, <1>3, PTL DEF Spec
=============================================================================
