-------------------------- MODULE NginxReloadProofs --------------------------
(***************************************************************************)
(* Theorems about NginxReload, for any routes, handlers and bounds.        *)
(***************************************************************************)
EXTENDS NginxReload, TLAPS

\* From its rendering on, a flush has a text.
Rendered == flush.step \notin {"none", "fetch"} => flush.text \in Text

\* The types, with what the version of the mappings and the text rely on.
TypeInv == TypeOK /\ db.mapping <= changes /\ Rendered

-----------------------------------------------------------------------------
(* Types *)

LEMMA TypeInit == Init => TypeInv
  <1> SUFFICES ASSUME Init PROVE TypeInv
    OBVIOUS
  <1>1. 0 \in 0 .. MaxChanges /\ 0 \in 0 .. MaxFaults /\ 0 \in 0 .. MaxCrashes
    BY NginxConstants
  <1>2. Nobody \notin Handler /\ Nobody # Boot
    BY NginxConstants
  <1>3. IdleHandler \in [pc : HandlerPc, flushes : BOOLEAN, mapping : 0 .. MaxChanges]
    BY <1>1 DEF IdleHandler, HandlerPc
  <1>4. NoFlush \in [by : Handler \cup {Loop, Boot, Nobody}, step : FlushStep,
                     text : {NoText} \cup Text]
    BY DEF NoFlush, FlushStep
  <1>5. {} \in Text
    BY DEF Text
  <1>6. handler \in [Handler -> [pc : HandlerPc, flushes : BOOLEAN, mapping : 0 .. MaxChanges]]
    BY <1>3 DEF Init
  <1>7. /\ db \in [routes : Text, mapping : 0 .. MaxChanges] /\ db.mapping = 0
        /\ disk \in Disk
    BY <1>1, <1>5 DEF Init, Disk
  <1>8. flush.by = Nobody /\ flush.step = "none"
    BY DEF Init, NoFlush
  <1>9. TypeOK
    BY <1>1, <1>2, <1>4, <1>5, <1>6, <1>7, <1>8 DEF Init, TypeOK
  <1> QED
    BY <1>7, <1>8, <1>9 DEF Init, TypeInv, Rendered

LEMMA FaultyType ==
  ASSUME TypeOK, NEW kind, Faulty(kind)
  PROVE  faults' \in 0 .. MaxFaults
  BY NginxConstants DEF TypeOK, Faulty

\* A flusher that releases the lock.
LEMMA ReleaseType ==
  ASSUME TypeOK, NEW text \in {NoText} \cup Text, Release(text),
         ~At("none"), disk'.config \in {NoText} \cup Text
  PROVE  /\ handler' \in [Handler -> [pc : HandlerPc, flushes : BOOLEAN,
                                      mapping : 0 .. MaxChanges]]
         /\ loop' \in {"sleep", "wait"}
         /\ lastHash' \in {NoText} \cup Text
         /\ flush' = NoFlush
  <1>1. lastHash' \in {NoText} \cup Text /\ flush' = NoFlush
    BY DEF Release
  <1>2. CASE flush.by \in Handler
    <2>1. [handler[flush.by] EXCEPT !.pc = "returned"]
            \in [pc : HandlerPc, flushes : BOOLEAN, mapping : 0 .. MaxChanges]
      BY <1>2 DEF TypeOK, HandlerPc
    <2>2. handler' = [handler EXCEPT ![flush.by] = [handler[flush.by] EXCEPT !.pc = "returned"]]
          /\ loop' = loop
      BY <1>2 DEF Release
    <2>3. loop # "off"
      BY <1>2, NginxConstants DEF TypeOK
    <2> QED
      BY <1>1, <2>1, <2>2, <2>3 DEF TypeOK
  <1>3. CASE flush.by \notin Handler
    BY <1>1, <1>3 DEF Release, TypeOK
  <1> QED
    BY <1>2, <1>3

LEMMA RestartType ==
  ASSUME TypeOK, Restart, UNCHANGED <<db, changes, faults>>,
         crashes' \in 0 .. MaxCrashes
  PROVE  TypeOK' /\ Rendered'
  <1>1. IdleHandler \in [pc : HandlerPc, flushes : BOOLEAN, mapping : 0 .. MaxChanges]
    BY NginxConstants DEF IdleHandler, HandlerPc
  <1>2. disk' \in Disk
    BY NginxConstants DEF Restart, TypeOK, Disk
  <1> QED
    BY <1>1, <1>2, NginxConstants DEF Restart, TypeOK, FlushStep, Rendered

LEMMA TypeNext == TypeInv /\ [Next]_vars => TypeInv'
  <1> SUFFICES ASSUME TypeInv, [Next]_vars PROVE TypeInv'
    OBVIOUS
  <1> USE NginxConstants DEF TypeInv, Rendered
  <1>m. ASSUME NEW h \in Handler, NEW pc \in HandlerPc, NEW f \in BOOLEAN,
               NEW m \in 0 .. MaxChanges,
               handler' = [handler EXCEPT ![h] = [pc |-> pc, flushes |-> f, mapping |-> m]]
        PROVE  handler' \in [Handler -> [pc : HandlerPc, flushes : BOOLEAN,
                                         mapping : 0 .. MaxChanges]]
    BY <1>m DEF TypeOK
  <1>1. ASSUME NEW h \in Handler, NEW r \in Route, NEW flushes \in BOOLEAN,
               ChangeRoute(h, r, flushes)
        PROVE  TypeInv'
    <2>1. /\ db' \in [routes : Text, mapping : 0 .. MaxChanges] /\ db'.mapping = db.mapping
          /\ changes' \in 0 .. MaxChanges /\ changes < changes'
      BY <1>1 DEF ChangeRoute, TypeOK, Text
    <2>2. handler' \in [Handler -> [pc : HandlerPc, flushes : BOOLEAN,
                                    mapping : 0 .. MaxChanges]]
      BY <1>1 DEF ChangeRoute, TypeOK, HandlerPc
    <2>3. flush.by \in Handler => handler'[flush.by] = handler[flush.by]
      BY <1>1 DEF ChangeRoute, TypeOK
    <2> QED
      BY <1>1, <2>1, <2>2, <2>3 DEF ChangeRoute, TypeOK
  <1>2. ASSUME NEW h \in Handler, ChangeMapping(h) PROVE TypeInv'
    <2>1. /\ db' \in [routes : Text, mapping : 0 .. MaxChanges]
          /\ changes' \in 0 .. MaxChanges /\ db'.mapping <= changes'
          /\ db.mapping + 1 \in 0 .. MaxChanges
      BY <1>2 DEF ChangeMapping, TypeOK, Text
    <2>2. handler' \in [Handler -> [pc : HandlerPc, flushes : BOOLEAN,
                                    mapping : 0 .. MaxChanges]]
      BY <1>2, <2>1 DEF ChangeMapping, TypeOK, HandlerPc
    <2>3. flush.by \in Handler => handler'[flush.by] = handler[flush.by]
      BY <1>2 DEF ChangeMapping, TypeOK
    <2> QED
      BY <1>2, <2>1, <2>2, <2>3 DEF ChangeMapping, TypeOK
  <1>3. ASSUME NEW h \in Handler, MarkDirty(h) PROVE TypeInv'
    <2>1. handler' \in [Handler -> [pc : HandlerPc, flushes : BOOLEAN,
                                    mapping : 0 .. MaxChanges]]
      BY <1>3 DEF MarkDirty, TypeOK, HandlerPc, IdleHandler
    <2>2. flush.by \in Handler => handler'[flush.by] = handler[flush.by]
      BY <1>3 DEF MarkDirty, TypeOK
    <2> QED
      BY <1>3, <2>1, <2>2 DEF MarkDirty, TypeOK
  <1>4. ASSUME NEW h \in Handler, Answered(h) PROVE TypeInv'
    <2>1. handler' \in [Handler -> [pc : HandlerPc, flushes : BOOLEAN,
                                    mapping : 0 .. MaxChanges]]
      BY <1>4 DEF Answered, TypeOK, HandlerPc, IdleHandler
    <2>2. flush.by \in Handler => handler'[flush.by] = handler[flush.by]
      BY <1>4 DEF Answered, TypeOK
    <2> QED
      BY <1>4, <2>1, <2>2 DEF Answered, TypeOK
  <1>5. ASSUME NEW r \in Route, ExternalChange(r) PROVE TypeInv'
    BY <1>5 DEF ExternalChange, TypeOK, Text
  <1>6. ASSUME NEW p \in Handler \cup {Loop}, BeginFlush(p) PROVE TypeInv'
    BY <1>6 DEF BeginFlush, Waiting, TypeOK, FlushStep
  <1>7. CASE LoopWakes \/ LoopIdles \/ CoolingEnds \/ UNCHANGED vars
    BY <1>7 DEF LoopWakes, LoopIdles, CoolingEnds, vars, TypeOK
  \* What all ways to release the lock have in common.
  <1>r. ASSUME NEW text \in {NoText} \cup Text, Release(text), ~At("none"),
               disk' \in Disk,
               nginx' \in {NoText} \cup Text, cooling' \in BOOLEAN, dirty' \in BOOLEAN,
               faults' \in 0 .. MaxFaults, UNCHANGED <<db, changes, crashes>>
        PROVE  TypeInv'
    <2>1. disk'.config \in {NoText} \cup Text
      BY <1>r DEF Disk
    <2>2. /\ handler' \in [Handler -> [pc : HandlerPc, flushes : BOOLEAN,
                                       mapping : 0 .. MaxChanges]]
          /\ loop' \in {"sleep", "wait"} /\ lastHash' \in {NoText} \cup Text
          /\ flush' = NoFlush
      BY <1>r, <2>1, ReleaseType
    <2> QED
      BY <1>r, <2>2 DEF TypeOK, NoFlush, FlushStep
  \* A step of the flush that keeps the lock.
  <1>k. ASSUME ~At("none"), NEW step \in FlushStep \ {"none"}, NEW text \in Text,
               flush' = [flush EXCEPT !.step = step, !.text = text],
               disk' \in Disk,
               faults' \in 0 .. MaxFaults,
               UNCHANGED <<db, handler, loop, lastHash, dirty, nginx, cooling, changes, crashes>>
        PROVE  TypeInv'
    BY <1>k DEF TypeOK, At
  <1>8. CASE Fetch
    <2>1. CASE /\ flush' = [flush EXCEPT !.step = "render", !.text = db.routes \cap Server]
               /\ UNCHANGED <<handler, loop, lastHash, dirty, faults>>
      BY <1>8, <1>k, <2>1 DEF Fetch, At, TypeOK, Text, FlushStep
    <2>2. CASE flush.by # Boot /\ Faulty("fetch") /\ Retry
      <3>1. faults' \in 0 .. MaxFaults
        BY <2>2, FaultyType
      <3> QED
        BY <1>8, <1>r, <2>2, <3>1 DEF Fetch, Retry, At, TypeOK
    <2> QED
      BY <1>8, <2>1, <2>2 DEF Fetch
  <1>d. ASSUME NEW text \in Text, RenderDone(text), At("render"),
               faults' \in 0 .. MaxFaults,
               UNCHANGED <<db, dirty, disk, nginx, cooling, changes, crashes>>
        PROVE  TypeInv'
    <2>1. CASE flush.by # Boot /\ text = lastHash
      BY <1>d, <1>r, <2>1 DEF RenderDone, At, TypeOK
    <2>2. CASE ~(flush.by # Boot /\ text = lastHash)
      BY <1>d, <1>k, <2>2 DEF RenderDone, At, TypeOK, FlushStep
    <2> QED
      BY <2>1, <2>2
  <1>9. CASE Render
    <2>1. flush.text \in Text /\ flush.text \cup (db.routes \ Server) \in Text
      BY <1>9 DEF Render, At, TypeOK, Text
    <2>2. CASE RenderDone(flush.text \cup (db.routes \ Server)) /\ UNCHANGED <<dirty, faults>>
      BY <1>9, <1>d, <2>1, <2>2 DEF Render, TypeOK
    <2>3. CASE Faulty("section") /\ RenderDone(flush.text) /\ UNCHANGED dirty
      BY <1>9, <1>d, <2>1, <2>3, FaultyType DEF Render
    <2>4. CASE Faulty("render") /\ Release(lastHash) /\ UNCHANGED dirty
      BY <1>9, <1>r, <2>4, FaultyType DEF Render, TypeOK, At
    <2> QED
      BY <1>9, <2>2, <2>3, <2>4 DEF Render
  <1>10. CASE WriteMappings
    <2>1. flush.text \in Text /\ ~At("none")
      BY <1>10 DEF WriteMappings, At
    <2>2. flush' = [flush EXCEPT !.step = "promote", !.text = flush.text]
      BY <1>10 DEF WriteMappings, Continue, TypeOK
    <2>3. disk' \in Disk
      BY <1>10 DEF WriteMappings, TypeOK, Disk
    <2>4. faults' \in 0 .. MaxFaults
      BY <1>10, FaultyType DEF WriteMappings, TypeOK
    <2> QED
      BY <1>10, <1>k, <2>1, <2>2, <2>3, <2>4 DEF WriteMappings, Continue, FlushStep
  <1>11. CASE Promote
    <2>1. flush.text \in Text /\ ~At("none")
      BY <1>11 DEF Promote, At
    <2>2. CASE /\ disk' = Promoted(disk, flush.text) /\ Continue("test")
               /\ UNCHANGED <<dirty, faults>>
      <3>1. flush' = [flush EXCEPT !.step = "test", !.text = flush.text]
        BY <2>2 DEF Continue, TypeOK
      <3>2. disk' \in Disk
        BY <2>1, <2>2 DEF Promoted, TypeOK, Disk
      <3> QED
        BY <1>11, <1>k, <2>1, <2>2, <3>1, <3>2 DEF Promote, Continue, FlushStep, TypeOK
    <2>3. CASE Faulty("write") /\ UNCHANGED disk /\ Retry
      BY <1>11, <1>r, <2>1, <2>3, FaultyType DEF Promote, Retry, TypeOK
    <2> QED
      BY <1>11, <2>2, <2>3 DEF Promote
  <1>12. CASE Test
    <2>1. flush.text \in Text /\ ~At("none")
      BY <1>12 DEF Test, At
    <2>2. /\ disk' \in Disk
          /\ faults' \in 0 .. MaxFaults
      BY <1>12, FaultyType DEF Test, Accepted, TypeOK, Disk
    <2>3. PICK step \in {"reload", "restore"} :
            flush' = [flush EXCEPT !.step = step] /\ UNCHANGED <<handler, loop, lastHash>>
      BY <1>12 DEF Test, Continue
    <2>4. flush' = [flush EXCEPT !.step = step, !.text = flush.text]
      BY <2>3 DEF TypeOK
    <2> QED
      BY <1>12, <1>k, <2>1, <2>2, <2>3, <2>4 DEF Test, FlushStep
  <1>16. CASE Restore
    <2>1. ~At("none")
      BY <1>16 DEF Restore, At
    <2>2. /\ disk' \in Disk
          /\ faults' \in 0 .. MaxFaults
      BY <1>16, FaultyType DEF Restore, Restored, TypeOK, Disk
    <2> QED
      BY <1>16, <1>r, <2>1, <2>2 DEF Restore, Retry, TypeOK
  <1>13. CASE Reload
    <2>1. flush.text \in Text /\ ~At("none") /\ UNCHANGED disk
      BY <1>13 DEF Reload, At
    <2>2. CASE /\ nginx' = disk.config /\ cooling' = TRUE /\ Release(flush.text)
               /\ UNCHANGED <<dirty, faults>>
      BY <1>13, <1>r, <2>1, <2>2 DEF Reload, TypeOK, Disk
    <2>3. CASE /\ \/ cooling /\ UNCHANGED faults
                  \/ ~cooling /\ Faulty(IF nginx = NoText THEN "lateNginx" ELSE "reload")
               /\ Retry /\ UNCHANGED <<nginx, cooling>>
      <3>1. faults' \in 0 .. MaxFaults
        BY <2>3, FaultyType DEF TypeOK
      <3> QED
        BY <1>13, <1>r, <2>1, <2>3, <3>1 DEF Reload, Retry, TypeOK
    <2> QED
      BY <1>13, <2>2, <2>3 DEF Reload
  <1>14. CASE Crash
    <2>1. crashes' \in 0 .. MaxCrashes
      BY <1>14 DEF Crash, TypeOK
    <2>2. Restart /\ UNCHANGED <<db, changes, faults>>
      BY <1>14 DEF Crash, Restart
    <2> QED
      BY <2>1, <2>2, RestartType
  <1>15. CASE StartNginx
    <2>1. CASE Valid(disk.config)
      <3>1. /\ nginx' = disk.config
            /\ UNCHANGED <<db, handler, loop, dirty, lastHash, flush, disk, cooling,
                           changes, faults, crashes>>
        BY <1>15, <2>1 DEF StartNginx
      <3>2. disk.config \in {NoText} \cup Text
        BY DEF TypeOK, Disk
      <3> QED
        BY <3>1, <3>2 DEF TypeOK
    <2>2. CASE ~Valid(disk.config)
      <3>1. Restart /\ crashes' \in 0 .. MaxCrashes
        BY <1>15, <2>2 DEF StartNginx, TypeOK
      <3> QED
        BY <3>1, RestartType DEF Restart
    <2> QED
      BY <2>1, <2>2
  <1> QED
    BY <1>1, <1>2, <1>3, <1>4, <1>5, <1>6, <1>7, <1>8, <1>9, <1>10, <1>11, <1>12, <1>13,
       <1>14, <1>15, <1>16 DEF Next, FlushStepTaken

LEMMA TypeCorrectInv == Spec => []TypeInv
  BY TypeInit, TypeNext, PTL DEF Spec

\* The scheduler, the flush, the files and nginx keep their types, and the lock
\* agrees with the step of the flush and with who runs it, through failures of
\* any calls and restarts at any point.
THEOREM TypeCorrect == Spec => []TypeOK
  <1>1. TypeInv => TypeOK
    BY DEF TypeInv
  <1> QED
    BY <1>1, TypeCorrectInv, PTL

-----------------------------------------------------------------------------
(* The files *)

\* A candidate under trial, or just accepted, is the live config.
Trial == flush.step \in {"test", "restore", "reload"}
           => disk.config = flush.text /\ flush.text \in Text

\* The config nginx would have to boot from if the trial of the candidate failed.
LastGood == IF OnTrial THEN disk.backup ELSE disk.config

\* What a step may do to the live config and to its copy.
KeepsFiles == /\ disk'.config = disk.config /\ disk'.backup = disk.backup
              /\ disk'.spoiled = disk.spoiled
NoTrial    == {"none", "fetch", "render", "mappings", "promote"}
FilesStep ==
    \/ KeepsFiles /\ UNCHANGED flush
    \/ KeepsFiles /\ ~OnTrial /\ flush'.step \in NoTrial
    \/ /\ flush'.step = "test" /\ ~OnTrial /\ flush'.text = flush.text /\ flush.text \in Text
       /\ disk'.config = flush.text /\ disk'.backup = disk.config
       /\ disk'.spoiled = disk.spoiled
    \/ /\ flush'.step = "reload" /\ flush.step = "test" /\ flush'.text = flush.text
       /\ disk'.config = disk.config /\ Valid(flush.text)
    \/ /\ KeepsFiles /\ flush'.step = "restore" /\ flush.step = "test"
       /\ flush'.text = flush.text
    \/ /\ flush'.step = "none" /\ flush.step = "restore" /\ disk'.config = disk.backup
       /\ disk'.spoiled = disk.spoiled
    \/ flush'.step = "none" /\ flush.step = "restore" /\ disk'.spoiled
    \/ flush'.step = "fetch" /\ loop' = "off"

LEMMA FilesSteps == TypeInv /\ [Next]_vars => FilesStep
  <1> SUFFICES ASSUME TypeInv, [Next]_vars PROVE FilesStep
    OBVIOUS
  <1> USE DEF FilesStep, NoTrial, OnTrial
  <1>0. /\ flush \in [by : Handler \cup {Loop, Boot, Nobody}, step : FlushStep,
                     text : {NoText} \cup Text]
        /\ disk \in [config : {NoText} \cup Text, backup : {NoText} \cup Text,
                    mapping : 0 .. MaxChanges, spoiled : BOOLEAN]
    BY DEF TypeInv, TypeOK, Disk
  <1>n. NoFlush.step = "none"
    BY DEF NoFlush
  <1>1. ASSUME UNCHANGED disk PROVE KeepsFiles
    BY <1>1 DEF KeepsFiles
  <1>2. ASSUME NEW p \in Handler \cup {Loop}, BeginFlush(p) PROVE FilesStep
    <2>1. flush'.step = "fetch" /\ UNCHANGED disk /\ flush.by = Nobody
      BY <1>2 DEF BeginFlush
    <2>2. ~OnTrial
      BY <2>1 DEF TypeInv, TypeOK
    <2> QED
      BY <1>1, <2>1, <2>2
  <1>3. CASE Fetch
    <2>1. UNCHANGED disk /\ ~OnTrial
      BY <1>3 DEF Fetch, At
    <2>2. \/ flush' = [flush EXCEPT !.step = "render", !.text = db.routes \cap Server]
          \/ flush' = NoFlush
      BY <1>3 DEF Fetch, Retry, Release
    <2>3. flush'.step \in {"render", "none"}
      BY <1>0, <1>n, <2>2
    <2> QED
      BY <1>1, <2>1, <2>3
  <1>4. CASE Render
    <2>1. UNCHANGED disk /\ ~OnTrial
      BY <1>4 DEF Render, At
    <2>2. flush' = NoFlush \/ \E text : flush' = [flush EXCEPT !.step = "mappings", !.text = text]
      BY <1>4 DEF Render, RenderDone, Release
    <2>3. flush'.step \in {"mappings", "none"}
      BY <1>0, <1>n, <2>2
    <2> QED
      BY <1>1, <2>1, <2>3
  <1>5. CASE WriteMappings
    <2>1. ~OnTrial /\ flush'.step = "promote"
      BY <1>0, <1>5 DEF WriteMappings, At, Continue
    <2>2. KeepsFiles
      BY <1>0, <1>5 DEF WriteMappings, KeepsFiles
    <2> QED
      BY <2>1, <2>2
  <1>6. CASE Promote
    <2>1. ~OnTrial
      BY <1>6 DEF Promote, At
    <2>2. CASE disk' = Promoted(disk, flush.text) /\ Continue("test")
      <3>1. flush.text \in Text
        BY <1>6 DEF Promote, At, TypeInv, Rendered
      <3>2. flush'.step = "test" /\ flush'.text = flush.text
        BY <1>0, <2>2 DEF Continue
      <3>3. /\ disk'.config = flush.text /\ disk'.backup = disk.config
            /\ disk'.spoiled = disk.spoiled
        BY <1>0, <2>2 DEF Promoted
      <3> QED
        BY <2>1, <3>1, <3>2, <3>3
    <2>3. CASE UNCHANGED disk /\ Retry
      BY <1>1, <1>n, <2>1, <2>3 DEF Retry, Release
    <2> QED
      BY <1>6, <2>2, <2>3 DEF Promote
  <1>7. CASE Test
    <2>1. flush.step = "test"
      BY <1>7 DEF Test, At
    <2>2. CASE Valid(flush.text) /\ disk' = Accepted(disk) /\ Continue("reload")
      BY <1>0, <2>1, <2>2 DEF Continue, Accepted
    <2>3. CASE UNCHANGED disk /\ Continue("restore")
      BY <1>0, <1>1, <2>1, <2>3 DEF Continue
    <2> QED
      BY <1>7, <2>2, <2>3 DEF Test
  <1>12. CASE Restore
    <2>1. flush.step = "restore" /\ flush' = NoFlush
      BY <1>12 DEF Restore, At, Retry, Release
    <2>2. CASE disk' = Restored(disk)
      BY <1>0, <1>n, <2>1, <2>2 DEF Restored
    <2>3. CASE disk' = [disk EXCEPT !.spoiled = TRUE]
      BY <1>0, <1>n, <2>1, <2>3
    <2> QED
      BY <1>12, <2>2, <2>3 DEF Restore
  <1>8. CASE Reload
    <2>1. ~OnTrial /\ UNCHANGED disk /\ flush' = NoFlush
      BY <1>8 DEF Reload, At, Retry, Release
    <2> QED
      BY <1>1, <1>n, <2>1
  <1>9. CASE Crash
    BY <1>9 DEF Crash, Restart
  <1>10. CASE StartNginx
    <2>1. CASE Valid(disk.config)
      <3>1. UNCHANGED disk /\ UNCHANGED flush
        BY <1>10, <2>1 DEF StartNginx
      <3> QED
        BY <1>1, <3>1
    <2>2. CASE ~Valid(disk.config)
      BY <1>10, <2>2 DEF StartNginx, Restart
    <2> QED
      BY <2>1, <2>2
  <1>11. CASE \/ \E h \in Handler :
                  \/ \E r \in Route, flushes \in BOOLEAN : ChangeRoute(h, r, flushes)
                  \/ ChangeMapping(h) \/ MarkDirty(h) \/ Answered(h)
              \/ \E r \in Route : ExternalChange(r)
              \/ LoopWakes \/ LoopIdles \/ CoolingEnds \/ UNCHANGED vars
    <2>1. UNCHANGED disk /\ UNCHANGED flush
      BY <1>11 DEF ChangeRoute, ChangeMapping, MarkDirty, Answered, ExternalChange,
         LoopWakes, LoopIdles, CoolingEnds, vars
    <2> QED
      BY <1>1, <2>1
  <1> QED
    BY <1>2, <1>3, <1>4, <1>5, <1>6, <1>7, <1>8, <1>9, <1>10, <1>11, <1>12
    DEF Next, FlushStepTaken

LEMMA TrialInit == Init => Trial
  BY DEF Init, Trial, NoFlush

\* Only a flush that holds the lock touches the live config.
LEMMA TrialNext == TypeInv /\ Trial /\ [Next]_vars => Trial'
  BY FilesSteps DEF FilesStep, KeepsFiles, NoTrial, Trial

\* A step outside a restart keeps the last good config good, unless a restore
\* fails or has failed and no candidate was accepted since.
LEMMA GoodNext ==
  ASSUME TypeInv, Trial, [Next]_vars, disk.spoiled \/ Valid(LastGood), loop' # "off"
  PROVE  disk'.spoiled \/ Valid(LastGood')
  <1>1. CASE flush'.step = "reload" /\ flush.step = "test"
    <2>1. LastGood' = flush.text /\ Valid(flush.text)
      BY <1>1, FilesSteps DEF FilesStep, LastGood, Trial, NoTrial, OnTrial
    <2> QED
      BY <2>1
  <1>2. CASE ~(flush'.step = "reload" /\ flush.step = "test")
    <2>1. disk'.spoiled \/ (LastGood' = LastGood /\ disk'.spoiled = disk.spoiled)
      BY <1>2, FilesSteps DEF FilesStep, KeepsFiles, LastGood, NoTrial, OnTrial
    <2> QED
      BY <2>1
  <1> QED
    BY <1>1, <1>2

LEMMA TrialCorrect == Spec => [](TypeInv /\ Trial)
  BY TypeInit, TypeNext, TrialInit, TrialNext, PTL DEF Spec

\* Short of a restart of the container, only a restore that fails loses the last
\* config nginx -t accepted: a candidate replaces it only with a copy beside it,
\* a rejected one is taken back, and no other call that fails in between changes
\* that. This holds in every life of the container that came to a valid config
\* at all.
THEOREM GoodStaysGood ==
  Spec => [][/\ disk.spoiled \/ Valid(LastGood)
             /\ loop' # "off"
             => disk'.spoiled \/ Valid(LastGood')]_vars
  <1>1. TypeInv /\ Trial /\ [Next]_vars
          => [/\ disk.spoiled \/ Valid(LastGood)
              /\ loop' # "off"
              => disk'.spoiled \/ Valid(LastGood')]_vars
    BY GoodNext
  <1> QED
    BY <1>1, TrialCorrect, PTL DEF Spec

-----------------------------------------------------------------------------
(* Without restarts *)

\* The registry is up, nginx runs and serves the text whose hash is remembered,
\* and there is a good config unless a restore failed.
UpInv == /\ loop # "off" /\ nginx # NoText /\ nginx = lastHash
         /\ disk.spoiled \/ Valid(LastGood)

LEMMA UpInit == Init => UpInv
  <1> SUFFICES ASSUME Init PROVE UpInv
    OBVIOUS
  <1>1. {} # NoText
    BY NginxConstants
  <1>2. LastGood = {}
    BY DEF Init, LastGood, OnTrial, NoFlush
  <1> QED
    BY <1>1, <1>2 DEF Init, UpInv, Valid

LEMMA NoRestart ==
  ASSUME MaxCrashes = 0, TypeInv, UpInv
  PROVE  ~Crash /\ ~StartNginx
  BY DEF TypeInv, TypeOK, UpInv, Crash, StartNginx

\* A step changes what nginx serves only with the hash.
LEMMA HashNext ==
  ASSUME MaxCrashes = 0, TypeInv, Trial, UpInv, [Next]_vars
  PROVE  loop' # "off" /\ nginx' # NoText /\ nginx' = lastHash'
  <1>1. flush.by # Boot /\ ~Crash /\ ~StartNginx
    BY NoRestart DEF TypeInv, TypeOK, UpInv
  <1> USE <1>1 DEF UpInv
  <1>2. CASE UNCHANGED <<loop, nginx, lastHash>>
    BY <1>2
  <1>3. CASE Fetch
    BY <1>3 DEF Fetch, Retry, Release
  <1>4. CASE Render
    BY <1>4 DEF Render, RenderDone, Release
  <1>5. CASE WriteMappings
    BY <1>5 DEF WriteMappings, Continue
  <1>6. CASE Promote
    BY <1>6 DEF Promote, Continue, Retry, Release
  <1>7. CASE Test
    BY <1>7 DEF Test, Continue
  <1>11. CASE Restore
    BY <1>11 DEF Restore, Retry, Release
  <1>8. CASE Reload
    <2>1. disk.config = flush.text /\ disk.config # NoText
      BY <1>8, NginxConstants DEF Reload, Trial, At, Text
    <2> QED
      BY <1>8, <2>1 DEF Reload, Retry, Release
  <1>9. CASE LoopWakes
    BY <1>9 DEF LoopWakes
  <1>10. CASE \/ \E h \in Handler :
                  \/ \E r \in Route, flushes \in BOOLEAN : ChangeRoute(h, r, flushes)
                  \/ ChangeMapping(h) \/ MarkDirty(h) \/ Answered(h)
              \/ \E r \in Route : ExternalChange(r)
              \/ \E p \in Handler \cup {Loop} : BeginFlush(p)
              \/ LoopIdles \/ CoolingEnds
    BY <1>2, <1>10 DEF ChangeRoute, ChangeMapping, MarkDirty, Answered, ExternalChange,
       BeginFlush, LoopIdles, CoolingEnds, vars
  <1> QED
    BY <1>2, <1>3, <1>4, <1>5, <1>6, <1>7, <1>8, <1>9, <1>10, <1>11
    DEF Next, FlushStepTaken, vars

LEMMA UpNext ==
  ASSUME MaxCrashes = 0
  PROVE  TypeInv /\ Trial /\ UpInv /\ [Next]_vars => UpInv'
  <1> SUFFICES ASSUME TypeInv, Trial, UpInv, [Next]_vars PROVE UpInv'
    OBVIOUS
  <1>1. loop' # "off" /\ nginx' # NoText /\ nginx' = lastHash'
    BY HashNext
  <1>2. disk'.spoiled \/ Valid(LastGood')
    BY <1>1, GoodNext DEF UpInv
  <1> QED
    BY <1>1, <1>2 DEF UpInv, Valid

LEMMA UpCorrect == ASSUME MaxCrashes = 0 PROVE Spec => [](TypeInv /\ Trial /\ UpInv)
  BY UpInit, UpNext, TrialCorrect, PTL DEF Spec

\* As long as the container is not restarted, nginx could boot from the live
\* config whenever no candidate is on trial, whatever the routes and whatever
\* calls fail but one: a restore that failed, until a candidate is accepted
\* again. A restart is excluded: a failed generation at startup leaves the
\* template.
THEOREM AlwaysColdStartable == ASSUME MaxCrashes = 0 PROVE Spec => []ColdStartable
  <1>1. UpInv => ColdStartable
    BY DEF UpInv, ColdStartable, LastGood
  <1> QED
    BY <1>1, UpCorrect, PTL

\* As long as the container is not restarted, the hash of the scheduler is that
\* of the text nginx serves.
THEOREM HashAlwaysApplied == ASSUME MaxCrashes = 0 PROVE Spec => []HashIsApplied
  <1>1. UpInv => HashIsApplied
    BY DEF UpInv, HashIsApplied
  <1> QED
    BY <1>1, UpCorrect, PTL

-----------------------------------------------------------------------------
(* No change is forgotten *)

\* A change of this process that no flush will have to read is flushed already
\* or in the text of the flush in progress.
Pending == dirty \/ \E h \in Handler : handler[h].pc = "changed"
Covered ==
    ~Pending =>
        /\ flush.by = Nobody => lastHash = db.routes
        /\ flush.step = "render" => flush.text = db.routes \cap Server
        /\ flush.step \in {"mappings", "promote", "test", "restore", "reload"}
             => flush.text = db.routes

LEMMA CoveredInit == Init => Covered
  BY DEF Init, Covered, At, NoFlush

\* The lock is free and the flag set, or the hash is that of the database.
LEMMA ReleaseCovers ==
  ASSUME TypeInv, UpInv, NEW text, Release(text), db' = db,
         flush.by # Nobody, Pending => Pending', ~Pending' => text = db.routes
  PROVE  Covered'
  <1>1. lastHash' = text /\ flush' = NoFlush
    BY DEF Release, TypeInv, TypeOK, UpInv
  <1> QED
    BY <1>1 DEF Covered, At, NoFlush

\* The step of a flush touches no handler that has changed the database.
LEMMA ReleasePending ==
  ASSUME TypeInv, NEW text, Release(text), dirty' = dirty
  PROVE  Pending => Pending'
  <1>1. \A h \in Handler : handler[h].pc = "changed" => handler'[h].pc = "changed"
    BY DEF Release, TypeInv, TypeOK
  <1> QED
    BY <1>1 DEF Pending

LEMMA RetryCovers ==
  ASSUME TypeInv, UpInv, Retry, db' = db, flush.by # Nobody
  PROVE  Covered'
  <1>1. dirty'
    BY DEF Retry, TypeInv, TypeOK, UpInv
  <1> QED
    BY <1>1 DEF Covered, Pending

\* A flush that goes on with a text of the database covers it.
LEMMA ContinueCovers ==
  ASSUME TypeInv, NEW step \in {"promote", "test", "restore", "reload"},
         Continue(step), Covered,
         flush.step \in {"mappings", "promote", "test"}, UNCHANGED <<db, dirty>>
  PROVE  Covered'
  <1>1. UNCHANGED Pending
    BY DEF Pending, Continue
  <1>2. flush'.text = flush.text /\ flush'.by = flush.by /\ flush'.step = step
    BY DEF Continue, TypeInv, TypeOK
  <1>3. flush.by # Nobody
    BY DEF TypeInv, TypeOK
  <1> QED
    BY <1>1, <1>2, <1>3 DEF Covered, At

LEMMA CoveredNext ==
  ASSUME MaxCrashes = 0, PollExternal = FALSE, FaultKind \cap {"render", "section"} = {}
  PROVE  TypeInv /\ Trial /\ UpInv /\ Covered /\ [Next]_vars => Covered'
  <1> SUFFICES ASSUME TypeInv, Trial, UpInv, Covered, [Next]_vars PROVE Covered'
    OBVIOUS
  <1>1. ~Crash /\ ~StartNginx
    BY NoRestart
  <1>2. CASE UNCHANGED <<db, handler, dirty, lastHash, flush>>
    BY <1>2 DEF Covered, Pending, At
  <1>3. CASE \E h \in Handler :
                 \/ \E r \in Route, flushes \in BOOLEAN : ChangeRoute(h, r, flushes)
                 \/ ChangeMapping(h) \/ MarkDirty(h)
    <2>1. Pending'
      BY <1>3 DEF ChangeRoute, ChangeMapping, MarkDirty, Pending, TypeInv, TypeOK
    <2> QED
      BY <2>1 DEF Covered
  <1>4. ASSUME NEW h \in Handler, Answered(h) PROVE Covered'
    <2>1. Pending <=> Pending'
      BY <1>4 DEF Answered, Pending, TypeInv, TypeOK, IdleHandler
    <2> QED
      BY <1>4, <2>1 DEF Answered, Covered, At
  <1>5. CASE \E p \in Handler \cup {Loop} : BeginFlush(p)
    <2>1. PICK p \in Handler \cup {Loop} : BeginFlush(p)
      BY <1>5
    <2>2. flush'.by = p /\ flush'.step = "fetch" /\ p # Nobody
      BY <2>1, NginxConstants DEF BeginFlush
    <2> QED
      BY <2>2 DEF Covered, At
  <1>6. CASE Fetch
    <2>1. flush.by # Nobody
      BY <1>6 DEF Fetch, At, TypeInv, TypeOK
    <2>2. CASE /\ flush' = [flush EXCEPT !.step = "render", !.text = db.routes \cap Server]
               /\ UNCHANGED <<handler, loop, lastHash, dirty, faults>>
      <3>1. /\ flush'.by # Nobody /\ flush'.step = "render"
            /\ flush'.text = db.routes \cap Server /\ db' = db
        BY <1>6, <2>1, <2>2 DEF Fetch, TypeInv, TypeOK
      <3> QED
        BY <3>1 DEF Covered, At
    <2>3. CASE Retry
      BY <1>6, <2>1, <2>3, RetryCovers DEF Fetch
    <2> QED
      BY <1>6, <2>2, <2>3 DEF Fetch
  <1>7. CASE Render
    <2> DEFINE text == flush.text \cup (db.routes \ Server)
    <2>1. flush.by # Nobody /\ flush.by # Boot /\ At("render") /\ UNCHANGED <<db, dirty>>
      BY <1>7 DEF Render, At, TypeInv, TypeOK, UpInv
    <2>2. RenderDone(text)
      <3>1. ~Faulty("section") /\ ~Faulty("render")
        BY DEF Faulty
      <3> QED
        BY <1>7, <3>1 DEF Render
    <2>3. ~Pending => text = db.routes
      BY <2>1 DEF Covered, At
    <2>4. CASE text = lastHash
      <3>1. Release(lastHash)
        BY <2>1, <2>2, <2>4 DEF RenderDone
      <3>2. Pending => Pending'
        BY <2>1, <3>1, ReleasePending
      <3> QED
        BY <2>1, <2>3, <2>4, <3>1, <3>2, ReleaseCovers
    <2>5. CASE text # lastHash
      <3>1. /\ flush'.by = flush.by /\ flush'.step = "mappings" /\ flush'.text = text
            /\ handler' = handler
        BY <2>2, <2>5 DEF RenderDone, TypeInv, TypeOK
      <3> QED
        BY <2>1, <2>3, <3>1 DEF Covered, Pending, At
    <2> QED
      BY <2>4, <2>5
  <1>8. CASE WriteMappings
    BY <1>8, ContinueCovers DEF WriteMappings, At
  <1>9. CASE Promote
    <2>1. flush.by # Nobody /\ flush.step = "promote" /\ db' = db
      BY <1>9 DEF Promote, At, TypeInv, TypeOK
    <2> QED
      BY <1>9, <2>1, ContinueCovers, RetryCovers DEF Promote
  <1>10. CASE Test
    <2>1. flush.by # Nobody /\ flush.step = "test" /\ db' = db
      BY <1>10 DEF Test, At, TypeInv, TypeOK
    <2> QED
      BY <1>10, <2>1, ContinueCovers DEF Test
  <1>13. CASE Restore
    <2>1. flush.by # Nobody /\ db' = db
      BY <1>13 DEF Restore, At, TypeInv, TypeOK
    <2> QED
      BY <1>13, <2>1, RetryCovers DEF Restore
  <1>11. CASE Reload
    <2>1. flush.by # Nobody /\ flush.step = "reload" /\ db' = db
      BY <1>11 DEF Reload, At, TypeInv, TypeOK
    <2>2. CASE Release(flush.text) /\ UNCHANGED dirty
      <3>1. Pending => Pending'
        BY <2>2, ReleasePending
      <3>2. ~Pending => flush.text = db.routes
        BY <2>1 DEF Covered
      <3> QED
        BY <2>1, <2>2, <3>1, <3>2, ReleaseCovers
    <2>3. CASE Retry
      BY <2>1, <2>3, RetryCovers
    <2> QED
      BY <1>11, <2>2, <2>3 DEF Reload
  <1>12. CASE LoopWakes \/ LoopIdles \/ CoolingEnds
    BY <1>2, <1>12 DEF LoopWakes, LoopIdles, CoolingEnds, vars
  <1> QED
    BY <1>1, <1>2, <1>3, <1>4, <1>5, <1>6, <1>7, <1>8, <1>9, <1>10, <1>11, <1>12,
       <1>13
    DEF Next, FlushStepTaken, ExternalChange, vars

\* Once nothing is dirty, waiting or in flight, nginx serves the routes of the
\* database, for any handlers, routes and bounds: a change between the reads of
\* a flush leaves the flag set for another, and so does every failure the flush
\* reports. The failures it swallows are excluded, as are restarts and the
\* changes other replicas make.
THEOREM NothingForgotten ==
  ASSUME MaxCrashes = 0, PollExternal = FALSE, FaultKind \cap {"render", "section"} = {}
  PROVE  Spec => []NoChangeForgotten
  <1>1. TypeInv /\ UpInv /\ Covered => NoChangeForgotten
    <2> SUFFICES ASSUME TypeInv, UpInv, Covered, Quiescent PROVE nginx = db.routes
      BY DEF NoChangeForgotten
    <2>1. ~Pending
      BY DEF Quiescent, HandlerDone, Pending
    <2> QED
      BY <2>1 DEF Quiescent, Covered, UpInv
  <1> QED
    BY <1>1, UpCorrect, CoveredInit, CoveredNext, PTL DEF Spec
=============================================================================
