---------------------------- MODULE QueryHistory ----------------------------
(***************************************************************************)
(* The persisted query history: the hook Manager.addHistory calls, the     *)
(* queue and goroutine of history.Writer, the JSON-lines file of           *)
(* history.Store, and the order in which the main window's Closing handler *)
(* takes them down.                                                        *)
(*                                                                         *)
(* Records are numbered in the order addHistory is called.  A line of the  *)
(* file is a record or Corrupt, a line no reader can parse.  A process     *)
(* crash leaves the file as far as it was written, so an append it cuts    *)
(* short leaves a last line without its newline, and the next append       *)
(* continues that line.                                                    *)
(***************************************************************************)
EXTENDS Naturals, Sequences, FiniteSets, SequencesExt, Places

CONSTANTS
    MaxKept,    \* Store.max, records kept by a compaction
    QueueSize,  \* capacity of Writer.ch
    MaxRecords, \* bound: statements executed
    MaxFaults   \* bound: crashes and I/O errors

ASSUME HistoryAssumption ==
    /\ MaxKept \in Nat \ {0}
    /\ QueueSize \in Nat \ {0}
    /\ MaxRecords \in Nat
    /\ MaxFaults \in Nat

VARIABLES
    phase,   \* of the process
    hook,    \* Manager.historySave # nil
    queue,   \* Writer.ch
    closed,  \* close(Writer.ch) was called
    wpc,     \* the writer goroutine
    hand,    \* the record it works on
    file,    \* the lines of history.jsonl
    torn,    \* its last line lacks the newline
    next,    \* number of the next record
    dropped, \* the records Enqueue dropped (Writer.dropped counts them)
    lost,    \* the records lost to crashes and I/O errors
    faults

process == <<phase, hook, queue, closed, wpc, hand>>
store == <<file, torn>>
ghosts == <<next, dropped, lost, faults>>
hvars == <<phase, hook, queue, closed, wpc, hand, file, torn, next, dropped, lost, faults>>

-----------------------------------------------------------------------------
Records == 1..MaxRecords
Corrupt == 0
NoRecord == 0

Phases == {"down", "up", "disconnected", "unhooked", "closing", "exited"}
WriterPCs == {"none", "recv", "append", "compact", "ended"}

HistTypeOK ==
    /\ phase \in Phases
    /\ hook \in BOOLEAN /\ closed \in BOOLEAN /\ torn \in BOOLEAN
    /\ queue \in Seq(Records) /\ Len(queue) <= QueueSize
    /\ wpc \in WriterPCs
    /\ hand \in Records \union {NoRecord}
    /\ file \in Seq(Records \union {Corrupt})
    /\ next \in 1..MaxRecords + 1
    /\ dropped \subseteq Records
    /\ lost \subseteq Records
    /\ faults \in 0..MaxFaults

Running == phase \notin {"down", "exited"}

(* readAll, history.go:102-121: lines that do not parse are skipped.       *)
RecordLines(f) == {i \in DOMAIN f : f[i] # Corrupt}

Valid(f) == ElementsAt(f, RecordLines(f))

(* What a process that has not started holds.                              *)
NoProcess ==
    /\ hook' = FALSE
    /\ queue' = <<>>
    /\ closed' = FALSE
    /\ wpc' = "none"
    /\ hand' = NoRecord

HistInit ==
    /\ phase = "down"
    /\ hook = FALSE /\ queue = <<>> /\ closed = FALSE
    /\ wpc = "none" /\ hand = NoRecord
    /\ file = <<>> /\ torn = FALSE
    /\ next = 1 /\ dropped = {} /\ lost = {} /\ faults = 0

-----------------------------------------------------------------------------
(* The UI thread                                                           *)

(* applyHistorySetting, settings_windows.go:116-141: one writer for the    *)
(* life of the process, started when the setting is first on.              *)
ApplySetting(on) ==
    /\ hook' = on
    /\ wpc' = IF on /\ wpc = "none" THEN "recv" ELSE wpc

(* Start, with the setting the saved configuration holds.                  *)
Start ==
    /\ phase = "down"
    /\ phase' = "up"
    /\ \E on \in BOOLEAN : ApplySetting(on)
    /\ UNCHANGED <<queue, closed, hand, store, ghosts>>

(* OK in the Settings dialog.                                              *)
ChangeSetting ==
    /\ phase = "up"
    /\ \E on \in BOOLEAN : ApplySetting(on)
    /\ UNCHANGED <<phase, queue, closed, hand, store, ghosts>>

(* The Closing handler, walk_windows.go:345-349.  Statements still in      *)
(* flight are not waited for: they may record themselves after any step.   *)
CloseDisconnects ==
    /\ phase = "up"
    /\ phase' = "disconnected"
    /\ UNCHANGED <<hook, queue, closed, wpc, hand, store, ghosts>>

(* Mutant: the hooks stay.                                                 *)
CloseKeepsHook ==
    /\ phase = "disconnected"
    /\ phase' = "unhooked"
    /\ UNCHANGED <<hook, queue, closed, wpc, hand, store, ghosts>>

CloseUnhooks ==
    /\ phase = "disconnected"
    /\ phase' = "unhooked"
    /\ hook' = FALSE
    /\ UNCHANGED <<queue, closed, wpc, hand, store, ghosts>>

(* Mutant: waits for the writer without closing its channel.               *)
CloseForgetsChannel ==
    /\ phase = "unhooked"
    /\ phase' = IF wpc = "none" THEN "exited" ELSE "closing"
    /\ UNCHANGED <<hook, queue, closed, wpc, hand, store, ghosts>>

(* Writer.Close, writer.go:57-64; without a writer there is nothing to do. *)
CloseWriter ==
    /\ phase = "unhooked"
    /\ IF wpc = "none"
         THEN phase' = "exited" /\ UNCHANGED closed
         ELSE phase' = "closing" /\ closed' = TRUE
    /\ UNCHANGED <<hook, queue, wpc, hand, store, ghosts>>

CloseReturns ==
    /\ phase = "closing"
    /\ wpc = "ended"
    /\ phase' = "exited"
    /\ UNCHANGED <<hook, queue, closed, wpc, hand, store, ghosts>>

(* The program is started again later.                                     *)
Relaunch ==
    /\ phase = "exited"
    /\ phase' = "down"
    /\ NoProcess
    /\ UNCHANGED <<store, ghosts>>

-----------------------------------------------------------------------------
(* A statement ends: addHistory calls the hook under Manager.mu            *)

(* Mutant: the queue grows without a limit.                                *)
AddHistoryUnbounded ==
    /\ Running
    /\ next <= MaxRecords
    /\ next' = next + 1
    /\ queue' = IF hook THEN Append(queue, next) ELSE queue
    /\ UNCHANGED <<phase, hook, closed, wpc, hand, store, dropped, lost, faults>>

(* manager.go:311-313 and Writer.Enqueue, writer.go:40-48.                 *)
AddHistory ==
    /\ Running
    /\ next <= MaxRecords
    /\ next' = next + 1
    /\ IF hook /\ Len(queue) < QueueSize
         THEN queue' = Append(queue, next) ELSE UNCHANGED queue
    /\ dropped' = IF hook /\ Len(queue) >= QueueSize THEN dropped \union {next} ELSE dropped
    /\ UNCHANGED <<phase, hook, closed, wpc, hand, store, lost, faults>>

-----------------------------------------------------------------------------
(* The writer goroutine, writer.go:27-34                                   *)

Receive ==
    /\ wpc = "recv"
    /\ queue # <<>>
    /\ hand' = Head(queue)
    /\ queue' = Tail(queue)
    /\ wpc' = "append"
    /\ UNCHANGED <<phase, hook, closed, store, ghosts>>

(* Mutant: the writer ends when the channel is closed, drained or not.     *)
WriterEndsEarly ==
    /\ wpc = "recv"
    /\ closed
    /\ wpc' = "ended"
    /\ UNCHANGED <<phase, hook, queue, closed, hand, store, ghosts>>

(* The range over a closed channel ends when it is drained.                *)
WriterEnds ==
    /\ wpc = "recv"
    /\ closed /\ queue = <<>>
    /\ wpc' = "ended"
    /\ UNCHANGED <<phase, hook, queue, closed, hand, store, ghosts>>

(* What is gone when the file becomes f: lines that were there, and what   *)
(* the writer held.                                                        *)
Gone(f) == ((ToSet(file) \union {hand}) \ ToSet(f)) \ {Corrupt}

(* A line written in full, continuing the last one if that has no newline. *)
Written(r) == IF torn THEN Append(Front(file), Corrupt) ELSE Append(file, r)

(* Mutant: the line is written without its newline.                        *)
AppendWithoutNewline ==
    /\ wpc = "append"
    /\ file' = Written(hand)
    /\ torn' = TRUE
    /\ lost' = lost \union Gone(file')
    /\ wpc' = "compact"
    /\ hand' = NoRecord
    /\ UNCHANGED <<phase, hook, queue, closed, next, dropped, faults>>

(* history.go:44-60.                                                       *)
AppendLine ==
    /\ wpc = "append"
    /\ file' = Written(hand)
    /\ torn' = FALSE
    /\ lost' = lost \union Gone(file')
    /\ wpc' = "compact"
    /\ hand' = NoRecord
    /\ UNCHANGED <<phase, hook, queue, closed, next, dropped, faults>>

(* A write cut short: nothing of the line, a part, or all but its newline. *)
Torn(r) ==
    {<<file, torn>>,
     <<IF torn THEN Append(Front(file), Corrupt) ELSE Append(file, Corrupt), TRUE>>,
     <<Written(r), TRUE>>}

CutShort(r) ==
    \E w \in Torn(r) :
        /\ file' = w[1]
        /\ torn' = w[2]
        /\ lost' = lost \union Gone(file')

(* history.go:47-62: the error is logged and the record given up.          *)
AppendFails ==
    /\ wpc = "append"
    /\ faults < MaxFaults
    /\ faults' = faults + 1
    /\ CutShort(hand)
    /\ wpc' = "recv"
    /\ hand' = NoRecord
    /\ UNCHANGED <<phase, hook, queue, closed, next, dropped>>

(* Mutant: one record too few.                                             *)
NewestButOne(f) == SubSeq(f, Len(f) - MaxKept + 2, Len(f))

Newest(f) == SubSeq(f, Len(f) - MaxKept + 1, Len(f))

(* Mutants: the kept records are appended to the file; the limit is taken  *)
(* for three times max.                                                    *)
CompactAppends ==
    /\ wpc = "compact"
    /\ IF Len(Valid(file)) > 2 * MaxKept
         THEN file' = file \o Newest(Valid(file)) /\ torn' = FALSE
         ELSE UNCHANGED store
    /\ wpc' = "recv"
    /\ UNCHANGED <<phase, hook, queue, closed, hand, ghosts>>

CompactLate ==
    /\ wpc = "compact"
    /\ IF Len(Valid(file)) > 3 * MaxKept
         THEN file' = Newest(Valid(file)) /\ torn' = FALSE
         ELSE UNCHANGED store
    /\ wpc' = "recv"
    /\ UNCHANGED <<phase, hook, queue, closed, hand, ghosts>>

(* history.go:63-68 and writeAll, 123-143: the rename is atomic.           *)
Compact ==
    /\ wpc = "compact"
    /\ IF Len(Valid(file)) > 2 * MaxKept
         THEN file' = Newest(Valid(file)) /\ torn' = FALSE
         ELSE UNCHANGED store
    /\ wpc' = "recv"
    /\ UNCHANGED <<phase, hook, queue, closed, hand, ghosts>>

(* The temporary file cannot be written or renamed: logged, retried by the *)
(* next append.                                                            *)
CompactFails ==
    /\ wpc = "compact"
    /\ faults < MaxFaults
    /\ faults' = faults + 1
    /\ wpc' = "recv"
    /\ UNCHANGED <<phase, hook, queue, closed, hand, store, next, dropped, lost>>

-----------------------------------------------------------------------------
(* The process dies, with what is queued; an append it is in is cut short, *)
(* a compaction has not reached its rename.                                *)
Crash ==
    /\ Running
    /\ faults < MaxFaults
    /\ faults' = faults + 1
    /\ phase' = "down"
    /\ NoProcess
    /\ \E f \in IF wpc = "append" THEN Torn(hand) ELSE {<<file, torn>>} :
         /\ file' = f[1]
         /\ torn' = f[2]
         /\ lost' = lost \union Gone(f[1]) \union ToSet(queue)
    /\ UNCHANGED <<next, dropped>>

-----------------------------------------------------------------------------
WriterStep == Receive \/ WriterEnds \/ AppendLine \/ AppendFails \/ Compact \/ CompactFails

Closing == CloseUnhooks \/ CloseWriter \/ CloseReturns

HistNext ==
    \/ Start \/ ChangeSetting \/ AddHistory \/ CloseDisconnects \/ Closing
    \/ WriterStep \/ Relaunch \/ Crash

HistSpec == HistInit /\ [][HistNext]_hvars

(* The goroutine runs and so does the rest of a Closing handler.           *)
FairHistSpec == HistSpec /\ WF_hvars(WriterStep) /\ WF_hvars(Closing)

-----------------------------------------------------------------------------
(* Properties                                                              *)

(* "Enqueue must not be called after Close" (writer.go:55-56): it would     *)
(* panic inside addHistory with Manager.mu held.  No statement that is     *)
(* still running when the window closes can call it                        *)
(* (walk_windows.go:345-349).                                              *)
NoEnqueueAfterClose == closed => ~hook

(* Whoever reads the file sees the statements in the order they ran, each  *)
(* at most once, also after a compaction, a crash and a restart            *)
(* (history.go:44-69, 123-143).                                            *)
FileInOrder ==
    LET v == Valid(file)
    IN  \A i, j \in 1..Len(v) : i < j => v[i] < v[j]

(* Records in the file or lost from it that are newer than n.              *)
Newer(n) == {m \in ToSet(Valid(file)) \union lost : m > n}

(* No record disappears silently: once compaction or the shutdown has run, *)
(* an entry that was accepted is queued, in the writer's hand, in the      *)
(* file, dropped and counted, lost to a fault, or superseded by MaxKept    *)
(* newer ones.  Unhooked statements are not recorded (accepted is what     *)
(* AddHistory hands to the writer: writer.go:27-48, history.go:44-69).     *)
InPipeline(n) == n \in ToSet(queue) \/ hand = n \/ n \in ToSet(file)

NothingVanishes ==
    [][\A n \in Records :
          InPipeline(n) /\ ~InPipeline(n)' =>
              n \in lost' \/ Cardinality(Newer(n)') >= MaxKept]_hvars

(* Closing the window flushes: the process only exits with every queued    *)
(* record written ("flush queued history entries", walk_windows.go:348).   *)
ExitFlushes == phase = "exited" => queue = <<>> /\ hand = NoRecord /\ wpc # "compact"

(* A fault costs at most what was queued, the record being written and the *)
(* one appended after it to the torn line (history.go:51-58, 102-121).     *)
FaultCostsLittle == Cardinality(lost) <= faults * (QueueSize + 2)

(* Compaction bounds the file: between appends it holds at most twice the   *)
(* limit, plus one record for every compaction a fault prevented           *)
(* (history.go:64-68).  That is what the code keeps of "stored in          *)
(* history.jsonl ... capped at 1000 entries" (docs/USER_GUIDE.md:123-124): *)
(* the limit is 1000 (settings_windows.go:124), and only a file of more    *)
(* than twice as many records is cut down to it (history.go:65).           *)
FileBounded ==
    wpc # "compact" => Len(Valid(file)) <= 2 * MaxKept + faults

(* Closing the window does not hang on the writer (writer.go:57-64).       *)
CloseEnds == phase = "closing" ~> phase # "closing"

=============================================================================
